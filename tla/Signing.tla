------------------------------ MODULE Signing ------------------------------
(***************************************************************************)
(* How a transaction goes out to a wallet and comes back (signing_request, *)
(* response_handler and the signing and response commands of main.rs).     *)
(* The tool builds a request and prints it; the operator keeps it in a     *)
(* file, exports it to a wallet, and hands the wallet's answer back to the *)
(* tool, which saves it for submission.                                    *)
(*                                                                         *)
(* A JSON document is a record: the parsers ask for fields by name and     *)
(* ignore the others, so that a document may suit more than one of them.   *)
(* The wallet and the operator are modelled from how the tool uses them.   *)
(***************************************************************************)
EXTENDS Naturals, FiniteSets

(* Operators named F_... are faulty variants of the one that follows them; *)
(* the specification uses none of them.                                    *)

CONSTANTS Xdrs,         \* transactions, as the tool builds them
          Paths,        \* files of the operator
          Signers,      \* addresses a wallet signs for
          Networks,     \* values SOROBAN_NETWORK is set to
          None,         \* an absent document
          Second,       \* milliseconds in a second
          MaxClock,     \* bound: milliseconds the clock may show
          MaxRequests,  \* bound: requests built
          MaxResponses  \* bound: answers of the wallet

VARIABLES network,    \* SOROBAN_NETWORK
          clock,      \* of the machine, in milliseconds
          requests,   \* history: requests built
          files,      \* path -> document
          exported,   \* documents handed to the wallet
          responses,  \* documents the wallet answered with
          submitted,  \* history: what submit accepted
          answer      \* the last command and what it answered

vars == <<network, clock, requests, files, exported, responses, submitted, answer>>

NoXdr == [form |-> "empty", of |-> "none"]
Unsigned(x) == [form |-> "unsigned", of |-> x]
SignedForm(x) == [form |-> "signed", of |-> x.of]

Has(doc, fields) == fields \subseteq DOMAIN doc
-----------------------------------------------------------------------------
(* SigningRequest.                                                         *)

Request(xdr) ==
  [id |-> clock, network |-> network, transaction_xdr |-> xdr,
   description |-> "text", created_at |-> clock \div Second]

IsRequest(doc) ==
  doc # None /\ Has(doc, {"id", "network", "transaction_xdr", "description", "created_at"})

ToWalletFormat(r) ==
  [id |-> r.id, type |-> "tx", xdr |-> r.transaction_xdr, network |-> r.network,
   description |-> r.description, timestamp |-> r.created_at]

ValidRequest(r) ==
  r.transaction_xdr # NoXdr /\ r.network \in {"testnet", "mainnet", "public"}

\* The signature is a hash of the key and the XDR.
ServerSigned(r, signer) ==
  [request_id |-> r.id, transaction_xdr |-> r.transaction_xdr,
   signature |-> <<signer, r.transaction_xdr>>, signed_at |-> clock \div Second]
-----------------------------------------------------------------------------
(* ResponseHandler: the wallet's fields are in camel case, those of a      *)
(* saved transaction in snake case.                                        *)

Parses(doc) == doc # None /\ Has(doc, {"requestId", "xdr"})

ParseResponse(doc) ==
  [request_id |-> doc.requestId, transaction_xdr |-> doc.xdr,
   signed_at |-> IF Has(doc, {"signedAt"}) THEN doc.signedAt ELSE clock \div Second,
   signer |-> IF Has(doc, {"signer"}) THEN doc.signer ELSE "unknown",
   status |-> "signed"]

ValidTransaction(tx) == tx.transaction_xdr # NoXdr

F_IsTransaction(doc) == doc # None /\ Has(doc, {"request_id", "transaction_xdr", "signed_at"})

IsTransaction(doc) ==
  doc # None
  /\ Has(doc, {"request_id", "transaction_xdr", "signed_at", "signer", "status"})
-----------------------------------------------------------------------------
Init ==
  /\ network = "testnet" /\ clock = 0
  /\ requests = {} /\ exported = {} /\ responses = {} /\ submitted = {}
  /\ files = [p \in Paths |-> None]
  /\ answer = "none"

\* Time passes, or the clock is set, back included: two requests may get the
\* same id.
SetClock(t) ==
  /\ t # clock
  /\ clock' = t
  /\ UNCHANGED <<network, requests, files, exported, responses, submitted, answer>>

\* The operator edits .env.
SetNetwork(n) ==
  /\ network' = n
  /\ UNCHANGED <<clock, requests, files, exported, responses, submitted, answer>>

\* A command that answers r and changes nothing.
Answer(r) ==
  /\ answer' = r
  /\ UNCHANGED <<network, clock, requests, files, exported, responses, submitted>>

\* signing build-donation and build-campaign; the operator redirects the
\* JSON they print to a file.  build-custom prints no JSON and takes any
\* XDR, an empty one included.
Build(x, p) ==
  /\ Cardinality(requests) < MaxRequests
  /\ LET r == Request(Unsigned(x)) IN
       /\ requests' = requests \cup {r}
       /\ files' = [files EXCEPT ![p] = r]
  /\ answer' = "ok"
  /\ UNCHANGED <<network, clock, exported, responses, submitted>>

BuildCustom(xdr) == Answer(IF xdr = NoXdr THEN "error" ELSE "ok")

\* build-campaign asks for four arguments and reads a fifth.
BuildCampaignWithoutDeadline == Answer("panic")

ValidateRequest(p) ==
  Answer(IF IsRequest(files[p]) /\ ValidRequest(files[p]) THEN "ok" ELSE "error")

\* signing export does not validate what it exports.
Export(p) ==
  IF IsRequest(files[p])
  THEN /\ exported' = exported \cup {ToWalletFormat(files[p])}
       /\ answer' = "ok"
       /\ UNCHANGED <<network, clock, requests, files, responses, submitted>>
  ELSE Answer("error")

\* The wallet signs a document, with or without the optional fields, or
\* answers with an empty transaction; the operator keeps its answer and may
\* put it in a file.
WalletAnswers(doc, signer) ==
  /\ Cardinality(responses) < MaxResponses
  /\ \E xdr \in {SignedForm(doc.xdr), NoXdr} :
       \/ responses' = responses \cup {[requestId |-> doc.id, xdr |-> xdr]}
       \/ responses' = responses \cup
            {[requestId |-> doc.id, xdr |-> xdr, signer |-> signer,
              signedAt |-> clock \div Second]}
  /\ UNCHANGED <<network, clock, requests, files, exported, submitted, answer>>

KeepResponse(doc, p) ==
  /\ files' = [files EXCEPT ![p] = doc]
  /\ UNCHANGED <<network, clock, requests, exported, responses, submitted, answer>>

ServerSign(p, signer, q) ==
  /\ IsRequest(files[p])
  /\ files' = [files EXCEPT ![q] = ServerSigned(files[p], signer)]
  /\ answer' = "ok"
  /\ UNCHANGED <<network, clock, requests, exported, responses, submitted>>

Process(doc) ==
  Answer(IF Parses(doc) /\ ValidTransaction(ParseResponse(doc)) THEN "ok" ELSE "error")

\* response save does not validate what it saves.
Save(doc, p) ==
  IF Parses(doc)
  THEN /\ files' = [files EXCEPT ![p] = ParseResponse(doc)]
       /\ answer' = "ok"
       /\ UNCHANGED <<network, clock, requests, exported, responses, submitted>>
  ELSE Answer("error")

ValidateResponse(p) ==
  Answer(IF Parses(files[p]) /\ ValidTransaction(ParseResponse(files[p]))
         THEN "ok" ELSE "error")

LoadTransaction(p) == Answer(IF IsTransaction(files[p]) THEN "ok" ELSE "error")

\* response submit prints what it is given and a note of what a submission
\* would do; nothing goes to the network yet.
Submit(p) ==
  IF IsTransaction(files[p])
  THEN /\ submitted' = submitted \cup {files[p]}
       /\ answer' = "ok"
       /\ UNCHANGED <<network, clock, requests, files, exported, responses>>
  ELSE Answer("error")

Next ==
  \/ BuildCampaignWithoutDeadline
  \/ \E t \in 0..MaxClock : SetClock(t)
  \/ \E n \in Networks : SetNetwork(n)
  \/ \E x \in Xdrs, p \in Paths : Build(x, p)
  \/ \E xdr \in {NoXdr} \cup {Unsigned(x) : x \in Xdrs} : BuildCustom(xdr)
  \/ \E p \in Paths : \/ ValidateRequest(p) \/ Export(p) \/ ValidateResponse(p)
                      \/ LoadTransaction(p) \/ Submit(p)
                      \/ \E s \in Signers, q \in Paths : ServerSign(p, s, q)
  \/ \E doc \in exported, s \in Signers : WalletAnswers(doc, s)
  \/ \E doc \in responses : \/ Process(doc)
                            \/ \E p \in Paths : KeepResponse(doc, p) \/ Save(doc, p)

Spec == Init /\ [][Next]_vars
-----------------------------------------------------------------------------
(* Properties.                                                             *)

\* What submit accepts carries the id of a request the tool built and the
\* wallet's signature of that request's transaction, provided the wallet signs
\* the document it was given.  An unsigned request, a transaction signed by the
\* server, or an answer that was never parsed does not get there, whatever file
\* the operator names; an answer with an empty transaction does, since neither
\* save nor submit validates.  Of requests that share an id, whose the answer
\* is is not told.
SubmittedAnswersARequest ==
  \A tx \in submitted : \E r \in requests :
    /\ tx.request_id = r.id
    /\ tx.transaction_xdr \in {SignedForm(r.transaction_xdr), NoXdr}
=============================================================================
