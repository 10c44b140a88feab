----------------------------- MODULE ToolProofs -----------------------------
(***************************************************************************)
(* Theorems about the command-line tool, for every value of the constants: *)
(* signing requests and their answers, the encrypted vault, certificates,  *)
(* and the streaming processor with its aggregator.  The components share  *)
(* no state; each has its own specification, its own inductive invariant   *)
(* and a section of its own here.                                          *)
(***************************************************************************)
EXTENDS Signing, Vault, Certificates, Streaming, SumFacts, SequenceTheorems

-----------------------------------------------------------------------------
(***************************************************************************)
(* Signing.  The inductive invariant: what a document in a file or in the  *)
(* wallet's hands says of a request, whichever of the parsers it suits.    *)
(***************************************************************************)
IsBuilt(id, xdr) ==
  \E r \in requests : id = r.id /\ xdr = r.transaction_xdr

IsAnswer(id, xdr) ==
  \E r \in requests : id = r.id /\ xdr \in {SignedForm(r.transaction_xdr), NoXdr}

DocumentOk(doc) ==
  /\ IsRequest(doc) => IsBuilt(doc.id, doc.transaction_xdr)
  /\ Parses(doc) => IsAnswer(doc.requestId, doc.xdr)
  /\ IsTransaction(doc) => IsAnswer(doc.request_id, doc.transaction_xdr)

SigningInv ==
  /\ files \in [Paths -> {files[p] : p \in Paths}]
  /\ \A p \in Paths : DocumentOk(files[p])
  /\ \A doc \in exported : IsBuilt(doc.id, doc.xdr)
  /\ \A doc \in responses :
        /\ IsAnswer(doc.requestId, doc.xdr)
        /\ DOMAIN doc \subseteq {"requestId", "xdr", "signer", "signedAt"}
  /\ \A tx \in submitted : IsAnswer(tx.request_id, tx.transaction_xdr)

-----------------------------------------------------------------------------
LEMMA SigningInvInit == Init => SigningInv
BY DEF Init, SigningInv, DocumentOk, IsRequest, Parses, IsTransaction

\* A request more takes nothing back.
LEMMA StaysBuilt ==
    ASSUME requests \subseteq requests'
    PROVE  /\ \A id, xdr : IsBuilt(id, xdr) => IsBuilt(id, xdr)'
           /\ \A id, xdr : IsAnswer(id, xdr) => IsAnswer(id, xdr)'
BY DEF IsBuilt, IsAnswer

\* Nor does it harm a document.
LEMMA StaysOk ==
    ASSUME requests \subseteq requests'
    PROVE  \A doc : DocumentOk(doc) => DocumentOk(doc)'
BY StaysBuilt DEF DocumentOk, IsBuilt, IsAnswer

\* A file gets a document that is in order, the rest stays.
LEMMA SigningInvFile ==
    ASSUME SigningInv, NEW p \in Paths, NEW doc, files' = [files EXCEPT ![p] = doc],
           UNCHANGED <<requests, exported, responses, submitted>>, DocumentOk(doc)
    PROVE  SigningInv'
<1>1. \A q \in Paths : files'[q] = IF q = p THEN doc ELSE files[q]
  BY DEF SigningInv
<1>2. \A q \in Paths : DocumentOk(files'[q])
  BY <1>1 DEF SigningInv
<1>3. /\ \A d : DocumentOk(d) => DocumentOk(d)'
      /\ \A id, xdr : IsBuilt(id, xdr) => IsBuilt(id, xdr)'
      /\ \A id, xdr : IsAnswer(id, xdr) => IsAnswer(id, xdr)'
  BY StaysOk, StaysBuilt
<1>4. files' \in [Paths -> {files'[q] : q \in Paths}]
  BY DEF SigningInv
<1> QED BY <1>2, <1>3, <1>4 DEF SigningInv

\* A step that touches neither documents nor requests.
LEMMA SigningInvSame ==
    ASSUME SigningInv, UNCHANGED <<requests, files, exported, responses, submitted>>
    PROVE  SigningInv'
BY DEF SigningInv, DocumentOk, IsBuilt, IsAnswer

LEMMA SigningInvBuild ==
    ASSUME SigningInv, NEW x \in Xdrs, NEW p \in Paths, Build(x, p) PROVE SigningInv'
<1>a. PICK r : r = Request(Unsigned(x))
  OBVIOUS
<1>1. /\ requests' = requests \cup {r}
      /\ files' = [files EXCEPT ![p] = r]
      /\ UNCHANGED <<exported, responses, submitted>>
  BY <1>a DEF Build
<1>2. DOMAIN r = {"id", "network", "transaction_xdr", "description", "created_at"}
  BY <1>a DEF Request
<1>3. requests \subseteq requests' /\ r \in requests'
  BY <1>1
<1>4. /\ \A d : DocumentOk(d) => DocumentOk(d)'
      /\ \A id, xdr : IsBuilt(id, xdr) => IsBuilt(id, xdr)'
      /\ \A id, xdr : IsAnswer(id, xdr) => IsAnswer(id, xdr)'
  BY <1>3, StaysOk, StaysBuilt
<1>5. DocumentOk(r)'
  <2>1. ~Parses(r) /\ ~IsTransaction(r)
    BY <1>2 DEF Parses, IsTransaction, Has
  <2>2. IsBuilt(r.id, r.transaction_xdr)'
    BY <1>2, <1>3 DEF IsBuilt
  <2> QED BY <2>1, <2>2 DEF DocumentOk, Parses, IsTransaction
<1>6. \A q \in Paths : files'[q] = IF q = p THEN r ELSE files[q]
  BY <1>1 DEF SigningInv
<1>7. \A q \in Paths : DocumentOk(files[q])'
  <2> SUFFICES ASSUME NEW q \in Paths PROVE DocumentOk(files[q])'
    OBVIOUS
  <2>1. CASE q = p
    BY <1>5, <1>6, <2>1
  <2>2. CASE q # p
    <3>1. DocumentOk(files[q])
      BY DEF SigningInv
    <3>2. files'[q] = files[q]
      BY <1>6, <2>2
    <3> QED BY <1>4, <3>1, <3>2 DEF DocumentOk
  <2> QED BY <2>1, <2>2
<1>8. files' \in [Paths -> {files'[q] : q \in Paths}]
  BY <1>1 DEF SigningInv
<1> QED BY <1>1, <1>4, <1>7, <1>8 DEF SigningInv

LEMMA SigningInvExport ==
    ASSUME SigningInv, NEW p \in Paths, Export(p) PROVE SigningInv'
<1>1. CASE IsRequest(files[p])
  <2> DEFINE w == ToWalletFormat(files[p])
  <2>1. exported' = exported \cup {w}
        /\ UNCHANGED <<requests, files, responses, submitted>>
    BY <1>1 DEF Export
  <2>2. w.id = files[p].id /\ w.xdr = files[p].transaction_xdr
    BY DEF ToWalletFormat
  <2> HIDE DEF w
  <2>3. IsBuilt(w.id, w.xdr)
    BY <1>1, <2>2 DEF SigningInv, DocumentOk
  <2> QED BY <2>1, <2>3 DEF SigningInv, DocumentOk, IsBuilt, IsAnswer
<1>2. CASE ~IsRequest(files[p])
  BY <1>2, SigningInvSame DEF Export, Answer
<1> QED BY <1>1, <1>2

LEMMA SigningInvWalletAnswers ==
    ASSUME SigningInv, NEW doc \in exported, NEW signer \in Signers,
           WalletAnswers(doc, signer)
    PROVE  SigningInv'
<1>1. PICK xdr \in {SignedForm(doc.xdr), NoXdr} :
         \/ responses' = responses \cup {[requestId |-> doc.id, xdr |-> xdr]}
         \/ responses' = responses \cup
              {[requestId |-> doc.id, xdr |-> xdr, signer |-> signer,
                signedAt |-> clock \div Second]}
  BY DEF WalletAnswers
<1>2. PICK new : /\ responses' = responses \cup {new}
                 /\ new.requestId = doc.id /\ new.xdr = xdr
                 /\ DOMAIN new \subseteq {"requestId", "xdr", "signer", "signedAt"}
  <2> DEFINE short == [requestId |-> doc.id, xdr |-> xdr]
             long == [requestId |-> doc.id, xdr |-> xdr, signer |-> signer,
                      signedAt |-> clock \div Second]
  <2>1. /\ short.requestId = doc.id /\ short.xdr = xdr
        /\ DOMAIN short \subseteq {"requestId", "xdr", "signer", "signedAt"}
    OBVIOUS
  <2>2. /\ long.requestId = doc.id /\ long.xdr = xdr
        /\ DOMAIN long \subseteq {"requestId", "xdr", "signer", "signedAt"}
    OBVIOUS
  <2>3. responses' = responses \cup {short} \/ responses' = responses \cup {long}
    BY <1>1
  <2> HIDE DEF short, long
  <2> QED BY <2>1, <2>2, <2>3
<1>3. IsAnswer(new.requestId, new.xdr)
  BY <1>1, <1>2 DEF SigningInv, IsBuilt, IsAnswer
<1>4. UNCHANGED <<requests, files, exported, submitted>>
  BY DEF WalletAnswers
<1> QED BY <1>2, <1>3, <1>4 DEF SigningInv, DocumentOk, IsBuilt, IsAnswer

LEMMA SigningInvKeepResponse ==
    ASSUME SigningInv, NEW doc \in responses, NEW p \in Paths, KeepResponse(doc, p)
    PROVE  SigningInv'
<1>1. DOMAIN doc \subseteq {"requestId", "xdr", "signer", "signedAt"}
      /\ IsAnswer(doc.requestId, doc.xdr)
  BY DEF SigningInv
<1>2. ~IsRequest(doc) /\ ~IsTransaction(doc)
  BY <1>1 DEF IsRequest, IsTransaction, Has
<1>3. DocumentOk(doc)
  BY <1>1, <1>2 DEF DocumentOk
<1> QED BY <1>3, SigningInvFile DEF KeepResponse

LEMMA SigningInvServerSign ==
    ASSUME SigningInv, NEW p \in Paths, NEW signer \in Signers, NEW q \in Paths,
           ServerSign(p, signer, q)
    PROVE  SigningInv'
<1> DEFINE doc == ServerSigned(files[p], signer)
<1>1. DOMAIN doc = {"request_id", "transaction_xdr", "signature", "signed_at"}
  BY DEF ServerSigned
<1>2. files' = [files EXCEPT ![q] = doc]
      /\ UNCHANGED <<requests, exported, responses, submitted>>
  BY DEF ServerSign
<1> HIDE DEF doc
<1>3. ~IsRequest(doc) /\ ~Parses(doc) /\ ~IsTransaction(doc)
  BY <1>1 DEF IsRequest, Parses, IsTransaction, Has
<1>4. DocumentOk(doc)
  BY <1>3 DEF DocumentOk
<1> QED BY <1>2, <1>4, SigningInvFile

LEMMA SigningInvSave ==
    ASSUME SigningInv, NEW doc \in responses, NEW p \in Paths, Save(doc, p)
    PROVE  SigningInv'
<1>1. CASE Parses(doc)
  <2> DEFINE tx == ParseResponse(doc)
  <2>1. /\ DOMAIN tx = {"request_id", "transaction_xdr", "signed_at", "signer", "status"}
        /\ tx.request_id = doc.requestId /\ tx.transaction_xdr = doc.xdr
    BY DEF ParseResponse
  <2>2. files' = [files EXCEPT ![p] = tx]
        /\ UNCHANGED <<requests, exported, responses, submitted>>
    BY <1>1 DEF Save
  <2> HIDE DEF tx
  <2>3. ~IsRequest(tx) /\ ~Parses(tx)
    BY <2>1 DEF IsRequest, Parses, Has
  <2>4. IsAnswer(tx.request_id, tx.transaction_xdr)
    BY <2>1 DEF SigningInv
  <2>5. DocumentOk(tx)
    BY <2>3, <2>4 DEF DocumentOk
  <2> QED BY <2>2, <2>5, SigningInvFile
<1>2. CASE ~Parses(doc)
  BY <1>2, SigningInvSame DEF Save, Answer
<1> QED BY <1>1, <1>2

LEMMA SigningInvSubmit ==
    ASSUME SigningInv, NEW p \in Paths, Submit(p) PROVE SigningInv'
<1>1. CASE IsTransaction(files[p])
  <2>1. submitted' = submitted \cup {files[p]}
        /\ UNCHANGED <<requests, files, exported, responses>>
    BY <1>1 DEF Submit
  <2>2. IsAnswer(files[p].request_id, files[p].transaction_xdr)
    BY <1>1 DEF SigningInv, DocumentOk
  <2> QED BY <2>1, <2>2 DEF SigningInv, DocumentOk, IsBuilt, IsAnswer
<1>2. CASE ~IsTransaction(files[p])
  BY <1>2, SigningInvSame DEF Submit, Answer
<1> QED BY <1>1, <1>2

LEMMA SigningInvNext ==
    ASSUME SigningInv, [Next]_vars PROVE SigningInv'
<1>1. CASE UNCHANGED vars
  BY <1>1, SigningInvSame DEF vars
<1>2. CASE \/ BuildCampaignWithoutDeadline
           \/ \E t \in 0..MaxClock : SetClock(t)
           \/ \E n \in Networks : SetNetwork(n)
  BY <1>2, SigningInvSame DEF SetClock, BuildCampaignWithoutDeadline, SetNetwork, Answer
<1>3. CASE \E xdr \in {NoXdr} \cup {Unsigned(x) : x \in Xdrs} : BuildCustom(xdr)
  BY <1>3, SigningInvSame DEF BuildCustom, Answer
<1>4. CASE \E p \in Paths : ValidateRequest(p) \/ ValidateResponse(p) \/ LoadTransaction(p)
  BY <1>4, SigningInvSame DEF ValidateRequest, ValidateResponse, LoadTransaction, Answer
<1>5. CASE \E doc \in responses : Process(doc)
  BY <1>5, SigningInvSame DEF Process, Answer
<1>6. CASE \E x \in Xdrs, p \in Paths : Build(x, p)
  BY <1>6, SigningInvBuild
<1>7. CASE \E p \in Paths : \/ Export(p) \/ Submit(p)
                            \/ \E s \in Signers, q \in Paths : ServerSign(p, s, q)
  BY <1>7, SigningInvExport, SigningInvSubmit, SigningInvServerSign
<1>8. CASE \E doc \in exported, s \in Signers : WalletAnswers(doc, s)
  BY <1>8, SigningInvWalletAnswers
<1>9. CASE \E doc \in responses, p \in Paths : KeepResponse(doc, p) \/ Save(doc, p)
  BY <1>9, SigningInvKeepResponse, SigningInvSave
<1> QED BY <1>1, <1>2, <1>3, <1>4, <1>5, <1>6, <1>7, <1>8, <1>9 DEF Next

LEMMA SigningInvAlways == Spec => []SigningInv
BY SigningInvInit, SigningInvNext, PTL DEF Spec

-----------------------------------------------------------------------------
\* Whatever files the operator names and however the clock is set, submit
\* accepts only an answer to a request the tool built.
THEOREM SubmittedAreAnswers == Spec => []SubmittedAnswersARequest
<1>1. SigningInv => SubmittedAnswersARequest
  BY DEF SigningInv, IsAnswer, SubmittedAnswersARequest
<1> QED BY <1>1, SigningInvAlways, PTL

-----------------------------------------------------------------------------
(***************************************************************************)
(* Vault.  The inductive invariant: vaults are records of two maps, the    *)
(* file of a completed save has its lines, and no ciphertext, wherever it  *)
(* is kept, hides a string too short to be validated.                      *)
(***************************************************************************)
IsMap(f) == f = [n \in DOMAIN f |-> f[n]]

IsVault(v) ==
  /\ v = [manager |-> v.manager, secrets |-> v.secrets, publics |-> v.publics]
  /\ IsMap(v.secrets) /\ IsMap(v.publics)

LongEnough(c) == c \in {Absent, Short} \/ c.secret.kind # "short"

AllLongEnough(v) == \A n \in DOMAIN v.secrets : LongEnough(v.secrets[n])

Good(v) == IsVault(v) /\ AllLongEnough(v)

VaultInv ==
  /\ vault # Absent => Good(vault)
  /\ saved # Absent => IsVault(saved) /\ vaultFile = Lines(saved)
  /\ vaultFile # Absent => \A l \in vaultFile : l.encrypted => LongEnough(l.value)
  /\ {"adminEncrypted", "issuingEncrypted"} \subseteq DOMAIN env
  /\ LongEnough(env.adminEncrypted) /\ LongEnough(env.issuingEncrypted)

LEMMA VaultInvInit == VaultInit => VaultInv
BY DEF VaultInit, VaultInv, LongEnough

\* The map that Load makes of a part of the lines.
MapOf(part) == [n \in {l.name : l \in part} |-> (CHOOSE l \in part : l.name = n).value]

\* The lines that stand for a map, and give it back.
LinesFor(f, e) == {[name |-> n, encrypted |-> e, value |-> f[n]] : n \in DOMAIN f}

LEMMA MapOfLines ==
    ASSUME NEW f, IsMap(f), NEW e
    PROVE  MapOf(LinesFor(f, e)) = f
<1> DEFINE lines == LinesFor(f, e)
<1>1. \A l \in lines : l.name \in DOMAIN f /\ l.value = f[l.name]
  BY DEF LinesFor
<1>2. \A n \in DOMAIN f : \E l \in lines : l.name = n
  <2> SUFFICES ASSUME NEW n \in DOMAIN f PROVE \E l \in lines : l.name = n
    OBVIOUS
  <2> DEFINE line == [name |-> n, encrypted |-> e, value |-> f[n]]
  <2>1. line \in lines /\ line.name = n
    BY DEF LinesFor
  <2> QED BY <2>1
<1> HIDE DEF lines
<1>3. {l.name : l \in lines} = DOMAIN f
  BY ONLY <1>1, <1>2
<1>4. ASSUME NEW n \in DOMAIN f
      PROVE  (CHOOSE l \in lines : l.name = n).value = f[n]
  <2> DEFINE k == CHOOSE l \in lines : l.name = n
  <2>1. k \in lines /\ k.name = n
    BY ONLY <1>2, <1>4
  <2> HIDE DEF k
  <2>2. k.value = f[n]
    BY ONLY <2>1, <1>1
  <2> QED BY <2>2 DEF k
<1>5. [n \in DOMAIN f |-> (CHOOSE l \in lines : l.name = n).value] = [n \in DOMAIN f |-> f[n]]
  BY ONLY <1>4
<1> QED BY ONLY <1>3, <1>5, IsMap(f) DEF IsMap, MapOf, lines

\* A vault and its file: loading the lines of a vault gives its maps.
LEMMA LoadLines ==
    ASSUME NEW v, IsVault(v), NEW p
    PROVE  Load(Lines(v), p) = [v EXCEPT !.manager = FromPassword(p)]
<1>1. /\ {l \in Lines(v) : l.encrypted = TRUE} = SecretLines(v)
      /\ {l \in Lines(v) : l.encrypted = FALSE} = PublicLines(v)
  <2>1. \A l \in SecretLines(v) : l.encrypted = TRUE
    BY DEF SecretLines
  <2>2. \A l \in PublicLines(v) : l.encrypted = FALSE
    BY DEF PublicLines
  <2> QED BY ONLY <2>1, <2>2 DEF Lines
<1>2. MapOf(SecretLines(v)) = v.secrets
  <2>1. SecretLines(v) = LinesFor(v.secrets, TRUE)
    BY DEF SecretLines, LinesFor
  <2>2. IsMap(v.secrets)
    BY DEF IsVault
  <2> QED BY ONLY <2>1, <2>2, MapOfLines
<1>3. MapOf(PublicLines(v)) = v.publics
  <2>1. PublicLines(v) = LinesFor(v.publics, FALSE)
    BY DEF PublicLines, LinesFor
  <2>2. IsMap(v.publics)
    BY DEF IsVault
  <2> QED BY ONLY <2>1, <2>2, MapOfLines
<1>4. Load(Lines(v), p) = [manager |-> FromPassword(p), secrets |-> v.secrets,
                           publics |-> v.publics]
  <2>1. Load(Lines(v), p) = [manager |-> FromPassword(p),
                             secrets |-> MapOf({l \in Lines(v) : l.encrypted = TRUE}),
                             publics |-> MapOf({l \in Lines(v) : l.encrypted = FALSE})]
    BY DEF Load, MapOf
  <2> QED BY ONLY <2>1, <1>1, <1>2, <1>3
<1> QED BY <1>4 DEF IsVault

\* What any set of lines gives: a vault whose entries are lines of it.
LinesOf(part, f) ==
  \A n \in DOMAIN f : \E l \in part : l.name = n /\ l.value = f[n]

LEMMA LoadAny ==
    ASSUME NEW lines, NEW p
    PROVE  LET v == Load(lines, p)
           IN  /\ IsVault(v) /\ v.manager = FromPassword(p)
               /\ LinesOf({l \in lines : l.encrypted = TRUE}, v.secrets)
               /\ LinesOf({l \in lines : l.encrypted = FALSE}, v.publics)
<1>1. ASSUME NEW part
      PROVE  IsMap(MapOf(part)) /\ LinesOf(part, MapOf(part))
  <2>1. ASSUME NEW n \in DOMAIN MapOf(part)
        PROVE  \E l \in part : l.name = n /\ l.value = MapOf(part)[n]
    <3> DEFINE k == CHOOSE l \in part : l.name = n
    <3>1. MapOf(part)[n] = k.value /\ \E l \in part : l.name = n
      BY DEF MapOf
    <3>2. k \in part /\ k.name = n
      BY <3>1
    <3> HIDE DEF k
    <3> QED BY <3>1, <3>2
  <2> QED BY <2>1 DEF IsMap, LinesOf, MapOf
<1>2. Load(lines, p) = [manager |-> FromPassword(p),
                        secrets |-> MapOf({l \in lines : l.encrypted = TRUE}),
                        publics |-> MapOf({l \in lines : l.encrypted = FALSE})]
  BY DEF Load, MapOf
<1> QED BY <1>1, <1>2 DEF IsVault

LEMMA EnvVaultIsVault ==
    ASSUME VaultInv
    PROVE  /\ IsVault(EnvVault) /\ AllLongEnough(EnvVault)
           /\ DOMAIN EnvVault.secrets \subseteq {"admin_secret_key", "issuing_secret_key"}
           /\ DOMAIN EnvVault.publics \subseteq {"admin_public_key", "issuing_public_key"}
<1>1. IsVault(EnvVault)
  BY DEF EnvVault, IsVault, IsMap, Insert, Empty
<1>2. /\ DOMAIN EnvVault.secrets \subseteq {"admin_secret_key", "issuing_secret_key"}
      /\ DOMAIN EnvVault.publics \subseteq {"admin_public_key", "issuing_public_key"}
  BY DEF EnvVault, Insert, Empty
<1>3. \A n \in DOMAIN EnvVault.secrets :
         EnvVault.secrets[n] \in {env.adminEncrypted, env.issuingEncrypted}
  BY DEF EnvVault, Insert, Empty
<1> QED BY <1>1, <1>2, <1>3 DEF AllLongEnough, VaultInv

-----------------------------------------------------------------------------
\* What is stored in a vault leaves it one.
LEMMA InsertMap ==
    ASSUME NEW f, NEW n, NEW x
    PROVE  /\ IsMap(Insert(f, n, x)) /\ DOMAIN Insert(f, n, x) = DOMAIN f \cup {n}
           /\ Insert(f, n, x)[n] = x
           /\ \A m \in DOMAIN f : m # n => Insert(f, n, x)[m] = f[m]
BY DEF Insert, IsMap

LEMMA PutSecretFields ==
    ASSUME NEW v, IsVault(v), NEW n, NEW s
    PROVE  PutSecret(v, n, s)
             = [manager |-> v.manager, secrets |-> Insert(v.secrets, n, Encrypt(v.manager, s)),
                publics |-> v.publics]
BY DEF PutSecret, IsVault

LEMMA PutPublicFields ==
    ASSUME NEW v, IsVault(v), NEW n, NEW s
    PROVE  PutPublic(v, n, s)
             = [manager |-> v.manager, secrets |-> v.secrets,
                publics |-> Insert(v.publics, n, s)]
BY DEF PutPublic, IsVault

LEMMA StoreSecretGood ==
    ASSUME NEW v, Good(v), NEW n, NEW s
    PROVE  Good(StoreSecret(v, n, s).vault)
<1>1. CASE CanStoreSecret(v, s)
  <2> DEFINE w == PutSecret(v, n, s)
  <2>1. w = [manager |-> v.manager, secrets |-> Insert(v.secrets, n, Encrypt(v.manager, s)),
             publics |-> v.publics]
    BY PutSecretFields DEF Good
  <2>2. LongEnough(Encrypt(v.manager, s))
    BY <1>1 DEF LongEnough, Encrypt, CanStoreSecret, ValidSecret
  <2> HIDE DEF w
  <2>3. IsVault(w)
    BY <2>1, InsertMap DEF IsVault, Good
  <2>4. AllLongEnough(w)
    <3> SUFFICES ASSUME NEW m \in DOMAIN w.secrets
                 PROVE  LongEnough(w.secrets[m])
      BY DEF AllLongEnough
    <3> DEFINE c == Encrypt(v.manager, s)
    <3> HIDE DEF c
    <3>1. w.secrets = Insert(v.secrets, n, c)
      BY <2>1 DEF c
    <3>a. /\ DOMAIN Insert(v.secrets, n, c) = DOMAIN v.secrets \cup {n}
          /\ Insert(v.secrets, n, c)[n] = c
          /\ \A k \in DOMAIN v.secrets : k # n => Insert(v.secrets, n, c)[k] = v.secrets[k]
      BY DEF Insert
    <3>2. CASE m = n
      BY <3>1, <3>2, <3>a, <2>2 DEF c
    <3>3. CASE m # n
      <4>1. m \in DOMAIN v.secrets /\ w.secrets[m] = v.secrets[m]
        BY <3>1, <3>3, <3>a
      <4> QED BY <4>1 DEF AllLongEnough, Good
    <3> QED BY <3>2, <3>3
  <2> QED BY <1>1, <2>3, <2>4 DEF StoreSecret, w, Good
<1> QED BY <1>1 DEF StoreSecret

LEMMA StorePublicGood ==
    ASSUME NEW v, Good(v), NEW n, NEW s
    PROVE  Good(StorePublic(v, n, s).vault)
<1>1. CASE ValidPublic(s)
  <2> DEFINE w == PutPublic(v, n, s)
  <2>1. w = [manager |-> v.manager, secrets |-> v.secrets,
             publics |-> Insert(v.publics, n, s)]
    BY PutPublicFields DEF Good
  <2> HIDE DEF w
  <2>3. IsVault(w)
    BY <2>1, InsertMap DEF IsVault, Good
  <2>4. AllLongEnough(w)
    BY <2>1 DEF AllLongEnough, Good
  <2> QED BY <1>1, <2>3, <2>4 DEF StorePublic, w, Good
<1> QED BY <1>1 DEF StorePublic

LEMMA AndPublicGood ==
    ASSUME NEW r, Good(r.vault), NEW n, NEW s
    PROVE  Good(AndPublic(r, n, s).vault)
BY StorePublicGood DEF AndPublic

\* No keypair that loads from a good vault is too short to be displayed.
LEMMA PairsLongEnough ==
    ASSUME NEW v, Good(v), NEW a, NEW b, LoadPair(v, a, b) # Absent
    PROVE  LoadPair(v, a, b).secret.kind # "short"
<1>1. /\ LoadPair(v, a, b).secret = RetrieveSecret(v, b)
      /\ RetrieveSecret(v, b) # Absent
  BY DEF LoadPair
<1>2. RetrieveSecret(v, b) = Decrypt(v.manager, v.secrets[b]) /\ v.secrets[b] # Absent
      /\ b \in DOMAIN v.secrets
  BY <1>1 DEF RetrieveSecret, Get
<1>3. LongEnough(v.secrets[b])
  BY <1>2 DEF Good, AllLongEnough
<1> QED BY <1>1, <1>2, <1>3 DEF Decrypt, LongEnough

LEMMA OnlyWidePairsPanic ==
    ASSUME NEW v, Good(v), "panic" \in Answers(v)
    PROVE  \E pair \in {LoadMaster(v), LoadDistribution(v)} \ {Absent} :
              pair.secret.kind = "wide"
<1>1. ASSUME NEW pair \in {LoadMaster(v), LoadDistribution(v)}, NEW i,
             Shown(pair) = "panic" \/ Validated(pair, i) = "panic"
      PROVE  pair # Absent /\ pair.secret.kind = "wide"
  <2>1. pair # Absent /\ pair.secret.kind \in {"short", "wide"}
    BY <1>1 DEF Shown, Validated, Displayed
  <2>2. pair.secret.kind # "short"
    BY <2>1, PairsLongEnough DEF LoadMaster, LoadDistribution
  <2> QED BY <2>1, <2>2
<1>2. \E pair \in {LoadMaster(v), LoadDistribution(v)} :
         Shown(pair) = "panic" \/ \E i : Validated(pair, i) = "panic"
  BY DEF Answers
<1> QED BY <1>1, <1>2

\* The commands never find a keypair in the environment, so they display none.
LEMMA EnvironmentHasNoPairs ==
    ASSUME VaultInv
    PROVE  "panic" \notin Answers(EnvVault)
<1>1. Get(EnvVault.publics, "master_public_key") = Absent
      /\ Get(EnvVault.publics, "distribution_issuing_key") = Absent
  BY EnvVaultIsVault DEF Get
<1>2. LoadMaster(EnvVault) = Absent /\ LoadDistribution(EnvVault) = Absent
  BY <1>1 DEF LoadMaster, LoadDistribution, LoadPair
<1> QED BY <1>2 DEF Answers, Shown, Validated

\* Loading lines whose ciphertexts are displayable gives a good vault.
LEMMA LoadGood ==
    ASSUME NEW lines, \A l \in lines : l.encrypted => LongEnough(l.value), NEW p
    PROVE  Good(Load(lines, p))
<1> DEFINE v == Load(lines, p)
<1>1. /\ IsVault(v)
      /\ LinesOf({l \in lines : l.encrypted = TRUE}, v.secrets)
  BY LoadAny
<1> HIDE DEF v
<1> QED BY <1>1 DEF Good, AllLongEnough, LinesOf, v

\* What a torn file holds: some of the lines and at most one more cut short;
\* all the public ones once there is an encrypted one.
IsTorn(v, lines, w, e) ==
  /\ lines = w \cup e
  /\ w \subseteq Lines(v)
  /\ e = {} \/ \E k \in Lines(v) \ w : e = {[k EXCEPT !.value = Short]}
  /\ (\E l \in lines : l.encrypted) => PublicLines(v) \subseteq lines

LEMMA TornShape ==
    ASSUME NEW v, NEW lines \in TornLines(v)
    PROVE  \E w, e : IsTorn(v, lines, w, e)
<1> DEFINE Cut(l) == [l EXCEPT !.value = Short]
           Ends(s) == {{}} \cup {{Cut(l)} : l \in Lines(v) \ s}
<1>1. /\ lines \in UNION {{w \cup e : e \in Ends(w)} : w \in SUBSET Lines(v)}
      /\ (\E l \in lines : l.encrypted) => PublicLines(v) \subseteq lines
  BY DEF TornLines
<1>2. PICK w \in SUBSET Lines(v) : \E e \in Ends(w) : lines = w \cup e
  <2> HIDE DEF Ends
  <2> QED BY <1>1
<1>3. PICK e \in Ends(w) : lines = w \cup e
  BY <1>2
<1>4. e = {} \/ \E k \in Lines(v) \ w : e = {Cut(k)}
  <2> HIDE DEF Cut
  <2> QED OBVIOUS
<1> QED BY <1>1, <1>3, <1>4 DEF IsTorn

\* The lines of a good vault are displayable, whole or cut short.
LEMMA LinesLongEnough ==
    ASSUME NEW v, Good(v)
    PROVE  /\ \A l \in Lines(v) : l.encrypted => LongEnough(l.value)
           /\ \A lines \in TornLines(v) : \A l \in lines : l.encrypted => LongEnough(l.value)
<1>1. \A l \in Lines(v) : l.encrypted => LongEnough(l.value)
  BY DEF Lines, SecretLines, PublicLines, Good, AllLongEnough
<1>2. ASSUME NEW lines \in TornLines(v), NEW l \in lines
      PROVE  l \in Lines(v) \/ l.value = Short
  <2>1. ASSUME NEW k \in Lines(v) PROVE [k EXCEPT !.value = Short].value = Short
    BY DEF Lines, SecretLines, PublicLines
  <2>2. PICK w, e : IsTorn(v, lines, w, e)
    BY TornShape
  <2> QED BY <2>1, <2>2 DEF IsTorn
<1> QED BY <1>1, <1>2 DEF LongEnough

-----------------------------------------------------------------------------
LEMMA VaultInvOpen ==
    ASSUME VaultInv, NEW v, v # Absent => Good(v), NEW cmd, Open(v, cmd)
    PROVE  VaultInv'
BY DEF VaultInv, Open, Ok, Good, IsVault, IsMap, AllLongEnough, LongEnough,
       Lines, PublicLines, SecretLines

LEMMA VaultInvResult ==
    ASSUME VaultInv, NEW r, Good(r.vault), NEW cmd, Result(cmd, r)
    PROVE  VaultInv'
BY DEF VaultInv, Result, Ok, Error

LEMMA VaultInvReply ==
    ASSUME VaultInv, NEW cmd, NEW how, Reply(cmd, how)
    PROVE  VaultInv'
BY DEF VaultInv, Reply

LEMMA VaultInvOpens ==
    ASSUME VaultInv,
           \/ New \/ FromEnv \/ Exit
           \/ \E p \in Passwords : WithPassword(p) \/ LoadFromFile(p)
           \/ \E h \in HexKeys : WithHexKey(h)
    PROVE  VaultInv'
<1>1. ASSUME NEW m PROVE Good(VaultOf(m))
  BY DEF VaultOf, Empty, Good, IsVault, IsMap, AllLongEnough
<1>2. Good(EnvVault)
  BY EnvVaultIsVault DEF Good
<1>3. ASSUME NEW p, vaultFile # Absent PROVE Good(Load(vaultFile, p))
  BY <1>3, LoadGood DEF VaultInv
<1> QED BY <1>1, <1>2, <1>3, VaultInvOpen
        DEF New, FromEnv, Exit, WithPassword, LoadFromFile, WithHexKey

LEMMA VaultInvStores ==
    ASSUME VaultInv,
           \/ \E s \in Strings : StoreAdminSecret(s) \/ StoreAdminPublic(s)
           \/ \E pair \in Pairs : \/ StoreMasterPair(pair)
                                  \/ \E s \in Strings : StoreDistributionPair(pair, s)
    PROVE  VaultInv'
<1>1. vault # Absent
  BY DEF StoreAdminSecret, StoreAdminPublic, StoreMasterPair, StoreDistributionPair
<1>2. Good(vault)
  BY <1>1 DEF VaultInv
<1>3. ASSUME NEW n, NEW s
      PROVE  Good(StoreSecret(vault, n, s).vault) /\ Good(StorePublic(vault, n, s).vault)
  BY <1>2, StoreSecretGood, StorePublicGood
<1>4. ASSUME NEW pair, NEW s
      PROVE  /\ Good(StoreMaster(vault, pair).vault)
             /\ Good(StoreDistribution(vault, pair, s).vault)
  BY <1>3, AndPublicGood DEF StoreMaster, StoreDistribution
<1> QED BY <1>3, <1>4, VaultInvResult
        DEF StoreAdminSecret, StoreAdminPublic, StoreMasterPair, StoreDistributionPair

LEMMA VaultInvSaves ==
    ASSUME VaultInv, SaveToFile \/ SaveInterrupted \/ VaultSave
    PROVE  VaultInv'
<1>1. CASE SaveToFile
  <2>1. Good(vault)
    BY <1>1 DEF SaveToFile, VaultInv
  <2>2. \A l \in Lines(vault) : l.encrypted => LongEnough(l.value)
    BY <2>1, LinesLongEnough
  <2> QED BY <1>1, <2>1, <2>2 DEF SaveToFile, WriteFile, Ok, VaultInv, Good
<1>2. CASE SaveInterrupted
  <2>1. Good(vault) /\ vaultFile' \in TornLines(vault)
    BY <1>2 DEF SaveInterrupted, VaultInv
  <2>2. \A l \in vaultFile' : l.encrypted => LongEnough(l.value)
    BY <2>1, LinesLongEnough
  <2> QED BY <1>2, <2>1, <2>2 DEF SaveInterrupted, Error, VaultInv
<1>3. CASE VaultSave
  <2>1. Good(EnvVault)
    BY EnvVaultIsVault DEF Good
  <2>2. \A l \in Lines(EnvVault) : l.encrypted => LongEnough(l.value)
    BY <2>1, LinesLongEnough
  <2> QED BY <1>3, <2>1, <2>2 DEF VaultSave, WriteFile, Ok, VaultInv, Good
<1> QED BY <1>1, <1>2, <1>3

LEMMA VaultInvEnv ==
    ASSUME VaultInv, EditEnv \/ \E p \in Passwords, s \in Strings : EncryptForEnv(p, s)
    PROVE  VaultInv'
<1>1. UNCHANGED <<vault, vaultFile, saved>>
  BY DEF EditEnv, EncryptForEnv
<1>2. CASE EditEnv
  <2>1. /\ DOMAIN env' = DOMAIN env
        /\ env'.adminEncrypted = env.adminEncrypted
        /\ env'.issuingEncrypted = env.issuingEncrypted
    BY <1>2 DEF EditEnv, VaultInv
  <2> QED BY <1>1, <2>1 DEF VaultInv
<1>3. ASSUME NEW p \in Passwords, NEW s \in Strings, EncryptForEnv(p, s)
      PROVE  VaultInv'
  <2>1. CASE ValidSecret(s)
    <3> DEFINE c == Encrypt(FromPassword(p), s)
    <3>1. LongEnough(c)
      BY <2>1 DEF LongEnough, Encrypt, ValidSecret
    <3>2. \/ env' = [env EXCEPT !.adminEncrypted = c]
          \/ env' = [env EXCEPT !.issuingEncrypted = c]
      BY <1>3, <2>1 DEF EncryptForEnv
    <3> HIDE DEF c
    <3>3. /\ DOMAIN env' = DOMAIN env
          /\ env'.adminEncrypted \in {env.adminEncrypted, c}
          /\ env'.issuingEncrypted \in {env.issuingEncrypted, c}
      BY <3>2 DEF VaultInv
    <3> QED BY <1>1, <3>1, <3>3 DEF VaultInv
  <2>2. CASE ~ValidSecret(s)
    BY <1>1, <1>3, <2>2 DEF EncryptForEnv, VaultInv
  <2> QED BY <2>1, <2>2
<1> QED BY <1>2, <1>3

LEMMA VaultInvAnswers ==
    ASSUME VaultInv,
           \/ PrintStatus \/ GenerateMaster \/ Show \/ Display
           \/ \E p \in Passwords : DecryptCommand(p) \/ VaultLoad(p)
           \/ \E s \in Strings : \/ GenerateDistribution(s)
                                 \/ \E positive \in BOOLEAN : Fund(s, positive)
    PROVE  VaultInv'
<1>1. CASE Display
  <2>1. vault' \in {vault, Absent} /\ UNCHANGED <<env, vaultFile, saved>>
    BY <1>1 DEF Display
  <2> QED BY <2>1 DEF VaultInv
<1>2. CASE ~Display
  BY <1>2, VaultInvReply DEF PrintStatus, GenerateMaster, Show, DecryptCommand,
        VaultLoad, GenerateDistribution, Fund
<1> QED BY <1>1, <1>2

LEMMA VaultInvNext ==
    ASSUME VaultInv, [VaultNext]_vaultVars
    PROVE  VaultInv'
<1>1. CASE UNCHANGED vaultVars
  BY <1>1 DEF vaultVars, VaultInv
<1>2. CASE VaultNext
  BY <1>2, VaultInvOpens, VaultInvStores, VaultInvSaves, VaultInvEnv, VaultInvAnswers
     DEF VaultNext
<1> QED BY <1>1, <1>2

LEMMA VaultInvAlways == VaultSpec => []VaultInv
BY VaultInvInit, VaultInvNext, PTL DEF VaultSpec

\* What a completed save wrote comes back with a load, whatever vaults,
\* passwords and interrupted saves came before.
THEOREM SavedVaultsComeBack == VaultSpec => []SavedVaultComesBack
<1>1. VaultInv => SavedVaultComesBack
  <2> SUFFICES ASSUME VaultInv, saved # Absent, NEW p \in Passwords
               PROVE  Load(vaultFile, p) = [saved EXCEPT !.manager = FromPassword(p)]
    BY DEF SavedVaultComesBack
  <2> QED BY LoadLines DEF VaultInv
<1> QED BY <1>1, VaultInvAlways, PTL

\* Displaying a keypair panics for the empty one of generate and for a secret
\* with a wide character, and for nothing else that a vault can hold.
THEOREM PanicsComeFromOddSecrets == VaultSpec => OnlyOddSecretsPanic
<1> DEFINE Odd == reply'.result = "panic" =>
       \/ reply'.cmd = "generate"
       \/ /\ vault # Absent
          /\ \E pair \in {LoadMaster(vault), LoadDistribution(vault)} \ {Absent} :
               pair.secret.kind = "wide"
<1>1. ASSUME VaultInv, [VaultNext]_vaultVars
      PROVE  [Odd]_vaultVars
  <2>1. CASE Display
    <3>1. vault # Absent /\ reply'.result \in Answers(vault)
      BY <2>1 DEF Display
    <3>2. Good(vault)
      BY <1>1, <3>1 DEF VaultInv
    <3> QED BY <3>1, <3>2, OnlyWidePairsPanic
  <2>2. CASE Show
    BY <1>1, <2>2, EnvironmentHasNoPairs DEF Show, Reply
  <2>3. CASE UNCHANGED vaultVars
    BY <2>3
  <2>4. CASE \/ New \/ FromEnv \/ Exit \/ SaveToFile \/ SaveInterrupted
             \/ EditEnv \/ VaultSave \/ PrintStatus \/ GenerateMaster
    BY <2>4 DEF New, FromEnv, Exit, Open, SaveToFile, SaveInterrupted, EditEnv,
       VaultSave, PrintStatus, GenerateMaster, Reply, Ok, Error
  <2>5. ASSUME NEW p \in Passwords,
               \/ WithPassword(p) \/ LoadFromFile(p) \/ DecryptCommand(p)
               \/ VaultLoad(p) \/ \E s \in Strings : EncryptForEnv(p, s)
        PROVE  Odd
    BY <2>5 DEF WithPassword, LoadFromFile, Open, DecryptCommand, VaultLoad,
       EncryptForEnv, Reply, Ok, Error
  <2>6. ASSUME NEW h \in HexKeys, WithHexKey(h)
        PROVE  Odd
    BY <2>6 DEF WithHexKey, Open, Ok
  <2>7. ASSUME NEW s \in Strings,
               \/ StoreAdminSecret(s) \/ StoreAdminPublic(s)
               \/ GenerateDistribution(s) \/ \E positive \in BOOLEAN : Fund(s, positive)
        PROVE  Odd
    BY <2>7 DEF StoreAdminSecret, StoreAdminPublic, GenerateDistribution, Fund,
       Result, Reply, Ok, Error
  <2>8. ASSUME NEW pair \in Pairs,
               StoreMasterPair(pair) \/ \E s \in Strings : StoreDistributionPair(pair, s)
        PROVE  Odd
    BY <2>8 DEF StoreMasterPair, StoreDistributionPair, Result, Ok, Error
  <2> QED BY <1>1, <2>1, <2>2, <2>3, <2>4, <2>5, <2>6, <2>7, <2>8 DEF VaultNext
<1>2. OnlyOddSecretsPanic <=> [][Odd]_vaultVars
  BY DEF OnlyOddSecretsPanic
<1> HIDE DEF Odd
<1> QED BY <1>1, <1>2, VaultInvAlways, PTL DEF VaultSpec

-----------------------------------------------------------------------------
(***************************************************************************)
(* PairsStayTogether.  What loads as a keypair depends on the master key,  *)
(* on one public and on one secret entry; each step either leaves those as *)
(* they were in a vault held before, or stores both halves of one key.     *)
(***************************************************************************)
Under(v, p) == [v EXCEPT !.manager = FromPassword(p)]

PairOf(m, public, c) ==
  IF public = Absent \/ c = Absent \/ m = Absent \/ Decrypt(m, c) = Absent
  THEN Absent ELSE [public |-> public, secret |-> Decrypt(m, c)]

OneKey(pair) == pair = Absent \/ pair.public = Public(pair.secret.key)

LEMMA LoadPairIs ==
    ASSUME NEW v, NEW a, NEW b
    PROVE  LoadPair(v, a, b) = PairOf(v.manager, Get(v.publics, a), Get(v.secrets, b))
<1>1. CASE Get(v.secrets, b) = Absent \/ v.manager = Absent
  BY <1>1 DEF LoadPair, PairOf, RetrieveSecret
<1>2. CASE Get(v.publics, a) = Absent
  BY <1>2 DEF LoadPair, PairOf
<1>3. CASE ~(Get(v.secrets, b) = Absent \/ v.manager = Absent) /\ Get(v.publics, a) # Absent
  <2>1. Get(v.publics, a) = v.publics[a] /\ Get(v.secrets, b) = v.secrets[b]
    BY <1>3 DEF Get
  <2> QED BY <1>3, <2>1 DEF LoadPair, PairOf, RetrieveSecret
<1> QED BY <1>1, <1>2, <1>3

LEMMA UnderFields ==
    ASSUME NEW v, IsVault(v), NEW p
    PROVE  /\ Under(v, p).manager = FromPassword(p)
           /\ Under(v, p).secrets = v.secrets /\ Under(v, p).publics = v.publics
BY DEF Under, IsVault

\* A keypair that a vault held before would have loaded, or of one key.
Covered(pair) ==
  OneKey(pair) \/ \E u \in VaultsHeld : pair \in {LoadMaster(u), LoadDistribution(u)}

PairsCovered(w) == Covered(LoadMaster(w)) /\ Covered(LoadDistribution(w))

LEMMA CoveredIsEnough ==
    ASSUME NEW held, \A w \in held : PairsCovered(w)
    PROVE  (\E w \in held : Mixed(w)) => \E u \in VaultsHeld : Mixed(u)
BY DEF PairsCovered, Covered, OneKey, Mixed

\* A vault without entries for keypairs loads none.
LEMMA NoPairs ==
    ASSUME NEW v,
           {"master_public_key", "distribution_issuing_key"} \cap DOMAIN v.publics = {}
    PROVE  PairsCovered(v)
<1>1. Get(v.publics, "master_public_key") = Absent
      /\ Get(v.publics, "distribution_issuing_key") = Absent
  BY DEF Get
<1>2. LoadMaster(v) = Absent /\ LoadDistribution(v) = Absent
  BY <1>1 DEF LoadMaster, LoadDistribution, LoadPair
<1> QED BY <1>2 DEF PairsCovered, Covered, OneKey

\* What a torn file loads of a keypair was whole in the vault.
LEMMA TornPair ==
    ASSUME NEW v, IsVault(v), NEW lines \in TornLines(v), NEW p, NEW a, NEW b,
           LoadPair(Load(lines, p), a, b) # Absent
    PROVE  /\ Load(lines, p).publics = v.publics
           /\ LoadPair(Load(lines, p), a, b) = LoadPair(Under(v, p), a, b)
<1> DEFINE w == Load(lines, p)
           c == Get(w.secrets, b)
<1>1. PICK s, e : IsTorn(v, lines, s, e)
  BY TornShape
<1>2. /\ w.manager = FromPassword(p)
      /\ w.publics = MapOf({l \in lines : l.encrypted = FALSE})
      /\ LinesOf({l \in lines : l.encrypted = TRUE}, w.secrets)
  BY LoadAny DEF Load, MapOf
<1> HIDE DEF w
<1>3. c # Absent /\ c # Short /\ b \in DOMAIN w.secrets /\ c = w.secrets[b]
  <2>1. PairOf(w.manager, Get(w.publics, a), c) # Absent
    BY LoadPairIs DEF w
  <2> QED BY <2>1 DEF PairOf, Decrypt, Get
<1>4. PICK l \in lines : l.encrypted = TRUE /\ l.name = b /\ l.value = c
  BY <1>2, <1>3 DEF LinesOf
<1>5. PublicLines(v) \subseteq lines
  BY <1>1, <1>4 DEF IsTorn
<1>6. \A k \in Lines(v) : /\ [k EXCEPT !.value = Short].value = Short
                          /\ [k EXCEPT !.value = Short].encrypted = k.encrypted
                          /\ k.encrypted = TRUE => k \in SecretLines(v)
                          /\ k.encrypted = FALSE => k \in PublicLines(v)
  <2>1. \A k \in Lines(v) : /\ [k EXCEPT !.value = Short].value = Short
                            /\ [k EXCEPT !.value = Short].encrypted = k.encrypted
    BY DEF Lines, SecretLines, PublicLines
  <2>2. /\ \A k \in SecretLines(v) : k.encrypted = TRUE
        /\ \A k \in PublicLines(v) : k.encrypted = FALSE
    BY DEF SecretLines, PublicLines
  <2> QED BY ONLY <2>1, <2>2 DEF Lines
<1>7. {k \in lines : k.encrypted = FALSE} = PublicLines(v)
  <2>1. ASSUME NEW k \in lines, k.encrypted = FALSE
        PROVE  k \in PublicLines(v)
    <3>1. CASE k \in s
      BY <3>1, <2>1, <1>1, <1>6 DEF IsTorn
    <3>2. CASE k \in e
      <4>1. PICK j \in Lines(v) \ s : e = {[j EXCEPT !.value = Short]}
        BY <3>2, <1>1 DEF IsTorn
      <4>2. k = [j EXCEPT !.value = Short] /\ j.encrypted = FALSE
        BY <3>2, <4>1, <2>1, <1>6
      <4>3. j \in PublicLines(v) /\ j \in lines
        BY <4>1, <4>2, <1>5, <1>6
      <4>4. j \in e
        BY <4>1, <4>3, <1>1 DEF IsTorn
      <4>5. j = k
        BY <4>1, <4>2, <4>4
      <4> QED BY <4>3, <4>5
    <3> QED BY <3>1, <3>2, <1>1 DEF IsTorn
  <2>2. \A k \in PublicLines(v) : k \in lines /\ k.encrypted = FALSE
    BY <1>5 DEF PublicLines
  <2> QED BY <2>1, <2>2
<1>8. w.publics = v.publics
  <2>1. PublicLines(v) = LinesFor(v.publics, FALSE)
    BY DEF PublicLines, LinesFor
  <2>2. IsMap(v.publics)
    BY DEF IsVault
  <2>3. MapOf(PublicLines(v)) = v.publics
    BY ONLY <2>1, <2>2, MapOfLines
  <2> QED BY <1>2, <1>7, <2>3
<1>9. c = Get(v.secrets, b)
  <2>1. l \in s
    <3> SUFFICES ASSUME l \in e PROVE FALSE
      BY <1>1 DEF IsTorn
    <3>1. PICK j \in Lines(v) \ s : e = {[j EXCEPT !.value = Short]}
      BY <1>1 DEF IsTorn
    <3>2. l.value = Short
      BY <3>1, <1>6
    <3> QED BY <3>2, <1>3, <1>4
  <2>2. l \in SecretLines(v)
    BY <2>1, <1>1, <1>4, <1>6 DEF IsTorn
  <2>3. b \in DOMAIN v.secrets /\ c = v.secrets[b]
    BY <2>2, <1>4 DEF SecretLines
  <2> QED BY <2>3 DEF Get
<1>10. LoadPair(w, a, b) = LoadPair(Under(v, p), a, b)
  BY <1>2, <1>8, <1>9, LoadPairIs, UnderFields
<1> QED BY <1>8, <1>10 DEF w

\* The two keypairs of a vault, as they load under a master key m.
MasterUnder(v, m) ==
  PairOf(m, Get(v.publics, "master_public_key"), Get(v.secrets, "master_secret_key"))

DistributionUnder(v, m) ==
  IF Get(v.publics, "distribution_issuing_key") = Absent THEN Absent
  ELSE PairOf(m, Get(v.publics, "distribution_public_key"),
              Get(v.secrets, "distribution_secret_key"))

LEMMA LoadsUnder ==
    ASSUME NEW v
    PROVE  /\ LoadMaster(v) = MasterUnder(v, v.manager)
           /\ LoadDistribution(v) = DistributionUnder(v, v.manager)
BY LoadPairIs DEF LoadMaster, LoadDistribution, MasterUnder, DistributionUnder

\* A vault after a step, and the vaults it could be loaded as.
HeldOf(v) == {v} \cup {Under(v, p) : p \in Passwords}

\* v loads, under any master key, keypairs of one key or what u loads.
OnlyNewPairs(v, u) ==
  /\ IsVault(v) /\ v.manager = u.manager
  /\ \A m : \/ OneKey(MasterUnder(v, m))
            \/ MasterUnder(v, m) = MasterUnder(u, m)
  /\ \A m : \/ OneKey(DistributionUnder(v, m))
            \/ DistributionUnder(v, m) = DistributionUnder(u, m)

LEMMA OnlyNewPairsCovered ==
    ASSUME vault # Absent, IsVault(vault), NEW v, OnlyNewPairs(v, vault), NEW w \in HeldOf(v)
    PROVE  PairsCovered(w)
<1>1. /\ w.secrets = v.secrets /\ w.publics = v.publics
      /\ w = v \/ \E p \in Passwords : w = Under(v, p)
  BY UnderFields DEF HeldOf, OnlyNewPairs
<1>2. PICK u \in VaultsHeld : /\ u.manager = w.manager
                              /\ u.secrets = vault.secrets /\ u.publics = vault.publics
  <2>1. CASE w = v
    BY <2>1 DEF VaultsHeld, OnlyNewPairs
  <2>2. ASSUME NEW p \in Passwords, w = Under(v, p)
        PROVE  \E u \in VaultsHeld : /\ u.manager = w.manager
                                     /\ u.secrets = vault.secrets /\ u.publics = vault.publics
    <3>1. Under(vault, p) \in VaultsHeld
      BY DEF VaultsHeld, Under
    <3>2. w.manager = FromPassword(p)
      BY <2>2, UnderFields DEF OnlyNewPairs
    <3> QED BY <3>1, <3>2, UnderFields
  <2> QED BY <1>1, <2>1, <2>2
<1>3. /\ LoadMaster(w) = MasterUnder(v, w.manager)
      /\ LoadDistribution(w) = DistributionUnder(v, w.manager)
  BY <1>1, LoadsUnder DEF MasterUnder, DistributionUnder
<1>4. /\ LoadMaster(u) = MasterUnder(vault, w.manager)
      /\ LoadDistribution(u) = DistributionUnder(vault, w.manager)
  BY <1>2, LoadsUnder DEF MasterUnder, DistributionUnder
<1>5. Covered(LoadMaster(w))
  BY <1>3, <1>4 DEF OnlyNewPairs, Covered
<1>6. Covered(LoadDistribution(w))
  BY <1>3, <1>4 DEF OnlyNewPairs, Covered
<1> QED BY <1>5, <1>6 DEF PairsCovered

LEMMA InsertGet ==
    ASSUME NEW f, NEW n, NEW x
    PROVE  /\ Get(Insert(f, n, x), n) = x
           /\ \A k : k # n => Get(Insert(f, n, x), k) = Get(f, k)
BY DEF Insert, Get

\* What a store changes of a vault.
LEMMA StoreSecretEntries ==
    ASSUME NEW v, IsVault(v), NEW n, NEW s
    PROVE  LET r == StoreSecret(v, n, s)
           IN  /\ r.ok \in BOOLEAN
               /\ IsVault(r.vault) /\ r.vault.manager = v.manager
               /\ r.vault.publics = v.publics
               /\ \A k : k # n => Get(r.vault.secrets, k) = Get(v.secrets, k)
               /\ r.ok => ValidSecret(s) /\ Get(r.vault.secrets, n) = Encrypt(v.manager, s)
               /\ ~r.ok => r.vault = v
<1>1. CASE CanStoreSecret(v, s)
  <2> DEFINE c == Encrypt(v.manager, s)
  <2> HIDE DEF c
  <2>1. PutSecret(v, n, s) = [manager |-> v.manager, secrets |-> Insert(v.secrets, n, c),
                              publics |-> v.publics]
    BY PutSecretFields DEF c
  <2>2. IsMap(Insert(v.secrets, n, c))
    BY InsertMap
  <2>3. /\ Get(Insert(v.secrets, n, c), n) = c
        /\ \A k : k # n => Get(Insert(v.secrets, n, c), k) = Get(v.secrets, k)
    BY InsertGet
  <2>4. StoreSecret(v, n, s) = [ok |-> TRUE, vault |-> PutSecret(v, n, s)] /\ ValidSecret(s)
    BY <1>1 DEF StoreSecret, CanStoreSecret
  <2> QED BY <2>1, <2>2, <2>3, <2>4 DEF IsVault, c
<1>2. CASE ~CanStoreSecret(v, s)
  BY <1>2 DEF StoreSecret
<1> QED BY <1>1, <1>2

LEMMA StorePublicEntries ==
    ASSUME NEW v, IsVault(v), NEW n, NEW s
    PROVE  LET r == StorePublic(v, n, s)
           IN  /\ r.ok \in BOOLEAN
               /\ IsVault(r.vault) /\ r.vault.manager = v.manager
               /\ r.vault.secrets = v.secrets
               /\ \A k : k # n => Get(r.vault.publics, k) = Get(v.publics, k)
               /\ r.ok => ValidPublic(s) /\ Get(r.vault.publics, n) = s
               /\ ~r.ok => r.vault = v
<1>1. CASE ValidPublic(s)
  <2>1. PutPublic(v, n, s) = [manager |-> v.manager, secrets |-> v.secrets,
                              publics |-> Insert(v.publics, n, s)]
    BY PutPublicFields
  <2>2. IsMap(Insert(v.publics, n, s))
    BY InsertMap
  <2>3. /\ Get(Insert(v.publics, n, s), n) = s
        /\ \A k : k # n => Get(Insert(v.publics, n, s), k) = Get(v.publics, k)
    BY InsertGet
  <2>4. StorePublic(v, n, s) = [ok |-> TRUE, vault |-> PutPublic(v, n, s)]
    BY <1>1 DEF StorePublic
  <2> QED BY <1>1, <2>1, <2>2, <2>3, <2>4 DEF IsVault
<1>2. CASE ~ValidPublic(s)
  BY <1>2 DEF StorePublic
<1> QED BY <1>1, <1>2

\* Both halves of a valid pair are of one key.
LEMMA StoredPairIsOneKey ==
    ASSUME NEW pair \in Pairs, ValidPublic(pair.public), ValidSecret(pair.secret),
           NEW m, NEW n
    PROVE  OneKey(PairOf(m, pair.public, Encrypt(n, pair.secret)))
<1>1. PICK k \in Keys : /\ pair.public = Public(k)
                       /\ pair.secret \in {Secret(k), Wide(k)}
  BY DEF Pairs, ValidPublic, Short, Generated, Public
<1>2. Decrypt(m, Encrypt(n, pair.secret)) \in {pair.secret, Absent}
  BY DEF Decrypt, Encrypt
<1>3. pair.secret.key = k
  BY <1>1 DEF Secret, Wide
<1> QED BY <1>1, <1>2, <1>3 DEF PairOf, OneKey

-----------------------------------------------------------------------------
\* What must be shown of a step, of the vault and of the file it leaves.
VaultCovered == vault' # Absent => \A w \in HeldOf(vault') : PairsCovered(w)

FileCovered == vaultFile' # Absent => \A p \in Passwords : PairsCovered(Load(vaultFile', p))

LEMMA StepCovered ==
    ASSUME VaultCovered, FileCovered
    PROVE  (\E w \in VaultsHeld' : Mixed(w)) => \E u \in VaultsHeld : Mixed(u)
<1>1. \A w \in VaultsHeld' : PairsCovered(w)
  BY DEF VaultCovered, FileCovered, VaultsHeld, HeldOf, Under
<1> QED BY <1>1, CoveredIsEnough

LEMMA HeldIsCovered ==
    ASSUME NEW w \in VaultsHeld
    PROVE  PairsCovered(w)
BY DEF PairsCovered, Covered

LEMMA KeptVaultCovered ==
    ASSUME vault' = vault
    PROVE  VaultCovered
BY HeldIsCovered DEF VaultCovered, HeldOf, Under, VaultsHeld

LEMMA KeptFileCovered ==
    ASSUME vaultFile' = vaultFile
    PROVE  FileCovered
BY HeldIsCovered DEF FileCovered, VaultsHeld

\* A vault without the entries of keypairs, under any password.
NoEntries(v) ==
  /\ IsVault(v)
  /\ {"master_public_key", "distribution_issuing_key"} \cap DOMAIN v.publics = {}

LEMMA NoEntriesCovered ==
    ASSUME NEW v, NoEntries(v), NEW w \in HeldOf(v)
    PROVE  PairsCovered(w)
<1>1. w.publics = v.publics
  BY UnderFields DEF HeldOf, NoEntries
<1> QED BY <1>1, NoPairs DEF NoEntries

LEMMA OpensCovered ==
    ASSUME VaultInv,
           \/ New \/ FromEnv \/ Exit \/ Display
           \/ \E p \in Passwords : WithPassword(p) \/ LoadFromFile(p)
           \/ \E h \in HexKeys : WithHexKey(h)
    PROVE  VaultCovered /\ FileCovered
<1>1. FileCovered
  BY KeptFileCovered DEF New, FromEnv, Exit, Display, WithPassword, LoadFromFile,
                         WithHexKey, Open
<1>2. ASSUME NEW m PROVE NoEntries(VaultOf(m))
  BY DEF VaultOf, Empty, NoEntries, IsVault, IsMap
<1>3. NoEntries(EnvVault)
  BY EnvVaultIsVault DEF NoEntries
<1>4. ASSUME NEW p \in Passwords, LoadFromFile(p)
      PROVE  VaultCovered
  <2>1. vaultFile # Absent /\ vault' = Load(vaultFile, p)
    BY <1>4 DEF LoadFromFile, Open
  <2>2. ASSUME NEW w \in HeldOf(vault')
        PROVE  w \in VaultsHeld
    <3>1. Load(vaultFile, p) \in VaultsHeld
      BY <2>1 DEF VaultsHeld
    <3>2. ASSUME NEW q \in Passwords
          PROVE  Under(Load(vaultFile, p), q) = Load(vaultFile, q)
      <4> DEFINE s == MapOf({l \in vaultFile : l.encrypted = TRUE})
                 t == MapOf({l \in vaultFile : l.encrypted = FALSE})
      <4>1. /\ Load(vaultFile, p) = [manager |-> FromPassword(p), secrets |-> s, publics |-> t]
            /\ Load(vaultFile, q) = [manager |-> FromPassword(q), secrets |-> s, publics |-> t]
        BY DEF Load, MapOf
      <4> QED BY ONLY <4>1 DEF Under
    <3>3. \A q \in Passwords : Load(vaultFile, q) \in VaultsHeld
      BY <2>1 DEF VaultsHeld
    <3> QED BY <2>1, <2>2, <3>1, <3>2, <3>3 DEF HeldOf
  <2> QED BY <2>2, HeldIsCovered DEF VaultCovered
<1>5. ASSUME NEW v, NoEntries(v), vault' = v
      PROVE  VaultCovered
  BY <1>5, NoEntriesCovered DEF VaultCovered
<1>6. Exit => VaultCovered
  BY DEF Exit, Open, VaultCovered
<1>7. Display => VaultCovered
  <2>1. Display => vault' \in {vault, Absent}
    BY DEF Display
  <2> QED BY <2>1, KeptVaultCovered DEF VaultCovered
<1> QED BY <1>1, <1>2, <1>3, <1>4, <1>5, <1>6, <1>7
        DEF New, FromEnv, WithPassword, WithHexKey, Open

LEMMA SavesCovered ==
    ASSUME VaultInv, SaveToFile \/ SaveInterrupted \/ VaultSave
    PROVE  VaultCovered /\ FileCovered
<1>1. VaultCovered
  BY KeptVaultCovered DEF SaveToFile, SaveInterrupted, VaultSave
<1>2. CASE SaveToFile
  <2>1. vault # Absent /\ IsVault(vault) /\ vaultFile' = Lines(vault)
    BY <1>2 DEF SaveToFile, WriteFile, VaultInv, Good
  <2>2. ASSUME NEW p \in Passwords
        PROVE  Load(vaultFile', p) \in VaultsHeld
    BY <2>1, LoadLines DEF VaultsHeld
  <2> QED BY <1>1, <2>2, HeldIsCovered DEF FileCovered
<1>3. CASE SaveInterrupted
  <2>1. vault # Absent /\ IsVault(vault) /\ vaultFile' \in TornLines(vault)
    BY <1>3 DEF SaveInterrupted, VaultInv, Good
  <2> SUFFICES ASSUME NEW p \in Passwords
               PROVE  PairsCovered(Load(vaultFile', p))
    BY <1>1 DEF FileCovered
  <2> DEFINE w == Load(vaultFile', p)
             u == Under(vault, p)
  <2>2. u \in VaultsHeld
    BY <2>1 DEF VaultsHeld, Under
  <2>3. ASSUME NEW a, NEW b, LoadPair(w, a, b) # Absent
        PROVE  w.publics = u.publics /\ LoadPair(w, a, b) = LoadPair(u, a, b)
    BY <2>1, <2>3, TornPair, UnderFields
  <2> HIDE DEF w, u
  <2>4. LoadMaster(w) = Absent \/ LoadMaster(w) = LoadMaster(u)
    BY <2>3 DEF LoadMaster
  <2>5. LoadDistribution(w) = Absent \/ LoadDistribution(w) = LoadDistribution(u)
    BY <2>3 DEF LoadDistribution
  <2>6. PairsCovered(w)
    BY <2>2, <2>4, <2>5 DEF PairsCovered, Covered, OneKey
  <2> QED BY <2>6 DEF w
<1>4. CASE VaultSave
  <2>1. NoEntries(EnvVault) /\ vaultFile' = Lines(EnvVault)
    BY <1>4, EnvVaultIsVault DEF VaultSave, WriteFile, NoEntries
  <2>2. ASSUME NEW p \in Passwords
        PROVE  Load(vaultFile', p) = Under(EnvVault, p)
    BY <2>1, LoadLines DEF NoEntries, Under
  <2>3. ASSUME NEW p \in Passwords
        PROVE  Under(EnvVault, p) \in HeldOf(EnvVault)
    BY DEF HeldOf
  <2> QED BY <1>1, <2>1, <2>2, <2>3, NoEntriesCovered DEF FileCovered
<1> QED BY <1>2, <1>3, <1>4

LEMMA StoresCovered ==
    ASSUME VaultInv,
           \/ \E s \in Strings : StoreAdminSecret(s) \/ StoreAdminPublic(s)
           \/ \E pair \in Pairs : \/ StoreMasterPair(pair)
                                  \/ \E s \in Strings : StoreDistributionPair(pair, s)
    PROVE  \/ VaultCovered /\ FileCovered
           \/ reply' = [cmd |-> "store_in_vault", result |-> "error"]
<1>1. FileCovered
  BY KeptFileCovered DEF StoreAdminSecret, StoreAdminPublic, StoreMasterPair,
        StoreDistributionPair, Result
<1>2. vault # Absent /\ IsVault(vault)
  BY DEF StoreAdminSecret, StoreAdminPublic, StoreMasterPair, StoreDistributionPair,
         VaultInv, Good
<1>3. ASSUME NEW v, OnlyNewPairs(v, vault), vault' = v
      PROVE  VaultCovered
  BY <1>2, <1>3, OnlyNewPairsCovered DEF VaultCovered
<1>4. ASSUME NEW s \in Strings, StoreAdminSecret(s)
      PROVE  VaultCovered
  <2> DEFINE r == StoreSecret(vault, "admin_secret_key", s)
             v == r.vault
  <2>1. /\ IsVault(v) /\ v.manager = vault.manager /\ v.publics = vault.publics
        /\ \A k : k # "admin_secret_key" => Get(v.secrets, k) = Get(vault.secrets, k)
        /\ r.ok => ValidSecret(s)
    BY <1>2, StoreSecretEntries
  <2>2. vault' = v
    BY <1>4 DEF StoreAdminSecret, Result
  <2> HIDE DEF v
  <2>3. OnlyNewPairs(v, vault)
    BY <2>1 DEF OnlyNewPairs, MasterUnder, DistributionUnder
  <2> QED BY <2>2, <2>3, <1>3
<1>5. ASSUME NEW s \in Strings, StoreAdminPublic(s)
      PROVE  VaultCovered
  <2> DEFINE r == StorePublic(vault, "admin_public_key", s)
             v == r.vault
  <2>1. /\ IsVault(v) /\ v.manager = vault.manager /\ v.secrets = vault.secrets
        /\ \A k : k # "admin_public_key" => Get(v.publics, k) = Get(vault.publics, k)
        /\ r.ok => ValidPublic(s)
    BY <1>2, StorePublicEntries
  <2>2. vault' = v
    BY <1>5 DEF StoreAdminPublic, Result
  <2> HIDE DEF v
  <2>3. OnlyNewPairs(v, vault)
    BY <2>1 DEF OnlyNewPairs, MasterUnder, DistributionUnder
  <2> QED BY <2>2, <2>3, <1>3
<1>6. ASSUME NEW pair \in Pairs, StoreMasterPair(pair)
      PROVE  VaultCovered \/ reply' = [cmd |-> "store_in_vault", result |-> "error"]
  <2> DEFINE r == StoreSecret(vault, "master_secret_key", pair.secret)
             q == StorePublic(r.vault, "master_public_key", pair.public)
             z == StoreMaster(vault, pair)
             v == q.vault
  <2>1. /\ vault' = z.vault
        /\ ~z.ok => reply' = [cmd |-> "store_in_vault", result |-> "error"]
    BY <1>6 DEF StoreMasterPair, Result, Error
  <2>2. z = IF r.ok THEN q ELSE r
    BY DEF StoreMaster, AndPublic
  <2>3. /\ IsVault(r.vault) /\ r.vault.manager = vault.manager
        /\ r.vault.publics = vault.publics
        /\ \A k : k # "master_secret_key" => Get(r.vault.secrets, k) = Get(vault.secrets, k)
        /\ r.ok => /\ ValidSecret(pair.secret)
                   /\ Get(r.vault.secrets, "master_secret_key")
                        = Encrypt(vault.manager, pair.secret)
    BY <1>2, StoreSecretEntries
  <2> HIDE DEF r
  <2>4. /\ IsVault(v) /\ v.manager = r.vault.manager /\ v.secrets = r.vault.secrets
        /\ \A k : k # "master_public_key" => Get(v.publics, k) = Get(r.vault.publics, k)
        /\ q.ok => /\ ValidPublic(pair.public)
                   /\ Get(v.publics, "master_public_key") = pair.public
    BY <2>3, StorePublicEntries
  <2> HIDE DEF q, z
  <2> SUFFICES ASSUME z.ok PROVE VaultCovered
    BY <2>1
  <2>5. r.ok /\ q.ok /\ vault' = v
    BY <2>1, <2>2
  <2> HIDE DEF v
  <2>6. \A m : OneKey(MasterUnder(v, m))
    BY <2>3, <2>4, <2>5, StoredPairIsOneKey DEF MasterUnder
  <2>7. \A m : DistributionUnder(v, m) = DistributionUnder(vault, m)
    BY <2>3, <2>4 DEF DistributionUnder
  <2>8. OnlyNewPairs(v, vault)
    BY <2>3, <2>4, <2>6, <2>7 DEF OnlyNewPairs
  <2> QED BY <2>5, <2>8, <1>3
<1>7. ASSUME NEW pair \in Pairs, NEW s \in Strings, StoreDistributionPair(pair, s)
      PROVE  VaultCovered \/ reply' = [cmd |-> "store_in_vault", result |-> "error"]
  <2> DEFINE r == StoreSecret(vault, "distribution_secret_key", pair.secret)
             q == StorePublic(r.vault, "distribution_public_key", pair.public)
             i == StorePublic(q.vault, "distribution_issuing_key", s)
             z == StoreDistribution(vault, pair, s)
             u == q.vault
             v == i.vault
  <2>1. /\ vault' = z.vault
        /\ ~z.ok => reply' = [cmd |-> "store_in_vault", result |-> "error"]
    BY <1>7 DEF StoreDistributionPair, Result, Error
  <2>2. z = IF r.ok THEN IF q.ok THEN i ELSE q ELSE r
    <3>1. r.ok \in BOOLEAN
      BY <1>2, StoreSecretEntries
    <3>2. CASE r.ok
      BY <3>2 DEF StoreDistribution, AndPublic
    <3>3. CASE ~r.ok
      BY <3>3 DEF StoreDistribution, AndPublic
    <3> QED BY <3>1, <3>2, <3>3
  <2>3. /\ IsVault(r.vault) /\ r.vault.manager = vault.manager
        /\ r.vault.publics = vault.publics
        /\ \A k : k # "distribution_secret_key" =>
              Get(r.vault.secrets, k) = Get(vault.secrets, k)
        /\ r.ok => /\ ValidSecret(pair.secret)
                   /\ Get(r.vault.secrets, "distribution_secret_key")
                        = Encrypt(vault.manager, pair.secret)
    BY <1>2, StoreSecretEntries
  <2> HIDE DEF r
  <2>4. /\ IsVault(u) /\ u.manager = r.vault.manager /\ u.secrets = r.vault.secrets
        /\ \A k : k # "distribution_public_key" => Get(u.publics, k) = Get(r.vault.publics, k)
        /\ q.ok => /\ ValidPublic(pair.public)
                   /\ Get(u.publics, "distribution_public_key") = pair.public
    BY <2>3, StorePublicEntries
  <2> HIDE DEF q
  <2>5. /\ IsVault(v) /\ v.manager = u.manager /\ v.secrets = u.secrets
        /\ \A k : k # "distribution_issuing_key" => Get(v.publics, k) = Get(u.publics, k)
        /\ i.ok => ValidPublic(s)
    BY <2>4, StorePublicEntries
  <2> HIDE DEF i, z
  <2> SUFFICES ASSUME z.ok PROVE VaultCovered
    BY <2>1
  <2>6. r.ok /\ q.ok /\ i.ok /\ vault' = v
    BY <2>1, <2>2
  <2> HIDE DEF u, v
  <2>7. /\ Get(v.publics, "distribution_public_key") = pair.public
        /\ Get(v.secrets, "distribution_secret_key") = Encrypt(vault.manager, pair.secret)
        /\ ValidPublic(pair.public) /\ ValidSecret(pair.secret)
    BY <2>3, <2>4, <2>5, <2>6
  <2>8. \A m : OneKey(DistributionUnder(v, m))
    <3> SUFFICES ASSUME NEW m PROVE OneKey(DistributionUnder(v, m))
      OBVIOUS
    <3>1. OneKey(PairOf(m, pair.public, Encrypt(vault.manager, pair.secret)))
      BY <2>7, StoredPairIsOneKey
    <3> QED BY <3>1, <2>7 DEF DistributionUnder, OneKey
  <2>9. \A m : MasterUnder(v, m) = MasterUnder(vault, m)
    BY <2>3, <2>4, <2>5 DEF MasterUnder
  <2>10. OnlyNewPairs(v, vault)
    BY <2>3, <2>4, <2>5, <2>8, <2>9 DEF OnlyNewPairs
  <2> QED BY <2>6, <2>10, <1>3
<1> QED BY <1>1, <1>4, <1>5, <1>6, <1>7

LEMMA OthersCovered ==
    ASSUME \/ EditEnv \/ \E p \in Passwords, s \in Strings : EncryptForEnv(p, s)
           \/ PrintStatus \/ GenerateMaster \/ Show
           \/ \E p \in Passwords : DecryptCommand(p) \/ VaultLoad(p)
           \/ \E s \in Strings : \/ GenerateDistribution(s)
                                 \/ \E positive \in BOOLEAN : Fund(s, positive)
    PROVE  VaultCovered /\ FileCovered
<1>1. vault' = vault /\ vaultFile' = vaultFile
  BY DEF EditEnv, EncryptForEnv, PrintStatus, GenerateMaster, Show, DecryptCommand,
         VaultLoad, GenerateDistribution, Fund, Reply
<1> QED BY <1>1, KeptVaultCovered, KeptFileCovered

\* No operation makes a keypair of the halves of two keys, in the vault or in
\* what its file would load, but a store of two keys that answers an error.
THEOREM OnlyFailedStoresMixPairs == VaultSpec => PairsStayTogether
<1>1. ASSUME VaultInv, [VaultNext]_vaultVars
      PROVE  [(\E v \in VaultsHeld' : Mixed(v)) =>
                 \/ \E v \in VaultsHeld : Mixed(v)
                 \/ reply' = [cmd |-> "store_in_vault", result |-> "error"]]_vaultVars
  <2>1. CASE VaultNext
    <3>1. \/ VaultCovered /\ FileCovered
          \/ reply' = [cmd |-> "store_in_vault", result |-> "error"]
      BY <1>1, <2>1, OpensCovered, SavesCovered, StoresCovered, OthersCovered DEF VaultNext
    <3> QED BY <3>1, StepCovered
  <2> QED BY <1>1, <2>1
<1> QED BY <1>1, VaultInvAlways, PTL DEF VaultSpec, PairsStayTogether

-----------------------------------------------------------------------------
(***************************************************************************)
(* Certificates.  The inductive invariant: a call in progress has counted  *)
(* the pages of the certificates it has rendered, and its buffer, or the   *)
(* file of a streaming call, holds the header and exactly these.           *)
(***************************************************************************)

\* The last certificate that the call j has rendered.
DoneTo(j) ==
  IF j.mode = "single" THEN IF j.done = 0 THEN 0 ELSE Len(j.list)
  ELSE EndOf(j.list, j.done)

JobType(j) ==
  /\ j = [mode |-> j.mode, list |-> j.list, done |-> j.done, pages |-> j.pages,
          chunks |-> j.chunks, buffer |-> j.buffer]
  /\ j.mode \in {"single", "chunked", "stream"}
  /\ j.list \in Seq(Nat)
  /\ j.done \in Nat /\ j.chunks \in Nat /\ j.done <= j.chunks
  /\ j.mode = "single" => j.chunks = 1
  /\ j.mode # "single" => pages_per_chunk > 0 /\ j.chunks = ChunksOf(Len(j.list))

JobInv(j) ==
  /\ JobType(j)
  /\ result.how = "none"
  /\ j.pages = PageCount(j.list, 1, DoneTo(j))
  /\ j.mode = "stream" => file = Header \o Rendered(1, DoneTo(j)) /\ kept = Nothing
  /\ j.mode # "stream" => j.buffer = Header \o Rendered(1, DoneTo(j))

CertificatesInv ==
  /\ pages_per_chunk \in Nat
  /\ job # Nothing => JobInv(job)
  /\ ReportMatchesFile
  /\ WholeDocumentStays

LEMMA CertificatesInvInit == CertificatesInit => CertificatesInv
BY CertificatesAssumption
   DEF CertificatesInit, CertificatesInv, ReportMatchesFile, WholeDocumentStays

-----------------------------------------------------------------------------
\* Pages and renderings add up, chunk after chunk.
LEMMA PagesOfNat ==
    ASSUME NEW n \in Nat
    PROVE  PagesOf(n) \in Int
BY QuotientFacts DEF PagesOf

LEMMA NoPages ==
    ASSUME NEW list
    PROVE  PageCount(list, 1, 0) = 0
<1>1. 1..0 = {}
  OBVIOUS
<1> QED BY <1>1, SumEmpty DEF PageCount

LEMMA PagesAdd ==
    ASSUME NEW list \in Seq(Nat), NEW a \in Nat, NEW b \in Nat, a <= b, b <= Len(list)
    PROVE  PageCount(list, 1, b) = PageCount(list, 1, a) + PageCount(list, a + 1, b)
<1> DEFINE f == [i \in DOMAIN list |-> PagesOf(list[i])]
           S == 1..a
           T == (a + 1)..b
<1>1. \A i \in S \cup T : f[i] \in Int
  <2>1. \A i \in S \cup T : i \in DOMAIN list /\ list[i] \in Nat
    OBVIOUS
  <2> QED BY <2>1, PagesOfNat
<1>2. IsFiniteSet(S) /\ IsFiniteSet(T)
  BY FS_Interval
<1>3. S \cap T = {} /\ S \cup T = 1..b
  OBVIOUS
<1> HIDE DEF f, S, T
<1>4. SumFunctionOnSet(f, 1..b) = SumFunctionOnSet(f, S) + SumFunctionOnSet(f, T)
  BY <1>1, <1>2, <1>3, SumUnion
<1> QED BY <1>4 DEF PageCount, f, S, T

Places == {"header", "certificate", "end"} \X Int

LEMMA RenderedSeq ==
    ASSUME NEW a \in Nat, NEW b \in Nat, a <= b
    PROVE  /\ Rendered(a + 1, b) \in Seq(Places) /\ Len(Rendered(a + 1, b)) = b - a
           /\ \A i \in 1..(b - a) : Rendered(a + 1, b)[i] = <<"certificate", a + i>>
<1>1. b - (a + 1) + 1 = b - a /\ b - a \in Nat
  OBVIOUS
<1>2. Rendered(a + 1, b) = [i \in 1..(b - a) |-> <<"certificate", (a + 1) + i - 1>>]
  BY <1>1 DEF Rendered
<1>3. \A i \in 1..(b - a) : (a + 1) + i - 1 = a + i /\ a + i \in Int
  OBVIOUS
<1>4. Rendered(a + 1, b) = [i \in 1..(b - a) |-> <<"certificate", a + i>>]
  BY <1>2, <1>3
<1>5. \A i \in 1..(b - a) : <<"certificate", a + i>> \in Places
  BY <1>3 DEF Places
<1>6. Rendered(a + 1, b) \in Seq(Places)
  <2>1. Rendered(a + 1, b) \in [1..(b - a) -> Places]
    BY <1>4, <1>5
  <2> QED BY <2>1, <1>1, SeqDef
<1> QED BY <1>1, <1>4, <1>6

LEMMA HeaderSeq == Header \in Seq(Places)
BY DEF Header, Places

LEMMA RenderedFirst ==
    ASSUME NEW b \in Nat
    PROVE  /\ Rendered(1, b) \in Seq(Places) /\ Len(Rendered(1, b)) = b
           /\ \A i \in 1..b : Rendered(1, b)[i] = <<"certificate", i>>
<1>1. 0 + 1 = 1 /\ 0 <= b /\ b - 0 = b /\ \A i \in 1..b : 0 + i = i
  OBVIOUS
<1>2. /\ Rendered(0 + 1, b) \in Seq(Places) /\ Len(Rendered(0 + 1, b)) = b - 0
      /\ \A i \in 1..(b - 0) : Rendered(0 + 1, b)[i] = <<"certificate", 0 + i>>
  BY <1>1, RenderedSeq
<1> QED BY <1>1, <1>2

LEMMA RenderedAdd ==
    ASSUME NEW a \in Nat, NEW b \in Nat, a <= b
    PROVE  (Header \o Rendered(1, a)) \o Rendered(a + 1, b) = Header \o Rendered(1, b)
<1> DEFINE r == Rendered(1, a)
           s == Rendered(a + 1, b)
           t == Rendered(1, b)
<1>1. /\ r \in Seq(Places) /\ Len(r) = a
      /\ \A i \in 1..a : r[i] = <<"certificate", i>>
  BY RenderedFirst
<1>2. /\ s \in Seq(Places) /\ Len(s) = b - a
      /\ \A i \in 1..(b - a) : s[i] = <<"certificate", a + i>>
  BY RenderedSeq
<1>3. /\ t \in Seq(Places) /\ Len(t) = b
      /\ \A i \in 1..b : t[i] = <<"certificate", i>>
  BY RenderedFirst
<1> HIDE DEF r, s, t
<1>4. /\ r \o s \in Seq(Places) /\ Len(r \o s) = b
      /\ \A i \in 1..b : (r \o s)[i] = IF i <= a THEN r[i] ELSE s[i - a]
  <2>1. a + (b - a) = b
    OBVIOUS
  <2>2. /\ r \o s \in Seq(Places) /\ Len(r \o s) = Len(r) + Len(s)
        /\ \A i \in 1..(Len(r) + Len(s)) :
              (r \o s)[i] = IF i <= Len(r) THEN r[i] ELSE s[i - Len(r)]
    BY <1>1, <1>2, ConcatProperties
  <2> QED BY <2>1, <2>2, <1>1, <1>2
<1>5. ASSUME NEW i \in 1..b
      PROVE  (r \o s)[i] = t[i]
  <2>1. CASE i <= a
    <3>1. i \in 1..a
      BY <2>1
    <3> QED BY <3>1, <2>1, <1>1, <1>3, <1>4
  <2>2. CASE ~(i <= a)
    <3>1. i - a \in 1..(b - a) /\ a + (i - a) = i
      BY <2>2
    <3> QED BY <3>1, <2>2, <1>2, <1>3, <1>4
  <2> QED BY <2>1, <2>2
<1>6. r \o s = t
  BY <1>3, <1>4, <1>5, SeqEqual
<1>7. (Header \o r) \o s = Header \o (r \o s)
  <2>1. Header \in Seq(Places) /\ r \in Seq(Places) /\ s \in Seq(Places)
    BY HeaderSeq, <1>1, <1>2
  <2> QED BY ONLY <2>1, ConcatAssociative
<1> QED BY <1>6, <1>7 DEF r, s, t

LEMMA NothingRendered == Header \o Rendered(1, 0) = Header
<1>1. Rendered(1, 0) = << >>
  BY DEF Rendered
<1> QED BY <1>1, HeaderSeq

\* The chunks: each ends where the next begins, and the last at the end.
LEMMA ChunkEnds ==
    ASSUME NEW list \in Seq(Nat), NEW c \in Nat, pages_per_chunk \in Nat
    PROVE  /\ EndOf(list, c) \in 0..Len(list)
           /\ EndOf(list, c) <= EndOf(list, c + 1)
           /\ EndOf(list, 0) = 0
<1>1. /\ c * pages_per_chunk \in Nat /\ (c + 1) * pages_per_chunk \in Nat
      /\ c * pages_per_chunk <= (c + 1) * pages_per_chunk
  BY ProductMonotonic
<1>2. 0 * pages_per_chunk = 0
  OBVIOUS
<1> QED BY <1>1, <1>2 DEF EndOf, Lesser

LEMMA LastChunk ==
    ASSUME NEW list \in Seq(Nat), pages_per_chunk \in Nat, pages_per_chunk > 0
    PROVE  /\ ChunksOf(Len(list)) \in Nat
           /\ EndOf(list, ChunksOf(Len(list))) = Len(list)
<1> DEFINE n == Len(list)
           m == n + pages_per_chunk - 1
           q == m \div pages_per_chunk
<1>1. n \in Nat /\ m \in Nat
  OBVIOUS
<1> HIDE DEF n
<1>2. q \in Int /\ q >= 0
  BY <1>1, QuotientFacts, QuotientAtLeast
<1>3. m < q * pages_per_chunk + pages_per_chunk
  BY <1>1, QuotientFacts
<1>4. n <= q * pages_per_chunk
  BY <1>1, <1>2, <1>3
<1> HIDE DEF q
<1>5. EndOf(list, q) = n
  BY <1>1, <1>2, <1>4 DEF EndOf, Lesser, n
<1> QED BY <1>2, <1>5 DEF ChunksOf, q, n

-----------------------------------------------------------------------------
\* One chunk: it begins after the last one and ends within the list.
LEMMA ChunkOfJob ==
    ASSUME CertificatesInv, Rendering
    PROVE  /\ DoneTo(job) \in 0..Len(job.list) /\ From = DoneTo(job) + 1
           /\ To \in DoneTo(job)..Len(job.list)
           /\ To = DoneTo([job EXCEPT !.done = @ + 1])
<1>1. JobType(job) /\ pages_per_chunk \in Nat /\ job.done < job.chunks
  BY DEF CertificatesInv, JobInv, Rendering
<1>2. /\ [job EXCEPT !.done = @ + 1].mode = job.mode
      /\ [job EXCEPT !.done = @ + 1].list = job.list
      /\ [job EXCEPT !.done = @ + 1].done = job.done + 1
  BY <1>1 DEF JobType
<1>3. job.list \in Seq(Nat) /\ Len(job.list) \in Nat /\ job.done \in Nat
  BY <1>1 DEF JobType
<1>4. CASE job.mode = "single"
  <2>1. job.done = 0
    BY <1>1, <1>4 DEF JobType
  <2> QED BY <1>2, <1>3, <1>4, <2>1 DEF DoneTo, From, To
<1>5. CASE job.mode # "single"
  <2>1. /\ EndOf(job.list, job.done) \in 0..Len(job.list)
        /\ EndOf(job.list, job.done + 1) \in 0..Len(job.list)
        /\ EndOf(job.list, job.done) <= EndOf(job.list, job.done + 1)
    <3>1. pages_per_chunk \in Nat /\ job.list \in Seq(Nat) /\ job.done \in Nat
      BY <1>1, <1>3
    <3>2. /\ EndOf(job.list, job.done) \in 0..Len(job.list)
          /\ EndOf(job.list, job.done) <= EndOf(job.list, job.done + 1)
      BY <3>1, ChunkEnds
    <3>3. job.done + 1 \in Nat
      BY <3>1
    <3>4. EndOf(job.list, job.done + 1) \in 0..Len(job.list)
      BY <3>1, <3>3, ChunkEnds
    <3> QED BY <3>2, <3>4
  <2> QED BY <1>2, <1>3, <1>5, <2>1 DEF DoneTo, From, To
<1> QED BY <1>4, <1>5

\* All chunks done is the whole list done.
LEMMA AllIsWhole ==
    ASSUME CertificatesInv, AllRendered
    PROVE  DoneTo(job) = Len(job.list)
<1>1. JobType(job) /\ pages_per_chunk \in Nat /\ job.done = job.chunks
  BY DEF CertificatesInv, JobInv, AllRendered
<1>2. CASE job.mode = "single"
  BY <1>1, <1>2 DEF JobType, DoneTo
<1>3. CASE job.mode # "single"
  BY <1>1, <1>3, LastChunk DEF JobType, DoneTo
<1> QED BY <1>2, <1>3

LEMMA CertificatesInvBegin ==
    ASSUME CertificatesInv, NEW list \in Lists, NEW mode \in {"single", "chunked", "stream"},
           BeginJob(mode, list), UNCHANGED pages_per_chunk,
           mode # "single" => pages_per_chunk # 0,
           \/ mode # "stream" /\ UNCHANGED <<file, kept>>
           \/ mode = "stream" /\ file' = Header /\ kept' = Nothing
    PROVE  CertificatesInv'
<1> DEFINE n == IF mode = "single" THEN 1 ELSE ChunksOf(Len(list))
           b == IF mode = "stream" THEN << >> ELSE Header
           j == [mode |-> mode, list |-> list, done |-> 0, pages |-> 0,
                 chunks |-> n, buffer |-> b]
<1>1. job' = j /\ result' = [how |-> "none"]
  BY DEF BeginJob
<1>2. list \in Seq(Nat) /\ pages_per_chunk \in Nat
  BY CertificatesAssumption DEF CertificatesInv
<1>3. n \in Nat
  BY <1>2, LastChunk
<1>4. JobType(j)
  BY <1>2, <1>3 DEF JobType
<1>5. DoneTo(j) = 0
  BY <1>2, ChunkEnds DEF DoneTo
<1>6. /\ j' = j
      /\ JobType(j)' /\ DoneTo(j)' = DoneTo(j)
  BY <1>4 DEF JobType, DoneTo, EndOf, ChunksOf
<1>7. JobInv(j)'
  BY <1>1, <1>5, <1>6, NoPages, NothingRendered DEF JobInv
<1> HIDE DEF j
<1> QED BY <1>1, <1>2, <1>6, <1>7 DEF CertificatesInv, ReportMatchesFile, WholeDocumentStays

LEMMA CertificatesInvCalls ==
    ASSUME CertificatesInv,
           \/ \E list \in Lists : GeneratePdf(list) \/ GenerateStreamingPdf(list)
           \/ CannotCreateFile \/ HeaderFails
    PROVE  CertificatesInv'
<1>1. UNCHANGED pages_per_chunk /\ job = Nothing
  BY DEF GeneratePdf, GenerateStreamingPdf, CannotCreateFile, HeaderFails, MayCall
<1>2. CASE CannotCreateFile \/ HeaderFails
  BY <1>1, <1>2 DEF CannotCreateFile, HeaderFails, CertificatesInv, ReportMatchesFile, WholeDocumentStays
<1>3. ASSUME Panics, UNCHANGED <<file, kept>> \/ kept' = Nothing
      PROVE  CertificatesInv'
  BY <1>1, <1>3 DEF Panics, CertificatesInv, ReportMatchesFile, WholeDocumentStays
<1>4. ASSUME NEW list \in Lists, GeneratePdf(list)
      PROVE  CertificatesInv'
  <2>1. UNCHANGED <<file, kept>>
    BY <1>4 DEF GeneratePdf
  <2>2. CASE EstimatedPages(list) <= pages_per_chunk
    <3>1. BeginJob("single", list)
      BY <1>4, <2>2 DEF GeneratePdf
    <3> QED BY <1>1, <2>1, <3>1, CertificatesInvBegin
  <2>3. CASE ~(EstimatedPages(list) <= pages_per_chunk) /\ pages_per_chunk = 0
    BY <1>3, <1>4, <2>1, <2>3 DEF GeneratePdf
  <2>4. CASE ~(EstimatedPages(list) <= pages_per_chunk) /\ pages_per_chunk # 0
    <3>1. BeginJob("chunked", list)
      BY <1>4, <2>4 DEF GeneratePdf
    <3> QED BY <1>1, <2>1, <2>4, <3>1, CertificatesInvBegin
  <2> QED BY <2>2, <2>3, <2>4
<1>5. ASSUME NEW list \in Lists, GenerateStreamingPdf(list)
      PROVE  CertificatesInv'
  <2>1. file' = Header /\ kept' = Nothing
    BY <1>5 DEF GenerateStreamingPdf
  <2>2. CASE pages_per_chunk = 0
    BY <1>3, <1>5, <2>1, <2>2 DEF GenerateStreamingPdf
  <2>3. CASE pages_per_chunk # 0
    <3>1. BeginJob("stream", list)
      BY <1>5, <2>3 DEF GenerateStreamingPdf
    <3> QED BY <1>1, <2>1, <2>3, <3>1, CertificatesInvBegin
  <2> QED BY <2>2, <2>3
<1> QED BY <1>2, <1>4, <1>5

LEMMA CertificatesInvRender ==
    ASSUME CertificatesInv, RenderChunk \/ RenderIntoFile
    PROVE  CertificatesInv'
<1>1. Rendering /\ UNCHANGED <<pages_per_chunk, kept, result>>
  BY DEF RenderChunk, RenderIntoFile, Same
<1>2. JobInv(job) /\ job.done < job.chunks
  BY <1>1 DEF CertificatesInv, Rendering
<1>3. PICK b : /\ Progress(b)
               /\ \/ /\ job.mode # "stream" /\ file' = file
                     /\ b = job.buffer \o Rendered(From, To)
                  \/ /\ job.mode = "stream"
                     /\ file' = file \o Rendered(From, To)
  BY DEF RenderChunk, RenderIntoFile
<1> DEFINE j == job'
           a == DoneTo(job)
           z == To
<1>4. /\ a \in 0..Len(job.list) /\ From = a + 1
      /\ z \in a..Len(job.list) /\ z = DoneTo([job EXCEPT !.done = @ + 1])
  BY <1>1, ChunkOfJob
<1>5. job' = [mode |-> job.mode, list |-> job.list, done |-> job.done + 1,
              pages |-> job.pages + PageCount(job.list, From, To),
              chunks |-> job.chunks, buffer |-> b]
  BY <1>2, <1>3 DEF Progress, JobInv, JobType
<1>6. JobType(job)'
  BY <1>1, <1>2, <1>5 DEF JobInv, JobType, ChunksOf
<1>7. DoneTo(job)' = z
  <2>1. /\ [job EXCEPT !.done = @ + 1].mode = job.mode
        /\ [job EXCEPT !.done = @ + 1].list = job.list
        /\ [job EXCEPT !.done = @ + 1].done = job.done + 1
    BY <1>2 DEF JobInv, JobType
  <2> QED BY <1>1, <1>4, <1>5, <2>1 DEF DoneTo, EndOf
<1>8. job.list \in Seq(Nat) /\ a \in Nat /\ z \in Nat /\ a <= z /\ z <= Len(job.list)
  BY <1>2, <1>4 DEF JobInv, JobType
<1> HIDE DEF a, z
<1>9. PageCount(job.list, 1, z) = PageCount(job.list, 1, a) + PageCount(job.list, a + 1, z)
  BY <1>8, PagesAdd
<1>10. (Header \o Rendered(1, a)) \o Rendered(a + 1, z) = Header \o Rendered(1, z)
  BY <1>8, RenderedAdd
<1>11. job'.pages = PageCount(job.list, 1, z)
  BY <1>2, <1>4, <1>5, <1>9 DEF JobInv, a, z
<1>12. job.mode = "stream" => file' = Header \o Rendered(1, z) /\ kept = Nothing
  BY <1>2, <1>3, <1>4, <1>10 DEF JobInv, a, z
<1>13. job.mode # "stream" => b = Header \o Rendered(1, z)
  BY <1>2, <1>3, <1>4, <1>10 DEF JobInv, a, z
<1>14. JobInv(job)'
  <2>1. job'.list = job.list /\ job'.mode = job.mode /\ job'.buffer = b
    BY <1>5
  <2> QED BY <1>1, <1>2, <1>6, <1>7, <1>11, <1>12, <1>13, <2>1 DEF JobInv
<1>15. WholeDocumentStays'
  BY <1>1, <1>2, <1>3 DEF CertificatesInv, WholeDocumentStays, JobInv
<1>16. result'.how = "none"
  BY <1>1, <1>2 DEF JobInv
<1> QED BY <1>1, <1>14, <1>15, <1>16 DEF CertificatesInv, ReportMatchesFile

\* A call that ends before its last chunk.
LEMMA CertificatesInvBreaks ==
    ASSUME CertificatesInv, TimedOut \/ StreamFails
    PROVE  CertificatesInv'
<1>1. job # Nothing /\ UNCHANGED <<pages_per_chunk, kept>> /\ job' = Nothing
  BY DEF TimedOut, StreamFails, Rendering, EndJob, Same
<1>2. JobInv(job)
  BY <1>1 DEF CertificatesInv
<1>3. CASE StreamFails
  BY <1>1, <1>2, <1>3 DEF StreamFails, EndJob, CertificatesInv, ReportMatchesFile,
     WholeDocumentStays, JobInv
<1>4. CASE TimedOut
  <2>1. /\ file' = file
        /\ result' = [how |-> "timeout", mode |-> job.mode, list |-> job.list,
                      pages |-> job.pages]
    BY <1>4 DEF TimedOut, LeftByTimeout, EndJob
  <2>2. DoneTo(job) \in 0..Len(job.list)
    BY <1>4, ChunkOfJob DEF TimedOut
  <2>3. job.mode = "stream" =>
           \E n \in 0..Len(job.list) : /\ file = Header \o Rendered(1, n)
                                       /\ job.pages = PageCount(job.list, 1, n)
    BY <1>2, <2>2 DEF JobInv
  <2> QED BY <1>1, <2>1, <2>3 DEF CertificatesInv, ReportMatchesFile, WholeDocumentStays
<1> QED BY <1>3, <1>4

\* A call that ends after its last chunk.
LEMMA CertificatesInvEnds ==
    ASSUME CertificatesInv, Write \/ WriteFails \/ FinishStream
    PROVE  CertificatesInv'
<1>1. AllRendered /\ UNCHANGED pages_per_chunk /\ job' = Nothing
  BY DEF Write, WriteFails, FinishStream, EndJob, Same
<1>2. JobInv(job) /\ DoneTo(job) = Len(job.list)
  BY <1>1, AllIsWhole DEF CertificatesInv, AllRendered
<1>3. CASE Write \/ FinishStream
  <2>1. /\ kept' = file'
        /\ result' = [how |-> "success", mode |-> job.mode, list |-> job.list,
                      pages |-> job.pages]
    BY <1>3 DEF Write, FinishStream, EndJob
  <2>2. file' = Document(job.list)
    BY <1>2, <1>3 DEF Write, FinishStream, JobInv, Document
  <2>3. job.pages = EstimatedPages(job.list)
    BY <1>2 DEF JobInv, EstimatedPages
  <2> QED BY <1>1, <2>1, <2>2, <2>3 DEF CertificatesInv, ReportMatchesFile, WholeDocumentStays
<1>4. CASE WriteFails
  <2>1. result'.how = "error" /\ kept' = IF file' = file THEN kept ELSE Nothing
    BY <1>4 DEF WriteFails, EndJob
  <2> QED BY <1>1, <2>1 DEF CertificatesInv, ReportMatchesFile, WholeDocumentStays
<1> QED BY <1>3, <1>4

LEMMA CertificatesInvNext ==
    ASSUME CertificatesInv, [CertificatesNext]_certificatesVars
    PROVE  CertificatesInv'
<1>1. CASE UNCHANGED certificatesVars
  BY <1>1 DEF certificatesVars, CertificatesInv, JobInv, JobType, DoneTo, EndOf, ChunksOf,
     ReportMatchesFile, WholeDocumentStays
<1>2. CASE Crash
  <2>1. /\ UNCHANGED pages_per_chunk /\ job' = Nothing /\ result' = [how |-> "none"]
        /\ kept' = IF file' = file THEN kept ELSE Nothing
    BY <1>2 DEF Crash, Same
  <2> QED BY <2>1 DEF CertificatesInv, ReportMatchesFile, WholeDocumentStays
<1>3. CASE CertificatesNext
  BY <1>2, <1>3, CertificatesInvCalls, CertificatesInvRender, CertificatesInvBreaks,
     CertificatesInvEnds DEF CertificatesNext
<1> QED BY <1>1, <1>3

LEMMA CertificatesInvAlways == CertificatesSpec => []CertificatesInv
BY CertificatesInvInit, CertificatesInvNext, PTL DEF CertificatesSpec

\* Whatever the lists and the chunk size, a generator that reports success has
\* left the whole document, and a streaming call that ran out of time exactly
\* the certificates whose pages it reports.
THEOREM ReportsMatchFiles == CertificatesSpec => []ReportMatchesFile
<1>1. CertificatesInv => ReportMatchesFile
  BY DEF CertificatesInv
<1> QED BY <1>1, CertificatesInvAlways, PTL

\* No timeout, no crash of a batch call and no failed file creation takes
\* anything from a whole document.
THEOREM WholeDocumentsStay == CertificatesSpec => []WholeDocumentStays
<1>1. CertificatesInv => WholeDocumentStays
  BY DEF CertificatesInv
<1> QED BY <1>1, CertificatesInvAlways, PTL

-----------------------------------------------------------------------------
(***************************************************************************)
(* Streaming.  The inductive invariant: the buffer is the current count,   *)
(* what the closure accepted and what is left make up what was given, in   *)
(* whole batches while anything is left; and the aggregator's figures are  *)
(* those of what it was fed.                                               *)
(***************************************************************************)
Batch == Greatest(config.batch_size, 1)

\* The figures of the first m numbers of w.
Summarizes(acc, w, m) ==
  /\ acc = [count |-> m, sum |-> SumFunctionOnSet(w, 1..m), min |-> acc.min, max |-> acc.max]
  /\ \A i \in 1..m : acc.min <= w[i] /\ w[i] <= acc.max
  /\ m > 0 => /\ \E i \in 1..m : acc.min = w[i]
              /\ \E i \in 1..m : acc.max = w[i]

CallInv ==
  /\ call \in Call
  /\ accepted + call.left = call.given
  /\ call.left = 0 \/ \E q \in Nat : accepted = q * Batch

StreamingInv ==
  /\ config \in Config
  /\ buffer = current /\ current \in Nat
  /\ current <= config.limit + config.batch_size
  /\ total \in Nat /\ accepted \in Nat
  /\ call # Idle => CallInv
  /\ fed \in Seq(Int) /\ Summarizes(sums, fed, Len(fed))

LEMMA StreamingInvInit == StreamingInit => StreamingInv
<1> SUFFICES ASSUME StreamingInit PROVE StreamingInv
  OBVIOUS
<1>1. config \in Config
  BY StreamingAssumption DEF StreamingInit
<1>2. /\ buffer = current /\ current \in Nat /\ total \in Nat /\ accepted \in Nat
      /\ current <= config.limit + config.batch_size
      /\ call = Idle
  BY <1>1 DEF StreamingInit, Config
<1>3. Summarizes(sums, << >>, 0)
  <2>1. 1..0 = {}
    OBVIOUS
  <2> QED BY <2>1, SumEmpty DEF StreamingInit, Summarizes
<1>4. fed \in Seq(Int) /\ Len(fed) = 0 /\ fed = << >>
  BY DEF StreamingInit
<1> QED BY <1>1, <1>2, <1>3, <1>4 DEF StreamingInv

-----------------------------------------------------------------------------
\* The aggregator: one number more.
LEMMA SummarizesOneMore ==
    ASSUME NEW w \in Seq(Int), NEW m \in Nat, m < Len(w), NEW acc, Summarizes(acc, w, m)
    PROVE  Summarizes(Aggregated(acc, w[m + 1]), w, m + 1)
<1> DEFINE v == w[m + 1]
           b == Aggregated(acc, v)
<1>1. v \in Int /\ \A i \in 1..(m + 1) : w[i] \in Int
  BY ElementOfSeq
<1>2. acc.count = m /\ acc.sum = SumFunctionOnSet(w, 1..m)
  BY DEF Summarizes
<1>3. SumFunctionOnSet(w, 1..(m + 1)) = SumFunctionOnSet(w, 1..m) + v
  <2>1. IsFiniteSet(1..(m + 1)) /\ IsFiniteSet(1..m)
    BY FS_Interval
  <2>2. m + 1 \in 1..(m + 1) /\ (1..(m + 1)) \ {m + 1} = 1..m
    OBVIOUS
  <2>3. SumFunctionOnSet(w, 1..(m + 1))
          = w[m + 1] + SumFunctionOnSet(w, (1..(m + 1)) \ {m + 1})
    BY <1>1, <2>1, <2>2, SumRemove
  <2>4. SumFunctionOnSet(w, 1..m) \in Int
    BY <1>1, <2>1, SumInt
  <2> DEFINE t == SumFunctionOnSet(w, 1..m)
  <2>5. SumFunctionOnSet(w, 1..(m + 1)) = v + t
    BY <2>2, <2>3
  <2>6. t \in Int /\ v \in Int
    BY <1>1, <2>4
  <2> HIDE DEF t, v
  <2>7. v + t = t + v
    BY <2>6
  <2> QED BY <2>5, <2>7 DEF t
<1>4. b = [count |-> m + 1, sum |-> SumFunctionOnSet(w, 1..(m + 1)),
           min |-> b.min, max |-> b.max]
  BY <1>2, <1>3 DEF Aggregated
<1>5. /\ b.min = IF m = 0 THEN v ELSE Least(acc.min, v)
      /\ b.max = IF m = 0 THEN v ELSE Greatest(acc.max, v)
  BY <1>2 DEF Aggregated
<1> HIDE DEF b, v
<1>6. CASE m = 0
  <2>1. 1..(m + 1) = {1} /\ v = w[1]
    BY <1>6 DEF v
  <2> QED BY <1>1, <1>4, <1>5, <1>6, <2>1 DEF Summarizes, b, v
<1>7. CASE m > 0
  <2>1. PICK i \in 1..m, j \in 1..m : acc.min = w[i] /\ acc.max = w[j]
    BY <1>7 DEF Summarizes
  <2>2. acc.min \in Int /\ acc.max \in Int
    BY <1>1, <2>1
  <2>3. /\ b.min <= acc.min /\ b.min <= v /\ b.min \in {acc.min, v}
        /\ b.max >= acc.max /\ b.max >= v /\ b.max \in {acc.max, v}
        /\ b.min \in Int /\ b.max \in Int
    BY <1>1, <1>5, <1>7, <2>2 DEF Least, Greatest
  <2>4. ASSUME NEW k \in 1..(m + 1)
        PROVE  b.min <= w[k] /\ w[k] <= b.max
    <3>1. CASE k = m + 1
      BY <3>1, <1>1, <2>3 DEF v
    <3>2. CASE k # m + 1
      <4>1. k \in 1..m
        BY <3>2
      <4>2. acc.min <= w[k] /\ w[k] <= acc.max
        BY <4>1 DEF Summarizes
      <4> QED BY <1>1, <4>2, <2>2, <2>3
    <3> QED BY <3>1, <3>2
  <2>5. /\ \E k \in 1..(m + 1) : b.min = w[k]
        /\ \E k \in 1..(m + 1) : b.max = w[k]
    <3>1. i \in 1..(m + 1) /\ j \in 1..(m + 1) /\ m + 1 \in 1..(m + 1)
      OBVIOUS
    <3> QED BY <2>1, <2>3, <3>1 DEF v
  <2> QED BY <1>4, <2>4, <2>5 DEF Summarizes, b, v
<1> QED BY <1>6, <1>7

\* The table of AggregatedAll, as far as n.
Runs(acc, data, n, f) ==
  f = [k \in 0..n |-> IF k = 0 THEN acc ELSE Aggregated(f[k - 1], data[k])]

LEMMA RunExists ==
    ASSUME NEW acc, NEW data, NEW n \in Nat
    PROVE  \E f : Runs(acc, data, n, f)
<1> DEFINE Q == {k \in Nat : \E f : Runs(acc, data, k, f)}
<1>1. 0 \in Q
  <2> DEFINE f == [k \in 0..0 |-> acc]
  <2>1. \A k \in 0..0 : k = 0
    OBVIOUS
  <2>2. Runs(acc, data, 0, f)
    BY <2>1 DEF Runs
  <2> QED BY <2>2
<1>2. ASSUME NEW k \in Nat, k \in Q
      PROVE  k + 1 \in Q
  <2>1. PICK f : Runs(acc, data, k, f)
    BY <1>2
  <2> DEFINE last == Aggregated(f[k], data[k + 1])
             g == [i \in 0..(k + 1) |-> IF i = k + 1 THEN last ELSE f[i]]
  <2>2. ASSUME NEW i \in 0..(k + 1)
        PROVE  g[i] = IF i = 0 THEN acc ELSE Aggregated(g[i - 1], data[i])
    <3>1. CASE i = k + 1
      <4>1. g[i] = last /\ i # 0 /\ i - 1 = k /\ k \in 0..(k + 1) /\ k # k + 1
        BY <3>1
      <4>2. g[i - 1] = f[k]
        BY <4>1
      <4> HIDE DEF g
      <4> QED BY <3>1, <4>1, <4>2
    <3>2. CASE i # k + 1
      <4>1. i \in 0..k /\ g[i] = f[i]
        BY <3>2
      <4>2. f[i] = IF i = 0 THEN acc ELSE Aggregated(f[i - 1], data[i])
        BY <2>1, <4>1 DEF Runs
      <4>3. i # 0 => g[i - 1] = f[i - 1]
        BY <4>1
      <4> HIDE DEF g
      <4> QED BY <4>1, <4>2, <4>3
    <3> QED BY <3>1, <3>2
  <2>3. g = [i \in 0..(k + 1) |-> g[i]]
    OBVIOUS
  <2> HIDE DEF g
  <2>4. Runs(acc, data, k + 1, g)
    BY <2>2, <2>3 DEF Runs
  <2> QED BY <2>4
<1> HIDE DEF Q
<1>3. n \in Q
  BY <1>1, <1>2, SetInduction
<1> QED BY <1>3 DEF Q

\* The figures of what a call was given, after those of all before it.
LEMMA SummarizesCall ==
    ASSUME NEW s \in Seq(Int), NEW acc, Summarizes(acc, s, Len(s)), NEW data \in Seq(Int)
    PROVE  Summarizes(AggregatedAll(acc, data), s \o data, Len(s \o data))
<1> DEFINE n == Len(data)
           m == Len(s)
           w == s \o data
           f == CHOOSE g : Runs(acc, data, n, g)
<1>1. AggregatedAll(acc, data) = f[n]
  BY DEF AggregatedAll, Runs
<1>2. n \in Nat /\ m \in Nat
  OBVIOUS
<1>3. Runs(acc, data, n, f)
  <2> HIDE DEF n
  <2>1. \E g : Runs(acc, data, n, g)
    BY <1>2, RunExists
  <2> QED BY <2>1
<1>4. /\ w \in Seq(Int) /\ Len(w) = m + n
      /\ \A i \in 1..m : w[i] = s[i]
      /\ \A i \in 1..n : w[m + i] = data[i]
  OBVIOUS
<1> HIDE DEF f, w, n, m
<1>5. Summarizes(acc, w, m)
  <2>1. Summarizes(acc, s, m)
    BY DEF m
  <2>2. \A i \in 1..m : s[i] \in Int
    BY ElementOfSeq DEF m
  <2>3. SumFunctionOnSet(w, 1..m) = SumFunctionOnSet(s, 1..m)
    <3>1. IsFiniteSet(1..m)
      BY <1>2, FS_Interval
    <3>2. \A i \in 1..m : w[i] = s[i]
      BY <1>4
    <3> QED BY ONLY <3>1, <3>2, SumAgree
  <2> QED BY <1>4, <2>1, <2>3 DEF Summarizes
<1> DEFINE Q == {k \in Nat : k <= n => Summarizes(f[k], w, m + k)}
<1>6. 0 \in Q
  <2>1. f[0] = acc /\ m + 0 = m
    BY <1>2, <1>3 DEF Runs
  <2> QED BY <1>5, <2>1
<1>7. ASSUME NEW k \in Nat, k \in Q
      PROVE  k + 1 \in Q
  <2> SUFFICES ASSUME k + 1 <= n
               PROVE  Summarizes(f[k + 1], w, m + (k + 1))
    OBVIOUS
  <2>1. Summarizes(f[k], w, m + k)
    BY <1>2, <1>7
  <2>2. k + 1 \in 0..n /\ k + 1 \in 1..n /\ (k + 1) - 1 = k
    BY <1>2
  <2>3. f[k + 1] = Aggregated(f[k], data[k + 1])
    <3>1. f[k + 1] = IF k + 1 = 0 THEN acc ELSE Aggregated(f[(k + 1) - 1], data[k + 1])
      BY ONLY <1>3, <2>2 DEF Runs
    <3> QED BY <2>2, <3>1
  <2>4. w[m + (k + 1)] = data[k + 1]
    <3>1. \A i \in 1..n : w[m + i] = data[i]
      BY <1>4
    <3> QED BY ONLY <3>1, <2>2
  <2>5. m + k \in Nat /\ m + k < Len(w) /\ (m + k) + 1 = m + (k + 1)
    <3>1. Len(w) = m + n
      BY <1>4
    <3> QED BY ONLY <3>1, <1>2, <2>2
  <2>6. Summarizes(Aggregated(f[k], w[(m + k) + 1]), w, (m + k) + 1)
    BY <1>4, <2>1, <2>5, SummarizesOneMore
  <2> QED BY <2>3, <2>4, <2>5, <2>6
<1> HIDE DEF Q
<1>8. n \in Q
  BY <1>2, <1>6, <1>7, SetInduction
<1> QED BY <1>1, <1>2, <1>4, <1>8 DEF Q, w

LEMMA ExtremesAre ==
    ASSUME NEW S \in SUBSET Int, NEW x \in S
    PROVE  /\ (\A y \in S : x <= y) => Min(S) = x
           /\ (\A y \in S : y <= x) => Max(S) = x
<1>1. ASSUME \A y \in S : x <= y
      PROVE  Min(S) = x
  <2>1. Min(S) \in S /\ \A y \in S : Min(S) <= y
    BY <1>1 DEF Min
  <2> DEFINE m == Min(S)
  <2> HIDE DEF m
  <2>2. m \in Int /\ x \in Int /\ m <= x /\ x <= m
    BY <1>1, <2>1 DEF m
  <2> QED BY <2>2 DEF m
<1>2. ASSUME \A y \in S : y <= x
      PROVE  Max(S) = x
  <2>1. \A y \in S : x >= y
    BY <1>2
  <2>2. Max(S) \in S /\ \A y \in S : Max(S) >= y
    BY <2>1 DEF Max
  <2> DEFINE m == Max(S)
  <2> HIDE DEF m
  <2>3. m \in Int /\ x \in Int /\ m <= x /\ x <= m
    BY <1>2, <2>2 DEF m
  <2> QED BY <2>3 DEF m
<1> QED BY <1>1, <1>2

LEMMA SummariesAggregate == StreamingInv => AggregatesEverything
<1> SUFFICES ASSUME StreamingInv, fed # << >>
             PROVE  LET given == {fed[i] : i \in DOMAIN fed}
                    IN  sums = [count |-> Len(fed), sum |-> SumFunction(fed),
                                min |-> Min(given), max |-> Max(given)]
  BY DEF AggregatesEverything
<1> DEFINE given == {fed[i] : i \in DOMAIN fed}
           n == Len(fed)
<1>1. fed \in Seq(Int) /\ n \in Nat /\ n > 0 /\ DOMAIN fed = 1..n
  BY DEF StreamingInv
<1>2. given \in SUBSET Int
  BY <1>1, ElementOfSeq
<1>3. /\ sums = [count |-> n, sum |-> SumFunctionOnSet(fed, 1..n),
                 min |-> sums.min, max |-> sums.max]
      /\ \A i \in 1..n : sums.min <= fed[i] /\ fed[i] <= sums.max
      /\ \E i \in 1..n : sums.min = fed[i]
      /\ \E i \in 1..n : sums.max = fed[i]
  BY <1>1 DEF StreamingInv, Summarizes
<1>4. /\ sums.min \in given /\ sums.max \in given
      /\ \A y \in given : sums.min <= y /\ y <= sums.max
  BY <1>1, <1>3
<1> HIDE DEF given
<1>5. sums.min = Min(given) /\ sums.max = Max(given)
  BY <1>2, <1>4, ExtremesAre
<1>6. SumFunctionOnSet(fed, 1..n) = SumFunction(fed)
  BY <1>1 DEF SumFunction
<1> QED BY <1>3, <1>5, <1>6 DEF given

-----------------------------------------------------------------------------
\* A chunk is a batch, or what is left of a smaller rest.
LEMMA BatchNat ==
    ASSUME config \in Config
    PROVE  /\ Batch \in Nat /\ Batch >= 1 /\ Batch >= config.batch_size
           /\ config.batch_size > 0 => Batch = config.batch_size
           /\ config.limit \in Nat /\ config.batch_size \in Nat
BY DEF Config, Batch, Greatest

LEMMA ChunkNat ==
    ASSUME config \in Config, call \in Call
    PROVE  /\ call.left \in Nat /\ call.given \in Nat
           /\ Chunk \in Nat /\ Chunk <= call.left /\ Chunk <= Batch
           /\ Chunk = call.left \/ Chunk = Batch
BY BatchNat DEF Call, Chunk, Batch, Least

LEMMA StreamingInvAdvance ==
    ASSUME StreamingInv, call # Idle, Advance, UNCHANGED config
    PROVE  CallInv' /\ accepted' \in Nat
<1>1. /\ CallInv /\ config \in Config /\ accepted \in Nat
  BY DEF StreamingInv
<1>2. /\ call.left \in Nat /\ call.given \in Nat
      /\ Chunk \in Nat /\ Chunk <= call.left
      /\ Chunk = call.left \/ Chunk = Batch
  BY <1>1, ChunkNat DEF CallInv
<1>3. call' \in Call /\ call'.left = call.left - Chunk /\ call'.given = call.given
  <2>1. call' = [call EXCEPT !.left = call.left - Chunk] /\ call \in Call
    BY <1>1 DEF Advance, CallInv
  <2>2. call.left - Chunk \in Nat
    BY <1>2
  <2> QED BY <2>1, <2>2 DEF Call
<1>4. accepted' = accepted + Chunk /\ accepted' \in Nat
  BY <1>1, <1>2 DEF Advance
<1>5. accepted' + call'.left = call'.given
  BY <1>1, <1>2, <1>3, <1>4 DEF CallInv
<1>6. ASSUME call'.left # 0
      PROVE  \E q \in Nat : accepted' = q * Batch
  <2>1. Chunk = Batch /\ call.left # 0
    BY <1>2, <1>3, <1>6
  <2>2. PICK q \in Nat : accepted = q * Batch
    BY <1>1, <2>1 DEF CallInv
  <2>3. Batch \in Nat
    BY <1>1, BatchNat
  <2>4. accepted' = (q + 1) * Batch
    BY <1>4, <2>1, <2>2, <2>3
  <2> QED BY <2>4
<1>7. Batch' = Batch
  BY DEF Batch
<1> QED BY <1>3, <1>4, <1>5, <1>6, <1>7 DEF CallInv

LEMMA StreamingInvCallBegins ==
    ASSUME StreamingInv, NEW kind \in {"stream", "iterator", "file"}, NEW n \in Lengths,
           Begin(kind, n)
    PROVE  StreamingInv'
<1>1. n \in Nat
  BY StreamingAssumption
<1>2. /\ call' = [kind |-> kind, left |-> n, given |-> n] /\ accepted' = 0
      /\ UNCHANGED <<config, buffer, current, total, sums, fed>>
  BY DEF Begin, stats, aggregating
<1>3. CallInv'
  <2>1. accepted' = 0 * Batch'
    BY <1>2, BatchNat DEF StreamingInv, Batch
  <2> QED BY <1>1, <1>2, <2>1 DEF CallInv, Call
<1> QED BY <1>2, <1>3 DEF StreamingInv

LEMMA StreamingInvCallSteps ==
    ASSUME StreamingInv, StreamChunk \/ IteratorBatch \/ LoadBatch
    PROVE  StreamingInv'
<1>1. call # Idle /\ UNCHANGED <<config, sums, fed>>
  BY DEF StreamChunk, IteratorBatch, LoadBatch, aggregating
<1>2. CallInv /\ config \in Config
  BY <1>1 DEF StreamingInv
<1>3. Chunk \in Nat
  BY <1>2, ChunkNat DEF CallInv
<1>4. \/ call' = Idle /\ accepted' = accepted + Chunk
      \/ Advance
  BY DEF StreamChunk, IteratorBatch, LoadBatch, Return
<1>5. accepted' \in Nat /\ (call' # Idle => CallInv')
  BY <1>1, <1>3, <1>4, StreamingInvAdvance DEF StreamingInv
<1>6. /\ <<buffer, current>>' \in {<<0, 0>>, <<buffer, current>>}
      /\ total' \in {total, total + Chunk}
  BY DEF StreamChunk, IteratorBatch, LoadBatch, Counted, stats
<1>7. /\ buffer' = current' /\ current' \in Nat
      /\ current' <= config.limit + config.batch_size
      /\ total' \in Nat
  BY <1>2, <1>3, <1>6, BatchNat DEF StreamingInv
<1> QED BY <1>1, <1>5, <1>7 DEF StreamingInv

LEMMA StreamingInvCallEnds ==
    ASSUME StreamingInv,
           \/ StreamWithoutBatches \/ StreamChunkRejected \/ IteratorBatchRejected
           \/ MemoryLimitExceeded \/ LoadFails \/ Complete
    PROVE  StreamingInv'
<1>1. /\ call # Idle /\ call' = Idle
      /\ UNCHANGED <<config, total, accepted, sums, fed>>
  BY DEF StreamWithoutBatches, StreamChunkRejected, IteratorBatchRejected,
         MemoryLimitExceeded, LoadFails, Complete, Return, stats, aggregating
<1>2. CASE StreamChunkRejected
  <2>1. /\ CallInv /\ config \in Config
        /\ config.batch_size > 0 /\ ~(current > config.limit)
        /\ buffer' = buffer + Chunk /\ current' = buffer + Chunk
    BY <1>1, <1>2 DEF StreamingInv, StreamChunkRejected, OverLimit
  <2>2. Chunk \in Nat /\ Chunk <= config.batch_size
    BY <2>1, ChunkNat, BatchNat DEF CallInv
  <2> QED BY <1>1, <2>1, <2>2, BatchNat DEF StreamingInv
<1>3. CASE ~StreamChunkRejected
  <2>1. UNCHANGED <<buffer, current>>
    BY <1>3 DEF StreamWithoutBatches, IteratorBatchRejected, MemoryLimitExceeded,
       LoadFails, Complete, stats
  <2> QED BY <1>1, <2>1 DEF StreamingInv
<1> QED BY <1>2, <1>3

LEMMA StreamingInvAggregate ==
    ASSUME StreamingInv, NEW data \in Inputs, Aggregate(data)
    PROVE  StreamingInv'
<1>1. data \in Seq(Int)
  BY StreamingAssumption
<1>2. /\ sums' = AggregatedAll(sums, data) /\ fed' = fed \o data
      /\ UNCHANGED <<config, buffer, current, total, call, accepted>>
  BY DEF Aggregate, processing, stats
<1>3. fed' \in Seq(Int)
  BY <1>1, <1>2 DEF StreamingInv
<1>4. Summarizes(sums', fed', Len(fed'))
  BY <1>1, <1>2, SummarizesCall DEF StreamingInv
<1> QED BY <1>2, <1>3, <1>4 DEF StreamingInv, CallInv, Batch

LEMMA StreamingInvNext ==
    ASSUME StreamingInv, [StreamingNext]_streamingVars
    PROVE  StreamingInv'
<1>1. CASE UNCHANGED streamingVars
  BY <1>1 DEF streamingVars, processing, aggregating, stats, StreamingInv, CallInv, Batch
<1>2. CASE StreamingNext
  BY <1>2, StreamingInvCallBegins, StreamingInvCallSteps, StreamingInvCallEnds,
     StreamingInvAggregate DEF StreamingNext
<1> QED BY <1>1, <1>2

LEMMA StreamingInvAlways == StreamingSpec => []StreamingInv
BY StreamingInvInit, StreamingInvNext, PTL DEF StreamingSpec

\* However its calls divide what it is given, and whether they are of one
\* record or of many, the aggregator's figures are those of all of it.
THEOREM AggregatorNeverForgets == StreamingSpec => []AggregatesEverything
BY StreamingInvAlways, SummariesAggregate, PTL

-----------------------------------------------------------------------------
LEMMA FailedCallsAreWhole ==
    ASSUME StreamingInv, call # Idle, ~Exhausted(call.left)
    PROVE  accepted % Batch = 0
<1>1. PICK q \in Nat : accepted = q * Batch
  BY DEF StreamingInv, CallInv, Exhausted
<1>2. Batch \in Nat /\ Batch >= 1
  BY BatchNat DEF StreamingInv
<1> DEFINE b == Batch
           a == accepted
<1> HIDE DEF b, a
<1>3. b \in Int /\ b > 0 /\ a \in Int /\ a = b * q + 0
  BY <1>1, <1>2 DEF a, b
<1>4. a % b = 0
  BY <1>3, QuotientUnique
<1> QED BY <1>4 DEF a, b

LEMMA StepsReturnEveryRecord ==
    ASSUME StreamingInv, StreamingNext, call # Idle, call' = Idle
    PROVE  /\ returned' = "Ok" => accepted = call.given
           /\ returned' = "Err" => accepted % Batch = 0
<1>1. CASE Complete
  <2>1. call.left = 0 /\ returned' = "Ok"
    BY <1>1 DEF Complete, Exhausted, Return
  <2>2. accepted \in Nat /\ accepted + call.left = call.given
    BY DEF StreamingInv, CallInv
  <2> QED BY <2>1, <2>2
<1>2. CASE StreamChunkRejected \/ IteratorBatchRejected \/ MemoryLimitExceeded \/ LoadFails
  <2>1. ~Exhausted(call.left) /\ returned' = "Err"
    BY <1>2 DEF StreamChunkRejected, IteratorBatchRejected, MemoryLimitExceeded,
       LoadFails, Return
  <2> QED BY <2>1, FailedCallsAreWhole
<1>3. CASE StreamWithoutBatches
  BY <1>3 DEF StreamWithoutBatches, Return
<1>4. CASE StreamChunk \/ IteratorBatch \/ LoadBatch
  <2>1. ASSUME Advance
        PROVE  FALSE
    <3>1. UNCHANGED config
      BY <1>4 DEF StreamChunk, IteratorBatch, LoadBatch
    <3>2. call' \in Call
      BY <2>1, <3>1, StreamingInvAdvance DEF CallInv
    <3> QED BY <3>2, StreamingAssumption
  <2>2. returned' = "panicked"
    BY <1>4, <2>1 DEF StreamChunk, IteratorBatch, LoadBatch, Return
  <2> QED BY <2>2
<1>5. CASE \/ \E kind \in {"stream", "iterator", "file"}, n \in Lengths : Begin(kind, n)
           \/ \E data \in Inputs : Aggregate(data)
  BY <1>5 DEF Begin, Aggregate, processing
<1> QED BY <1>1, <1>2, <1>3, <1>4, <1>5 DEF StreamingNext

\* With any batch size, limit and number of records: a call that answers Ok
\* handed over each of its records, one that answers an error whole batches.
THEOREM CallsHandOverEveryRecord == StreamingSpec => OkMeansEveryRecord
<1>1. ASSUME StreamingInv, [StreamingNext]_streamingVars
      PROVE  [call # Idle /\ call' = Idle =>
                /\ returned' = "Ok" => accepted = call.given
                /\ returned' = "Err" =>
                      accepted % Greatest(config.batch_size, 1) = 0]_streamingVars
  BY <1>1, StepsReturnEveryRecord DEF Batch
<1> QED BY <1>1, StreamingInvAlways, PTL DEF StreamingSpec, OkMeansEveryRecord

LEMMA StepsOverTheLimit ==
    ASSUME StreamingInv, StreamingNext, OverLimit(current)
    PROVE  /\ <<buffer, current>>' = <<buffer, current>>
           /\ total' - total < Batch
<1>1. /\ total \in Nat /\ Batch \in Nat /\ Batch >= 1
  BY BatchNat DEF StreamingInv
<1>2. CASE IteratorBatch
  <2>1. /\ call \in Call /\ config \in Config
    BY <1>2 DEF IteratorBatch, StreamingInv, CallInv
  <2>2. Chunk \in Nat /\ ~(Chunk >= config.batch_size) /\ total' = total + Chunk
        /\ <<buffer, current>>' = <<buffer, current>>
    BY <1>2, <2>1, ChunkNat DEF IteratorBatch, FullBatch, Counted
  <2>3. Batch >= config.batch_size /\ config.batch_size \in Nat
    BY <2>1, BatchNat
  <2> QED BY <1>1, <2>2, <2>3
<1>3. CASE ~IteratorBatch
  <2>1. <<buffer, current>>' = <<buffer, current>> /\ total' = total
    BY <1>3 DEF StreamingNext, Begin, StreamWithoutBatches, StreamChunk, StreamChunkRejected,
       IteratorBatchRejected, MemoryLimitExceeded, LoadBatch, LoadFails, Complete,
       Aggregate, stats, processing
  <2> QED BY <1>1, <2>1
<1> QED BY <1>2, <1>3

\* The buffer of a processor never grows past its limit and one batch; once
\* over the limit it stays as it is, and no whole batch is accepted again.
THEOREM OverTheLimitForever == StreamingSpec => OverLimitIsForever
<1>1. StreamingInv => buffer = current /\ current <= config.limit + config.batch_size
  BY DEF StreamingInv
<1>2. ASSUME StreamingInv, [StreamingNext]_streamingVars
      PROVE  [OverLimit(current) =>
                /\ <<buffer, current>>' = <<buffer, current>>
                /\ total' - total < Greatest(config.batch_size, 1)]_streamingVars
  BY <1>2, StepsOverTheLimit DEF Batch
<1> QED BY <1>1, <1>2, StreamingInvAlways, PTL DEF StreamingSpec, OverLimitIsForever

=============================================================================
