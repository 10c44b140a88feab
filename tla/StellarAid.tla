----------------------------- MODULE StellarAid -----------------------------
(***************************************************************************)
(* The platform contract of crates/contracts/core: many campaigns in one   *)
(* contract, their donation records, and withdrawals that an admin         *)
(* approves and then confirms.  Nothing is transferred on chain; the       *)
(* contract keeps the books.                                               *)
(*                                                                         *)
(* A call commits as a whole or panics and leaves no trace, so an action   *)
(* is one successful call and its guards are the code's assertions.  A     *)
(* campaign's title and deadline are stored and never read: left out.      *)
(***************************************************************************)
EXTENDS Integers, Sequences, FiniteSets, Functions

CONSTANTS
    Address,             \* creators, donors, admins, recipients
    Asset,               \* asset symbols
    NoAsset,             \* the empty symbol
    None,                \* an absent storage entry
    Goals, DonationAmounts, WithdrawalAmounts,    \* arguments of calls
    BASE_FEE,            \* deducted from every donation
    MaxI128, MaxU32      \* the widths of the integers

CONSTANTS                \* bounds of the exploration
    MaxCampaigns, MaxDonations, MaxRequests, MaxInitializations

CampaignId == 1 .. MaxCampaigns

WithdrawalStatus == {"Pending", "Approved", "Submitted"}

WithdrawalRequest == [recipient : Address, amount : Int,
                      status : WithdrawalStatus]

Campaign == [creator : Address, goal : Int, raised : Int, active : BOOLEAN]

DonationRecord == [donor : Address, amount : Int, asset : Asset]

ASSUME ConstantsAssumption ==
    /\ NoAsset \notin Asset
    /\ None \notin Address \cup Campaign \cup WithdrawalRequest \cup Int
    /\ None \notin [amount : Int, to : Address]
    /\ Goals \cup DonationAmounts \cup WithdrawalAmounts \subseteq Int
    /\ {BASE_FEE, MaxI128, MaxU32} \subseteq Nat
    /\ {MaxCampaigns, MaxDonations, MaxRequests, MaxInitializations}
          \subseteq Nat
    /\ IsFiniteSet(Address) /\ IsFiniteSet(Asset)

VARIABLES
    admin,               \* "admin"
    count,               \* "count": the last campaign id given out
    campaigns,           \* "camp", by id
    assetRaised,         \* "araised", by id and asset
    history,             \* "history", by id
    donations,           \* "don", by id and donor: the last amount given
    donors,              \* "donors", by id
    requests,            \* "pendwith", by id
    totalTx, totalDonations, totalWithdrawals,
    initializations,     \* history: how often initialize was called
    created,             \* history: campaigns ever created
    withdrawn            \* history: approved withdrawals, by id

books == <<campaigns, assetRaised, history, donations, donors>>

counters == <<totalTx, totalDonations, totalWithdrawals>>

vars == <<admin, count, books, requests, counters, initializations, created,
          withdrawn>>

-----------------------------------------------------------------------------
WrapI128(n) == ((n + MaxI128 + 1) % (2 * (MaxI128 + 1))) - MaxI128 - 1

WrapU32(n) == n % (MaxU32 + 1)

\* 100 percent in basis points.
FullBps == 10000

\* Division of i128 truncates towards zero.
Quotient(n, k) == IF n >= 0 THEN n \div k ELSE -((-n) \div k)

SumOfAmounts(records) ==
    SumFunction([i \in DOMAIN records |-> records[i].amount])

(***************************************************************************)
(* Faulty variants, named F_...: each breaks a property below.  The        *)
(* specification uses none of them.                                        *)
(***************************************************************************)
F_AddDonorAgain(list, d) == Append(list, d)

F_PageOf(records, page, size) ==
    LET start == WrapU32(page * size)
        limit == WrapU32(start + size)
        end   == IF limit > Len(records) THEN Len(records) ELSE limit
    IN  IF start >= Len(records) THEN << >> ELSE SubSeq(records, start + 1, end - 1)

F_AtLeastFee(amount) == amount >= BASE_FEE

F_PlusGross(total, amount) == WrapI128(total + amount)

F_Covers(raised, amount) == raised >= 0

F_ProgressUnclamped(c) ==
    IF c.goal <= 0 THEN [bps |-> 0, remaining |-> 0]
    ELSE IF c.raised <= 0 THEN [bps |-> 0, remaining |-> c.goal]
    ELSE [bps |-> WrapU32(Quotient(WrapI128(c.raised * FullBps), c.goal)),
          remaining |-> c.goal - c.raised]

-----------------------------------------------------------------------------
(***************************************************************************)
(* Helpers of the entry points, and the views.                             *)
(***************************************************************************)
ExceedsFee(amount) == amount > BASE_FEE

NetOf(amount) == amount - BASE_FEE

\* How a donation adds to a total: to the campaign's, and to its asset's.
PlusNet(total, amount) == WrapI128(total + NetOf(amount))

Covers(raised, amount) == raised >= amount

IsSubmitted(status) == status = "Submitted"

\* The donor list names each donor once.
AddDonor(list, d) ==
    IF \E i \in DOMAIN list : list[i] = d THEN list ELSE Append(list, d)

\* get_donation_history, in wrapping u32 arithmetic.
PageOf(records, page, size) ==
    LET start == WrapU32(page * size)
        limit == WrapU32(start + size)
        end   == IF limit > Len(records) THEN Len(records) ELSE limit
    IN  IF start >= Len(records) THEN << >> ELSE SubSeq(records, start + 1, end)

\* get_campaign_report: progress in basis points, and what is left to raise.
ProgressOf(c) ==
    IF c.goal <= 0 THEN [bps |-> 0, remaining |-> 0]
    ELSE IF c.raised >= c.goal THEN [bps |-> FullBps, remaining |-> 0]
    ELSE IF c.raised <= 0 THEN [bps |-> 0, remaining |-> c.goal]
    ELSE [bps |-> WrapU32(Quotient(WrapI128(c.raised * FullBps), c.goal)),
          remaining |-> c.goal - c.raised]

\* get_dashboard_metrics walks the ids given out.
ActiveCampaigns ==
    Cardinality({id \in CampaignId :
        id <= count /\ campaigns[id] # None /\ campaigns[id].active})

-----------------------------------------------------------------------------
Init ==
    /\ admin = None
    /\ count = 0
    /\ campaigns = [id \in CampaignId |-> None]
    /\ assetRaised = [id \in CampaignId |-> [a \in Asset |-> 0]]
    /\ history = [id \in CampaignId |-> << >>]
    /\ donations = [id \in CampaignId |-> [d \in Address |-> None]]
    /\ donors = [id \in CampaignId |-> << >>]
    /\ requests = [id \in CampaignId |-> None]
    /\ totalTx = 0 /\ totalDonations = 0 /\ totalWithdrawals = 0
    /\ initializations = 0
    /\ created = 0
    /\ withdrawn = [id \in CampaignId |-> 0]

\* Nothing keeps initialize from being called again, by anyone.
Initialize(caller) ==
    /\ initializations < MaxInitializations
    /\ admin' = caller
    /\ count' = 0
    /\ initializations' = initializations + 1
    /\ UNCHANGED <<books, requests, counters, created, withdrawn>>

CreateCampaign(creator, goal) ==
    /\ created < MaxCampaigns
    /\ count' = count + 1
    /\ campaigns' = [campaigns EXCEPT ![count + 1] =
                        [creator |-> creator, goal |-> goal, raised |-> 0,
                         active |-> TRUE]]
    /\ created' = created + 1
    /\ UNCHANGED <<admin, assetRaised, history, donations, donors, requests,
                   counters, initializations, withdrawn>>

Donate(d, id, amount, asset) ==
    /\ totalDonations < MaxDonations
    /\ asset # NoAsset
    /\ ExceedsFee(amount)
    /\ campaigns[id] # None
    /\ campaigns[id].active
    /\ campaigns' = [campaigns EXCEPT
                        ![id].raised = PlusNet(@, amount)]
    /\ assetRaised' = [assetRaised EXCEPT
                          ![id][asset] = PlusNet(@, amount)]
    /\ history' = [history EXCEPT
                      ![id] = Append(@, [donor |-> d, amount |-> NetOf(amount),
                                         asset |-> asset])]
    /\ donations' = [donations EXCEPT ![id][d] = amount]
    /\ donors' = [donors EXCEPT ![id] = AddDonor(@, d)]
    /\ totalTx' = totalTx + 1
    /\ totalDonations' = totalDonations + 1
    /\ UNCHANGED <<admin, count, requests, totalWithdrawals, initializations,
                   created, withdrawn>>

Withdraw(creator, id, recipient, amount) ==
    /\ totalWithdrawals < MaxRequests
    /\ amount > 0
    /\ campaigns[id] # None
    /\ campaigns[id].creator = creator
    /\ Covers(campaigns[id].raised, amount)
    /\ requests[id] # None => IsSubmitted(requests[id].status)
    /\ requests' = [requests EXCEPT ![id] =
                       [recipient |-> recipient, amount |-> amount,
                        status |-> "Pending"]]
    /\ totalTx' = totalTx + 1
    /\ totalWithdrawals' = totalWithdrawals + 1
    /\ UNCHANGED <<admin, count, books, totalDonations, initializations,
                   created, withdrawn>>

ApproveWithdrawal(caller, id) ==
    /\ admin # None
    /\ caller = admin
    /\ requests[id] # None
    /\ requests[id].status = "Pending"
    /\ campaigns[id] # None
    /\ Covers(campaigns[id].raised, requests[id].amount)
    /\ campaigns' = [campaigns EXCEPT ![id].raised = @ - requests[id].amount]
    /\ requests' = [requests EXCEPT ![id].status = "Approved"]
    /\ withdrawn' = [withdrawn EXCEPT ![id] = @ + requests[id].amount]
    /\ UNCHANGED <<admin, count, assetRaised, history, donations, donors,
                   counters, initializations, created>>

SubmitTransaction(caller, id) ==
    /\ admin # None
    /\ caller = admin
    /\ requests[id] # None
    /\ requests[id].status = "Approved"
    /\ requests' = [requests EXCEPT ![id].status = "Submitted"]
    /\ UNCHANGED <<admin, count, books, counters, initializations, created,
                   withdrawn>>

Next ==
    \/ \E caller \in Address : Initialize(caller)
    \/ \E creator \in Address, goal \in Goals : CreateCampaign(creator, goal)
    \/ \E d \in Address, id \in CampaignId, amount \in DonationAmounts,
          asset \in Asset \cup {NoAsset} : Donate(d, id, amount, asset)
    \/ \E creator, recipient \in Address, id \in CampaignId,
          amount \in WithdrawalAmounts :
          Withdraw(creator, id, recipient, amount)
    \/ \E caller \in Address, id \in CampaignId :
          \/ ApproveWithdrawal(caller, id)
          \/ SubmitTransaction(caller, id)

Spec == Init /\ [][Next]_vars

-----------------------------------------------------------------------------
(***************************************************************************)
(* Properties.                                                             *)
(***************************************************************************)

\* Every stored value has its type, every recorded donation is worth something
\* after the fee, and no campaign id is beyond those ever created.
TypeOK ==
    /\ admin \in Address \cup {None}
    /\ created \in 0 .. MaxCampaigns /\ count \in 0 .. created
    /\ campaigns \in [CampaignId -> Campaign \cup {None}]
    /\ assetRaised \in [CampaignId -> [Asset -> Int]]
    /\ history \in [CampaignId -> Seq(DonationRecord)]
    /\ \A id \in CampaignId : \A i \in DOMAIN history[id] :
          history[id][i].amount > 0
    /\ donations \in [CampaignId -> [Address -> Int \cup {None}]]
    /\ donors \in [CampaignId -> Seq(Address)]
    /\ requests \in [CampaignId -> WithdrawalRequest \cup {None}]
    /\ totalTx \in Nat /\ totalDonations \in Nat /\ totalWithdrawals \in Nat
    /\ initializations \in 0 .. MaxInitializations
    /\ withdrawn \in [CampaignId -> Int]

\* A campaign holds what its history recorded less what was approved for
\* withdrawal, however donations, requests and approvals interleave, as long as
\* no later initialize has given its id out again.
LedgerBalances ==
    created = count =>
        \A id \in CampaignId : campaigns[id] # None =>
            campaigns[id].raised
               = WrapI128(SumOfAmounts(history[id]) - withdrawn[id])

\* What the per-asset totals of a campaign record is what its history records,
\* whatever was withdrawn and even if the id was given out twice.
AssetTotalsMatchHistory ==
    \A id \in CampaignId, a \in Asset :
        LET given == history[id]
        IN  assetRaised[id][a] =
               WrapI128(SumFunctionOnSet([i \in DOMAIN given |-> given[i].amount],
                           {i \in DOMAIN given : given[i].asset = a}))

\* The donor list holds each donor of the history exactly once, in the order
\* of their first donations, and a donor's entry is kept for exactly those.
DonorListMatchesHistory ==
    \A id \in CampaignId :
        LET given    == history[id]
            isFirst(i) == \A j \in 1 .. i - 1 : given[j].donor # given[i].donor
            firsts   == {i \in DOMAIN given : isFirst(i)}
        IN  /\ Len(donors[id]) = Cardinality(firsts)
            /\ \A i \in firsts :
                  donors[id][Cardinality({j \in firsts : j <= i})]
                     = given[i].donor
            /\ \A d \in Address : donations[id][d] # None
                  <=> \E i \in DOMAIN given : given[i].donor = d

\* A pending request can be approved: what covered it when it was made still
\* does.  The request blocks every other one until then.
PendingIsCovered ==
    \A id \in CampaignId :
        /\ created = count
        /\ requests[id] # None
        /\ requests[id].status = "Pending"
        /\ SumOfAmounts(history[id]) <= MaxI128
        => campaigns[id].raised >= requests[id].amount

\* The pages of a history, read one after the other, are the history: no
\* record is missed or shown twice at a page's edge.
PagesCoverHistory ==
    \A id \in CampaignId : \A size \in 1 .. MaxDonations + 1 :
        LET h == history[id]
        IN  /\ \A page \in 0 .. Len(h) : Len(PageOf(h, page, size)) <= size
            /\ SumFunction([page \in 0 .. Len(h) |-> Len(PageOf(h, page, size))])
                  = Len(h)
            /\ \A i \in DOMAIN h :
                  LET page == PageOf(h, (i - 1) \div size, size)
                      slot == ((i - 1) % size) + 1
                  IN  slot \in DOMAIN page /\ page[slot] = h[i]

ConsistentReport(c) ==
    LET progress == ProgressOf(c)
    IN  /\ progress.bps \in 0 .. FullBps
        /\ progress.bps = FullBps <=> progress.remaining = 0
        /\ progress.remaining \in 0 .. c.goal
        /\ \A more \in 1 .. c.goal :
              (c.raised + more) * FullBps <= MaxI128 =>
                  progress.bps
                    <= ProgressOf([c EXCEPT !.raised = @ + more]).bps

\* The report of a campaign is consistent as long as its products fit i128: full
\* funding is reported exactly when nothing remains to be raised, remaining
\* stays within the goal, and a further donation never lowers the progress.
\* Every id given out counts as active.
ReportsAgree ==
    /\ ActiveCampaigns = count
    /\ \A id \in CampaignId :
          /\ campaigns[id] # None
          /\ campaigns[id].goal > 0
          /\ campaigns[id].raised * FullBps <= MaxI128
          => ConsistentReport(campaigns[id])

\* What the promise of Withdrawals is kept with.
Earned == [id \in CampaignId |-> SumOfAmounts(history[id])]

Asked ==
    [id \in CampaignId |->
        IF requests[id] = None \/ requests[id].status = "Submitted" THEN None
        ELSE [amount |-> requests[id].amount, to |-> requests[id].recipient]]

Granted ==
    {id \in CampaignId : requests[id] # None /\ requests[id].status = "Approved"}

\* The promise behind the ledger: what is asked for and granted stays within
\* what a campaign earned and was not yet paid, one request at a time, even when
\* a second initialize gives its id out again.
Promise == INSTANCE Withdrawals WITH
    Campaigns <- CampaignId, Amount <- WithdrawalAmounts,
    Recipient <- Address, NoRequest <- None,
    earned <- Earned, paid <- withdrawn, asked <- Asked, granted <- Granted

\* Every call of the contract is a step of the promise or changes nothing in it.
KeepsPromise == Promise!Spec

=============================================================================
