------------------------------ MODULE Campaign ------------------------------
(***************************************************************************)
(* The crowdfunding contract of campaign/src: one campaign, its donors,    *)
(* its milestones and the accounting that decides who is paid what.        *)
(*                                                                         *)
(* Every entry point is a Soroban invocation: it commits as a whole or     *)
(* panics and leaves no trace.  An action is therefore one successful      *)
(* call, its guards are the conditions under which the code does not       *)
(* panic, and a rejected call is a step that does not exist.  The order of *)
(* calls, by any account, at any ledger time, is arbitrary.                *)
(*                                                                         *)
(* The token contracts are outside the repository: they appear as the      *)
(* amount the contract holds in each token (balance), which transfers out  *)
(* decrease and transfers in, made by anyone at any time, increase.        *)
(***************************************************************************)
EXTENDS Integers, Sequences, FiniteSets, Functions

CONSTANTS
    Address,         \* accounts: creators, donors, admins, recipients
    Contract,        \* env.current_contract_address()
    Token,           \* token contract addresses
    WasmHash,        \* code hashes the deployer accepts
    Native,          \* AssetInfo::Native
    None             \* an absent storage entry, or Option::None

CONSTANTS            \* the arguments callers pass
    AssetLists, MilestonePlans, GoalAmounts, EndTimes, MinDonations,
    DonationAmounts, DepositAmounts, Recipients

CONSTANTS            \* the program's constants, and the width of its integers
    ValidCode,       \* the asset codes of 1 to 12 characters
    MAX_MILESTONES, REFUND_WINDOW, MaxI128, MaxU64

CONSTANTS            \* bounds of the exploration
    MaxRaised, MaxDeposited, MaxTime

AssetInfo == {Native} \cup Token

CampaignStatus == {"Active", "GoalReached", "Ended", "Cancelled"}

MilestoneStatus == {"Locked", "Unlocked", "Released"}

StellarAsset == [asset_code : STRING, issuer : Token \cup {None}]

\* released_to stands for released_at as well: only release_milestone writes
\* either, and it writes both.
MilestoneData == [target_amount : Int, released_amount : Int,
                  status : MilestoneStatus,
                  released_to : Recipients \cup {None}]

CampaignData == [creator : Address, goal_amount : Int, raised_amount : Int,
                 end_time : Nat, status : CampaignStatus,
                 accepted_assets : Seq(StellarAsset),
                 min_donation_amount : Int]

\* The contributions vector holds each asset once, so it is a function; 0
\* stands for an asset without an entry.
DonorRecord == [total_donated : Int, contributions : [AssetInfo -> Int],
                refund_claimed : BOOLEAN]

-----------------------------------------------------------------------------

ASSUME NamesAssumption ==
    /\ None \notin Address \cup Token \cup Recipients \cup {Native}
    /\ None \notin CampaignData \cup DonorRecord
    /\ Native \notin Token
    /\ Contract \notin Address
    /\ IsFiniteSet(Address) /\ IsFiniteSet(Token)

ASSUME ArgumentsAssumption ==
    /\ AssetLists \subseteq Seq(StellarAsset)
    /\ MilestonePlans \subseteq Seq(MilestoneData)
    /\ GoalAmounts \cup MinDonations \cup DonationAmounts \subseteq Int
    /\ EndTimes \cup DepositAmounts \subseteq Nat

ASSUME BoundsAssumption ==
    /\ {MAX_MILESTONES, REFUND_WINDOW, MaxI128, MaxU64} \subseteq Nat
    /\ {MaxRaised, MaxDeposited, MaxTime} \subseteq Nat
    /\ MaxRaised <= MaxI128
    /\ MaxTime <= MaxU64

VARIABLES
    campaign,        \* DataKey::CampaignData
    milestones,      \* DataKey::MilestoneData(i), at position i + 1
    donors,          \* DataKey::DonorData(address)
    donorAsset,      \* DataKey::DonorAssetDonation(address, token)
    totalRaised,     \* DataKey::TotalRaised
    assetRaised,     \* DataKey::AssetRaised(token)
    frozen,          \* DataKey::Frozen
    admin,           \* DataKey::Admin
    wasm,            \* the code the contract runs
    now,             \* env.ledger().timestamp()
    balance,         \* what the contract holds in each token
    deposited        \* all that was ever transferred to it in each token

books == <<campaign, milestones, donors, donorAsset, totalRaised, assetRaised>>

vars == <<books, frozen, admin, wasm, now, balance, deposited>>

-----------------------------------------------------------------------------
(***************************************************************************)
(* Integers.  Checked operations panic outside i128 (InI128 as a guard);   *)
(* the plain operators of a release build wrap (WrapI128, WrapU64).        *)
(***************************************************************************)
InI128(n) == -MaxI128 - 1 <= n /\ n <= MaxI128

U128 == 2 * (MaxI128 + 1)

WrapI128(n) == ((n + MaxI128 + 1) % U128) - MaxI128 - 1

WrapU64(n) == n % (MaxU64 + 1)

Saturate(n) == IF n > MaxI128 THEN MaxI128 ELSE n

\* Faulty variant of AtLeastZero, as F_... below.
F_NoClamp(n) == n

AtLeastZero(n) == IF n < 0 THEN 0 ELSE n

-----------------------------------------------------------------------------
(***************************************************************************)
(* Faulty variants of the helpers below, named F_...: each is a slip the   *)
(* code could contain, and each breaks a property at the end of the module.*)
(* No definition of the specification uses them.                           *)
(***************************************************************************)
F_EndedAccepts(status) == status # "Cancelled"

F_OverwriteContribution(record, amount, asset) ==
    [record EXCEPT !.total_donated = @ + amount, !.contributions[asset] = amount]

F_UnlockAboveTarget(plan, raised) ==
    [i \in DOMAIN plan |->
        IF plan[i].status = "Locked" /\ raised > plan[i].target_amount
        THEN [plan[i] EXCEPT !.status = "Unlocked"] ELSE plan[i]]

F_UnlockReleased(plan, raised) ==
    [i \in DOMAIN plan |->
        IF plan[i].status # "Unlocked" /\ raised >= plan[i].target_amount
        THEN [plan[i] EXCEPT !.status = "Unlocked"] ELSE plan[i]]

F_UnlockOneShort(plan, raised) ==
    [i \in DOMAIN plan |->
        IF plan[i].status = "Locked" /\ raised + 1 >= plan[i].target_amount
        THEN [plan[i] EXCEPT !.status = "Unlocked"] ELSE plan[i]]

F_TotalReleasedButLast ==
    SumFunctionOnSet([i \in DOMAIN milestones |-> milestones[i].released_amount],
                     1 .. Len(milestones) - 1)

F_RefundPlusReleased(amount) ==
    LET released == SumFunction([i \in DOMAIN milestones |->
                                    milestones[i].released_amount])
    IN  IF amount > 0
        THEN (amount * (campaign.raised_amount + released))
                \div campaign.raised_amount
        ELSE 0

F_RoundUp(raised, release, total) ==
    IF raised = 0 THEN 0 ELSE (raised * release + total - 1) \div total

F_ForgetAssetRaised(acc, t, release) ==
    LET amount == IF t = None \/ totalRaised = 0 THEN 0
                  ELSE (acc.raised[t] * release) \div totalRaised
    IN  IF amount = 0 THEN acc
        ELSE [acc EXCEPT !.held[t] = @ - amount, !.paid = @ + amount]

-----------------------------------------------------------------------------
(***************************************************************************)
(* Helpers of the entry points.                                            *)
(***************************************************************************)
IsTerminal(status) == status \in {"Ended", "Cancelled"}

AcceptsDonations(status) == status \in {"Active", "GoalReached"}

ValidAssets(assets) ==
    /\ assets # << >>
    /\ \A k \in DOMAIN assets : assets[k].asset_code \in ValidCode

ValidMilestones(plan, goal) ==
    /\ Len(plan) \in 1 .. MAX_MILESTONES
    /\ plan[1].target_amount > 0
    /\ \A i \in 2 .. Len(plan) :
          plan[i].target_amount > plan[i - 1].target_amount
    /\ plan[Len(plan)].target_amount = goal

\* The token contract behind an asset selector; None where the code panics
\* with AssetNotAccepted.
TokenFor(asset, assets) ==
    IF asset = Native
    THEN LET xlm == {k \in DOMAIN assets : assets[k].asset_code = "XLM"}
         IN  IF xlm = {} THEN None
             ELSE assets[CHOOSE k \in xlm : \A j \in xlm : k <= j].issuer
    ELSE IF \E k \in DOMAIN assets : assets[k].issuer = asset
         THEN asset ELSE None

NewDonor == [total_donated |-> 0, contributions |-> [a \in AssetInfo |-> 0],
             refund_claimed |-> FALSE]

ApplyDonation(record, amount, asset) ==
    [record EXCEPT !.total_donated = Saturate(@ + amount),
                   !.contributions[asset] = Saturate(@ + amount)]

\* The unlock pass of donate over all milestones.
Unlock(plan, raised) ==
    [i \in DOMAIN plan |->
        IF plan[i].status = "Locked" /\ raised >= plan[i].target_amount
        THEN [plan[i] EXCEPT !.status = "Unlocked"] ELSE plan[i]]

AnyReleased == \E i \in DOMAIN milestones : milestones[i].status = "Released"

TotalReleased ==
    SumFunction([i \in DOMAIN milestones |-> milestones[i].released_amount])

RefundDeadline == WrapU64(campaign.end_time + REFUND_WINDOW)

\* The refund of one contribution: it shrinks with what milestones released.
\* Only a positive result is paid.
RefundShare(amount) ==
    LET product == WrapI128(amount
                     * WrapI128(campaign.raised_amount - TotalReleased))
    IN  IF amount > 0 /\ product > 0
        THEN product \div campaign.raised_amount ELSE 0

\* What claim_refund transfers to donor d in token t, over all contributions
\* that resolve to t.
RefundIn(d, t) ==
    SumFunctionOnSet(
        [a \in AssetInfo |-> RefundShare(donors[d].contributions[a])],
        {a \in AssetInfo : TokenFor(a, campaign.accepted_assets) = t})

\* is_refund_eligible: the view a donor asks before calling claim_refund.
IsRefundEligible(d) ==
    /\ campaign # None
    /\ donors[d] # None
    /\ \/ campaign.status = "Cancelled"
       \/ campaign.status = "Ended" /\ ~AnyReleased
    /\ now <= RefundDeadline
    /\ ~donors[d].refund_claimed

\* release_milestone: an asset's part of a release, in u128 arithmetic.
ProportionalAmount(raised, release, total) ==
    IF raised = 0 THEN 0
    ELSE AtLeastZero(WrapI128(((raised * release) % U128) \div total))

\* release_milestone_multi_asset: the same, 0 where the code returns None.
ComputeAssetRelease(raised, release, total) ==
    IF total = 0 \/ raised <= 0 \/ release <= 0 \/ ~InI128(raised * release)
    THEN 0 ELSE (raised * release) \div total

\* How often a token is listed: the release loop visits it once per listing.
Listings(t) ==
    Cardinality({k \in DOMAIN campaign.accepted_assets :
                    campaign.accepted_assets[k].issuer = t})

\* One visit of release_milestone_multi_asset's loop to a listed token: the
\* token's books are re-read, so a second listing sees the first one's effect.
PayListing(acc, t, release) ==
    LET amount == IF t = None THEN 0
                  ELSE ComputeAssetRelease(acc.raised[t], release, totalRaised)
    IN  IF amount = 0 THEN acc
        ELSE [raised |-> [acc.raised EXCEPT ![t] = AtLeastZero(@ - amount)],
              held   |-> [acc.held EXCEPT ![t] = @ - amount],
              paid   |-> acc.paid + amount]

ReleaseLoop(release) ==
    LET assets == campaign.accepted_assets
        pass[k \in 0 .. Len(assets)] ==
            IF k = 0
            THEN [raised |-> assetRaised, held |-> balance, paid |-> 0]
            ELSE PayListing(pass[k - 1], assets[k].issuer, release)
    IN  pass[Len(assets)]

-----------------------------------------------------------------------------
Init ==
    /\ campaign = None
    /\ milestones = << >>
    /\ donors = [d \in Address |-> None]
    /\ donorAsset = [d \in Address |-> [t \in Token |-> 0]]
    /\ totalRaised = 0
    /\ assetRaised = [t \in Token |-> 0]
    /\ frozen = FALSE
    /\ admin = None
    /\ wasm \in WasmHash
    /\ now = 0
    /\ balance = [t \in Token |-> 0]
    /\ deposited = [t \in Token |-> 0]

Initialize(creator, goal, end, assets, plan, minimum) ==
    /\ campaign = None
    /\ goal > 0
    /\ end > now
    /\ ValidAssets(assets)
    /\ ValidMilestones(plan, goal)
    /\ campaign' = [creator |-> creator, goal_amount |-> goal,
                    raised_amount |-> 0, end_time |-> end,
                    status |-> "Active", accepted_assets |-> assets,
                    min_donation_amount |-> minimum]
    /\ milestones' = plan
    /\ admin' = creator
    /\ UNCHANGED <<donors, donorAsset, totalRaised, assetRaised, frozen, wasm,
                   now, balance, deposited>>

Donate(d, amount, asset) ==
    LET token  == TokenFor(asset, campaign.accepted_assets)
        raised == campaign.raised_amount + amount
        record == IF donors[d] = None THEN NewDonor ELSE donors[d]
    IN  /\ ~frozen
        /\ campaign # None
        /\ AcceptsDonations(campaign.status)
        /\ amount > 0
        /\ campaign.min_donation_amount > 0
              => amount >= campaign.min_donation_amount
        /\ raised <= MaxRaised
        /\ InI128(raised)
        /\ InI128(totalRaised + amount)
        /\ token # None
        /\ InI128(donorAsset[d][token] + amount)
        /\ InI128(assetRaised[token] + amount)
        /\ campaign' = [campaign EXCEPT
                           !.raised_amount = raised,
                           !.status = IF raised >= campaign.goal_amount
                                      THEN "GoalReached" ELSE @]
        /\ totalRaised' = totalRaised + amount
        /\ donorAsset' = [donorAsset EXCEPT ![d][token] = @ + amount]
        /\ assetRaised' = [assetRaised EXCEPT ![token] = @ + amount]
        /\ donors' = [donors EXCEPT ![d] = ApplyDonation(record, amount, asset)]
        /\ milestones' = Unlock(milestones, raised)
        /\ UNCHANGED <<frozen, admin, wasm, now, balance, deposited>>

ClaimRefund(d) ==
    /\ ~frozen
    /\ campaign # None
    /\ donors[d] # None
    /\ IsTerminal(campaign.status)
    /\ campaign.status = "Ended" => ~AnyReleased
    /\ now <= RefundDeadline
    /\ ~donors[d].refund_claimed
    /\ \A t \in Token : RefundIn(d, t) <= balance[t]
    /\ donors' = [donors EXCEPT ![d].refund_claimed = TRUE]
    /\ balance' = [t \in Token |-> balance[t] - RefundIn(d, t)]
    /\ UNCHANGED <<campaign, milestones, donorAsset, totalRaised, assetRaised,
                   frozen, admin, wasm, now, deposited>>

ReleaseMilestone(caller, i, recipient) ==
    LET release   == milestones[i].target_amount - milestones[i].released_amount
        amount(t) == ProportionalAmount(assetRaised[t], release, totalRaised)
    IN  /\ campaign # None
        /\ caller = campaign.creator
        /\ ~frozen
        /\ i \in DOMAIN milestones
        /\ milestones[i].status = "Unlocked"
        /\ i > 1 => milestones[i - 1].status = "Released"
        /\ InI128(release)
        /\ \A t \in Token : Listings(t) > 0 /\ assetRaised[t] # 0
                               => totalRaised # 0
        /\ \A t \in Token :
              LET visits == IF recipient = Contract THEN 1 ELSE Listings(t)
              IN  Listings(t) > 0 => visits * amount(t) <= balance[t]
        /\ balance' = IF recipient = Contract THEN balance
                      ELSE [t \in Token |-> IF Listings(t) = 0 THEN balance[t]
                                    ELSE balance[t] - Listings(t) * amount(t)]
        /\ milestones' = [milestones EXCEPT
                             ![i].released_amount = milestones[i].target_amount,
                             ![i].status = "Released",
                             ![i].released_to = recipient]
        /\ UNCHANGED <<campaign, donors, donorAsset, totalRaised, assetRaised,
                       frozen, admin, wasm, now, deposited>>

ReleaseMilestoneMultiAsset(caller, i, recipient) ==
    LET release == milestones[i].target_amount - milestones[i].released_amount
        end     == ReleaseLoop(release)
    IN  /\ campaign # None
        /\ caller = campaign.creator
        /\ recipient # Contract
        /\ i \in DOMAIN milestones
        /\ milestones[i].status = "Unlocked"
        /\ totalRaised # 0
        /\ InI128(release)
        /\ release # 0
        /\ \A t \in Token : end.held[t] >= 0
        /\ InI128(end.paid)
        /\ milestones' = [milestones EXCEPT ![i].released_amount = @ + release,
                                            ![i].status = "Released"]
        /\ balance' = end.held
        /\ assetRaised' = end.raised
        /\ totalRaised' = AtLeastZero(totalRaised - end.paid)
        /\ UNCHANGED <<campaign, donors, donorAsset, frozen, admin, wasm, now,
                       deposited>>

EndCampaign(caller) ==
    /\ campaign # None
    /\ caller = campaign.creator
    /\ campaign.status \in {"Active", "GoalReached"}
    /\ campaign' = [campaign EXCEPT !.status = "Ended"]
    /\ UNCHANGED <<milestones, donors, donorAsset, totalRaised, assetRaised,
                   frozen, admin, wasm, now, balance, deposited>>

CancelCampaign(caller) ==
    /\ campaign # None
    /\ caller = campaign.creator
    /\ campaign.status # "Cancelled"
    /\ campaign' = [campaign EXCEPT !.status = "Cancelled"]
    /\ UNCHANGED <<milestones, donors, donorAsset, totalRaised, assetRaised,
                   frozen, admin, wasm, now, balance, deposited>>

\* Despite its name the call also accepts an earlier deadline.
ExtendDeadline(caller, end) ==
    /\ campaign # None
    /\ caller = campaign.creator
    /\ campaign.status \in {"Active", "GoalReached"}
    /\ end > now
    /\ campaign' = [campaign EXCEPT !.end_time = end]
    /\ UNCHANGED <<milestones, donors, donorAsset, totalRaised, assetRaised,
                   frozen, admin, wasm, now, balance, deposited>>

SetAdmin(caller, successor) ==
    /\ admin # None
    /\ caller = admin
    /\ admin' = successor
    /\ UNCHANGED <<books, frozen, wasm, now, balance, deposited>>

SetFrozen(caller, flag) ==
    /\ admin # None
    /\ caller = admin
    /\ frozen' = flag
    /\ UNCHANGED <<books, admin, wasm, now, balance, deposited>>

Freeze(caller) == SetFrozen(caller, TRUE)

Unfreeze(caller) == SetFrozen(caller, FALSE)

Upgrade(caller, hash) ==
    /\ admin # None
    /\ caller = admin
    /\ wasm' = hash
    /\ UNCHANGED <<books, frozen, admin, now, balance, deposited>>

\* Outside the contract: anyone may send it tokens, and ledgers close.
Deposit(t, amount) ==
    /\ deposited[t] + amount <= MaxDeposited
    /\ balance' = [balance EXCEPT ![t] = @ + amount]
    /\ deposited' = [deposited EXCEPT ![t] = @ + amount]
    /\ UNCHANGED <<books, frozen, admin, wasm, now>>

CloseLedger ==
    /\ now < MaxTime
    /\ now' = now + 1
    /\ UNCHANGED <<books, frozen, admin, wasm, balance, deposited>>

Next ==
    \/ \E creator \in Address, goal \in GoalAmounts, end \in EndTimes,
          assets \in AssetLists, plan \in MilestonePlans,
          minimum \in MinDonations :
          Initialize(creator, goal, end, assets, plan, minimum)
    \/ \E d \in Address, amount \in DonationAmounts, asset \in AssetInfo :
          Donate(d, amount, asset)
    \/ \E d \in Address : ClaimRefund(d)
    \/ \E caller \in Address, i \in 1 .. MAX_MILESTONES,
          recipient \in Recipients :
          \/ ReleaseMilestone(caller, i, recipient)
          \/ ReleaseMilestoneMultiAsset(caller, i, recipient)
    \/ \E caller \in Address :
          \/ EndCampaign(caller)
          \/ CancelCampaign(caller)
          \/ Freeze(caller)
          \/ Unfreeze(caller)
    \/ \E caller \in Address, end \in EndTimes : ExtendDeadline(caller, end)
    \/ \E caller, successor \in Address : SetAdmin(caller, successor)
    \/ \E caller \in Address, hash \in WasmHash : Upgrade(caller, hash)
    \/ \E t \in Token, amount \in DepositAmounts : Deposit(t, amount)
    \/ CloseLedger

Spec == Init /\ [][Next]_vars

-----------------------------------------------------------------------------
(***************************************************************************)
(* Properties.                                                             *)
(***************************************************************************)

\* What a caller of initialize is expected to pass, though initialize does not
\* check it: milestones that nothing has touched yet.
FreshPlans ==
    \A plan \in MilestonePlans : \A i \in DOMAIN plan :
        plan[i] = [plan[i] EXCEPT !.released_amount = 0, !.status = "Locked",
                                  !.released_to = None]

\* The accepted list names each token once; initialize does not check it.
DistinctListings == \A t \in Token : Listings(t) <= 1

DonatedIn(t) == SumFunction([d \in Address |-> donorAsset[d][t]])

HasClaimed(d) == donors[d] # None /\ donors[d].refund_claimed

\* Every stored value has its type, and no amount leaves the range 0..i128::MAX
\* although the code mixes checked, saturating and plain arithmetic.
TypeOK ==
    /\ campaign \in CampaignData \cup {None}
    /\ milestones \in Seq(MilestoneData)
    /\ donors \in [Address -> DonorRecord \cup {None}]
    /\ donorAsset \in [Address -> [Token -> 0 .. MaxI128]]
    /\ totalRaised \in 0 .. MaxI128
    /\ assetRaised \in [Token -> 0 .. MaxI128]
    /\ frozen \in BOOLEAN
    /\ admin \in Address \cup {None}
    /\ wasm \in WasmHash
    /\ now \in 0 .. MaxTime
    /\ balance \in [Token -> Nat]
    /\ deposited \in [Token -> Nat]

\* The campaign status and every milestone follow the amount raised: the goal
\* flag is up exactly from the goal on, and a milestone is locked exactly below
\* its target.  The code keeps these in separate entries, written by donate,
\* by both releases and by the calls that change the status.
ProgressMatchesRaised ==
    campaign # None =>
        /\ campaign.status = "Active"
              => campaign.raised_amount < campaign.goal_amount
        /\ campaign.status = "GoalReached"
              => campaign.raised_amount >= campaign.goal_amount
        /\ \A i \in DOMAIN milestones :
              milestones[i].status = "Locked"
                 <=> campaign.raised_amount < milestones[i].target_amount

\* The global counter is the sum of the per-token counters, through donations
\* and through releases that clamp and round each counter on its own.
BooksBalance ==
    totalRaised = SumFunction(assetRaised)

\* Four records of the same donations agree: the campaign's total, the donors'
\* totals, their contributions, and the per-token entries; releases only ever
\* lower the per-token counters below what was donated.
ContributionsReconcile ==
    LET recorded == {d \in Address : donors[d] # None}
        given(d, t) == SumFunctionOnSet(donors[d].contributions,
                         {a \in AssetInfo :
                             TokenFor(a, campaign.accepted_assets) = t})
    IN  campaign # None =>
          /\ campaign.raised_amount =
                SumFunction([d \in recorded |-> donors[d].total_donated])
          /\ \A d \in recorded :
                /\ donors[d].total_donated =
                      SumFunction(donorAsset[d])
                /\ \A t \in Token : donorAsset[d][t] = given(d, t)
          /\ \A t \in Token : assetRaised[t] <= DonatedIn(t)

\* Whatever the order of releases, refunds and donations, the contract never
\* pays out more than its milestones say was released plus what the refunded
\* donors had given.
PayoutsAccounted ==
    campaign # None /\ DistinctListings =>
        SumFunction([t \in Token |-> deposited[t] - balance[t]])
          <= TotalReleased + SumFunction([d \in {e \in Address : HasClaimed(e)}
                                             |-> donors[d].total_donated])

\* A refund goes to a donor the view calls eligible, who is not eligible after
\* it, and pays in no token more than that donor gave in it; nothing else ever
\* sets or clears the claimed flag.
RefundOnceWithinDonation ==
    [][\A d \in Address :
          /\ HasClaimed(d) => HasClaimed(d)'
          /\ ~HasClaimed(d) /\ HasClaimed(d)' =>
                /\ IsRefundEligible(d) /\ ~IsRefundEligible(d)'
                /\ \A t \in Token :
                      balance[t] - balance'[t] \in 0 .. donorAsset[d][t]
                /\ \A e \in Address \ {d} : donors'[e] = donors[e]]_vars

\* Where amounts are so large that the products of a refund wrap, it still goes
\* to an eligible donor and stays within the gift in every token, as long as the
\* milestones have not released more than was raised: wrapping can then only
\* lower a refund or take it to nothing.
WrappedRefundsStayWithin ==
    [][\A d \in Address :
          /\ ~HasClaimed(d) /\ HasClaimed(d)'
          /\ TotalReleased <= campaign.raised_amount
          => /\ IsRefundEligible(d) /\ ~IsRefundEligible(d)'
             /\ \A t \in Token :
                   balance[t] - balance'[t] \in 0 .. donorAsset[d][t]]_vars

\* Once a campaign is ended or cancelled its donations, deadline and locked
\* milestones never change again, and it never reopens.
TerminalIsFinal ==
    [][campaign # None /\ IsTerminal(campaign.status) =>
          /\ campaign' = [campaign EXCEPT !.status = campaign'.status]
          /\ campaign'.status \in {campaign.status, "Cancelled"}
          /\ donorAsset' = donorAsset
          /\ \A i \in DOMAIN milestones :
                milestones[i].status = "Locked"
                    => milestones'[i] = milestones[i]]_vars

\* A milestone moves one step at a time, locked to unlocked to released, and a
\* released one is never touched again: it cannot be paid for twice, whichever
\* of the two release functions is used.
MilestonesOnlyForward ==
    [][campaign # None => \A i \in DOMAIN milestones :
          LET before == milestones[i].status
              after  == milestones'[i].status
          IN  /\ \/ milestones'[i] = milestones[i]
                 \/ <<before, after>> \in {<<"Locked", "Unlocked">>,
                                           <<"Unlocked", "Released">>}
              /\ milestones'[i].target_amount
                    = milestones[i].target_amount]_vars

\* With one token, distinct listings and every donation actually paid in, the
\* refunds of all donors together are covered by the balance as long as
\* nobody has been refunded yet.
SingleTokenSolvent ==
    \A t \in Token :
        /\ campaign # None
        /\ DistinctListings
        /\ \A u \in Token \ {t} : DonatedIn(u) = 0
        /\ deposited[t] >= DonatedIn(t)
        /\ \A d \in Address : ~HasClaimed(d)
        => SumFunction([d \in {e \in Address : donors[e] # None}
                           |-> RefundIn(d, t)]) <= balance[t]

\* What the promise of Escrow is kept with.
Phase ==
    CASE campaign = None -> "none"
      [] campaign # None /\ campaign.status = "Ended" -> "ended"
      [] campaign # None /\ campaign.status = "Cancelled" -> "cancelled"
      [] OTHER -> "open"

Targets == [i \in DOMAIN milestones |-> milestones[i].target_amount]

Pledged ==
    [d \in Address |-> IF donors[d] = None THEN 0 ELSE donors[d].total_donated]

ReleasedSteps == {i \in DOMAIN milestones : milestones[i].status = "Released"}

Returned == {d \in Address : HasClaimed(d)}

\* The promise behind the entries: pledges only while open, steps released once
\* and only when funded, donors paid back once and only after the close.
Promise == INSTANCE Escrow WITH
    Donor <- Address, Amount <- DonationAmounts,
    phase <- Phase, target <- Targets, pledged <- Pledged,
    released <- ReleasedSteps, returned <- Returned

\* Every call of the contract is a step of the promise or changes nothing in it.
KeepsPromise == Promise!Spec

-----------------------------------------------------------------------------
(***************************************************************************)
(* What a comment of the code says and the code does not do.               *)
(***************************************************************************)

\* types.rs, CampaignStatus::Cancelled: refunds are available.  A donor the
\* view calls eligible can be refunded when every donation was paid in and
\* nobody was refunded before.
RefundsPayable ==
    \A d \in Address :
        /\ IsRefundEligible(d)
        /\ campaign.status = "Cancelled"
        /\ DistinctListings
        /\ \A t \in Token : deposited[t] >= DonatedIn(t)
        /\ \A e \in Address : ~HasClaimed(e)
        => \A t \in Token : RefundIn(d, t) <= balance[t]

=============================================================================
