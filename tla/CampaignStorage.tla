-------------------------- MODULE CampaignStorage --------------------------
(***************************************************************************)
(* What Campaign takes for granted: that a call is atomic although it      *)
(* calls token contracts that may call back, and that the entries it needs *)
(* are still there.  A call that pays is here a frame on a stack, running  *)
(* from one token call to the next; while a token runs, any other call may *)
(* start above it.  A call that panics leaves the world as it found it.    *)
(*                                                                         *)
(* The ledger keeps a persistent entry for some ledgers only: an access    *)
(* prolongs it, an archived one makes every call that touches it trap      *)
(* until someone pays to restore it.  The lock is a temporary entry that   *)
(* the call which wrote it removes, or that disappears with its panic.     *)
(* Deadlines, the freeze flag and what refunds are worth are Campaign's.   *)
(***************************************************************************)
EXTENDS Integers, Sequences, FiniteSets, Functions

CONSTANTS
    Donor, Token,
    Native,                      \* AssetInfo::Native
    Issuers,                     \* of the accepted assets, in order; a token may
                                 \* be listed more than once, or None
    NativeToken,                 \* the issuer of the first XLM listing, or None
    Targets,                     \* the milestones' targets, in order
    DonationAmounts,
    None,                        \* an entry that does not exist
    PERSISTENT_BUMP_THRESHOLD, PERSISTENT_BUMP_AMOUNT,
    MinimumLife,                 \* what the network gives a new entry
    MaxRaised                    \* bound of the exploration

Milestone == DOMAIN Targets

AssetInfo == {Native} \cup Token

\* What is paid for: a milestone in a listing, a donor in a contribution.
Payment == (Milestone \X DOMAIN Issuers) \cup (Donor \X AssetInfo)

Entry == {<<"CampaignData">>, <<"TotalRaised">>}
    \cup ({"MilestoneData"} \X Milestone)
    \cup ({"DonorData"} \X Donor)
    \cup ({"AssetRaised"} \X Token)
    \cup ({"DonorAssetDonation"} \X Donor \X Token)

ASSUME StorageAssumption ==
    /\ Targets \in Seq(Nat \ {0})
    /\ Issuers \in Seq(Token \cup {None})
    /\ NativeToken \in Range(Issuers) \cup {None}
    /\ Native \notin Token
    /\ DonationAmounts \subseteq Nat \ {0}
    /\ None \notin Nat \cup Token
    /\ MinimumLife \in Nat \ {0}
    /\ PERSISTENT_BUMP_AMOUNT \in Nat
    /\ PERSISTENT_BUMP_THRESHOLD \in 1 .. PERSISTENT_BUMP_AMOUNT
    /\ IsFiniteSet(Donor) /\ IsFiniteSet(Token)
    /\ Donor \cap Milestone = {}

VARIABLES
    world,       \* what a panic rolls back: the contract's entries, their lives
                 \* (ledgers left, 0 once archived) and what the tokens paid
    stack,       \* the calls in progress, the running one last
    since        \* history: ledgers since a donor last gave, up to the threshold

vars == <<world, stack, since>>

-----------------------------------------------------------------------------
(***************************************************************************)
(* Faulty variants, named F_...: each breaks a property below.  The        *)
(* specification uses none of them.                                        *)
(***************************************************************************)
F_Free(lock) == TRUE

F_Unlock(w) == w

F_DonateEntries(d, t) ==
    {<<"CampaignData">>, <<"TotalRaised">>, <<"AssetRaised", t>>,
     <<"DonorData", d>>, <<"DonorAssetDonation", d, t>>}

-----------------------------------------------------------------------------
(***************************************************************************)
(* Entries and the lock.                                                   *)
(***************************************************************************)
Least(m, n) == IF m < n THEN m ELSE n

\* What a call reads, or reads and writes, of the persistent entries.
DonateEntries(d, t) ==
    {<<"CampaignData">>, <<"TotalRaised">>, <<"AssetRaised", t>>,
     <<"DonorData", d>>, <<"DonorAssetDonation", d, t>>}
        \cup ({"MilestoneData"} \X Milestone)

RefundEntries(d) ==
    {<<"CampaignData">>, <<"DonorData", d>>} \cup ({"MilestoneData"} \X Milestone)

ReleaseEntries(i) ==
    {<<"CampaignData">>, <<"TotalRaised">>}
        \cup ({"MilestoneData"} \X ({i, i - 1} \cap Milestone))
        \cup ({"AssetRaised"} \X Token)

MultiAssetEntries(i) ==
    {<<"CampaignData">>, <<"TotalRaised">>, <<"MilestoneData", i>>}
        \cup ({"AssetRaised"} \X Token)

\* An archived entry makes the call that touches it trap.
Present(entries) == \A e \in entries : world.life[e] # 0

\* extend_ttl: below the threshold, a life is prolonged to the full amount.
Bump(life, entries) ==
    [e \in Entry |->
        IF e \in entries /\ life[e] # None /\ life[e] < PERSISTENT_BUMP_THRESHOLD
        THEN PERSISTENT_BUMP_AMOUNT ELSE life[e]]

\* An access that also writes: a new entry begins with the network's minimum.
Write(life, entries) ==
    Bump([e \in Entry |-> IF e \in entries /\ life[e] = None
                          THEN MinimumLife ELSE life[e]], entries)

Free(lock) == ~lock

Lock(w) == [w EXCEPT !.lock = TRUE]

Unlock(w) == [w EXCEPT !.lock = FALSE]

\* The token contract behind an asset selector; None where the code panics.
TokenFor(asset) ==
    IF asset = Native THEN NativeToken
    ELSE IF asset \in Range(Issuers) THEN asset ELSE None

\* The assets a donor gave, in the order of their first donations.
ApplyDonation(contributions, asset) ==
    IF asset \in Range(contributions) THEN contributions
    ELSE Append(contributions, asset)

Share(raised, release, total) ==
    IF total = 0 THEN 0 ELSE (raised * release) \div total

AtLeastZero(n) == IF n < 0 THEN 0 ELSE n

-----------------------------------------------------------------------------
(***************************************************************************)
(* Calls.  The contract's own steps run while no token does.               *)
(***************************************************************************)
Top == stack[Len(stack)]

WithTop(frame) == [stack EXCEPT ![Len(stack)] = frame]

Popped == SubSeq(stack, 1, Len(stack) - 1)

\* A call starts from outside, or from within a token that is being called.
CanStart == stack # << >> => Top.calling

\* A paying call walks its items, the listings or the donor's contributions: at
\* is the one in work, and calling says whether its token is being called.
Frame(call, subject, items) ==
    [call |-> call, subject |-> subject, items |-> items, at |-> 0,
     calling |-> FALSE, read |-> 0, due |-> 0, out |-> 0,
     total |-> world.total, before |-> world]

EveryListing == [k \in DOMAIN Issuers |-> k]

Init ==
    /\ world = [lock |-> FALSE, open |-> TRUE,
                status |-> [i \in Milestone |-> "Locked"],
                total |-> 0, given |-> 0,
                raised |-> [t \in Token |-> 0],
                record |-> [d \in Donor |-> << >>],
                claimed |-> {},
                life |-> Write([e \in Entry |-> None],
                               {<<"CampaignData">>}
                                 \cup ({"MilestoneData"} \X Milestone)),
                payments |-> [p \in Payment |-> 0]]
    /\ stack = << >>
    /\ since = [d \in Donor |-> PERSISTENT_BUMP_THRESHOLD]

\* donate makes no call of its own: it runs in one step.
Donate(d, amount, asset) ==
    LET t == TokenFor(asset)
    IN  /\ CanStart
        /\ Free(world.lock)
        /\ world.open
        /\ world.given + amount <= MaxRaised
        /\ t # None
        /\ Present(DonateEntries(d, t))
        /\ world' = Unlock([Lock(world) EXCEPT
              !.total = @ + amount,
              !.given = @ + amount,
              !.raised[t] = @ + amount,
              !.record[d] = ApplyDonation(@, asset),
              !.status = [i \in Milestone |->
                            IF @[i] = "Locked" /\ world.given + amount >= Targets[i]
                            THEN "Unlocked" ELSE @[i]],
              !.life = Write(@, DonateEntries(d, t))])
        /\ since' = [since EXCEPT ![d] = 0]
        /\ UNCHANGED stack

\* end_campaign takes no lock.
EndCampaign ==
    /\ CanStart
    /\ world.open
    /\ Present({<<"CampaignData">>})
    /\ world' = [world EXCEPT !.open = FALSE,
                              !.life = Bump(@, {<<"CampaignData">>})]
    /\ UNCHANGED <<stack, since>>

StartRefund(d) ==
    /\ CanStart
    /\ Free(world.lock)
    /\ Present(RefundEntries(d))
    /\ world.record[d] # << >>
    /\ ~world.open
    /\ \A i \in Milestone : world.status[i] # "Released"
    /\ d \notin world.claimed
    /\ stack' = Append(stack, Frame("refund", d, world.record[d]))
    /\ world' = [Lock(world) EXCEPT !.claimed = @ \cup {d},
                                    !.life = Bump(@, RefundEntries(d))]
    /\ UNCHANGED since

\* The milestone is marked as released at the end of the call.
StartRelease(i) ==
    /\ CanStart
    /\ Free(world.lock)
    /\ Present(ReleaseEntries(i))
    /\ world.status[i] = "Unlocked"
    /\ i > 1 => world.status[i - 1] = "Released"
    /\ stack' = Append(stack, Frame("release", i, EveryListing))
    /\ world' = [Lock(world) EXCEPT !.life = Bump(@, ReleaseEntries(i))]
    /\ UNCHANGED since

\* The milestone is marked as released before the first token is called; the
\* total read here is written back at the end.
StartReleaseMultiAsset(i) ==
    /\ CanStart
    /\ Free(world.lock)
    /\ Present(MultiAssetEntries(i))
    /\ world.status[i] = "Unlocked"
    /\ world.total # 0
    /\ stack' = Append(stack, Frame("multi", i, EveryListing))
    /\ world' = [Lock(world) EXCEPT !.status[i] = "Released",
                                    !.life = Bump(@, MultiAssetEntries(i))]
    /\ UNCHANGED since

\* The token behind an item of a frame, None for a listing without an issuer,
\* and what it raised.
TokenOf(f, item) == IF f.call = "refund" THEN TokenFor(item) ELSE Issuers[item]

RaisedIn(t) == IF t = None THEN 0 ELSE world.raised[t]

\* What is due for an item: of a refund, whether anything is.
Dues(read) ==
    IF Top.call = "refund" THEN {0, 1}
    ELSE {Share(read, Targets[Top.subject], Top.total)}

\* The loop comes to its next item and reads the token's books, as the items
\* before have left them; where nothing is due the item is passed over.
NextItem ==
    LET read == RaisedIn(TokenOf(Top, Top.items[Top.at + 1]))
    IN  /\ stack # << >>
        /\ ~Top.calling
        /\ Top.at < Len(Top.items)
        /\ \E due \in Dues(read) :
              stack' = WithTop([Top EXCEPT !.at = @ + 1, !.calling = due > 0,
                                           !.read = read, !.due = due])
        /\ UNCHANGED <<world, since>>

\* The token has paid, and the loop goes on: release_milestone_multi_asset with
\* writing down the token's books, from what it read before.
TokenReturns ==
    LET item == Top.items[Top.at]
        paid == [world EXCEPT !.payments[<<Top.subject, item>>] = @ + 1]
    IN  /\ stack # << >>
        /\ Top.calling
        /\ stack' = WithTop([Top EXCEPT !.calling = FALSE, !.out = @ + Top.due])
        /\ world' = IF Top.call = "multi"
                    THEN [paid EXCEPT !.raised[Issuers[item]] =
                             AtLeastZero(Top.read - Top.due)]
                    ELSE paid
        /\ UNCHANGED since

Finish ==
    /\ stack # << >>
    /\ ~Top.calling
    /\ Top.at = Len(Top.items)
    /\ world' = Unlock(
          CASE Top.call = "release" -> [world EXCEPT !.status[Top.subject] = "Released"]
            [] Top.call = "multi"   -> [world EXCEPT !.total = AtLeastZero(Top.total - Top.out)]
            [] OTHER                -> world)
    /\ stack' = Popped
    /\ UNCHANGED since

\* The contract lacks the tokens, or the token refuses.  A token above which
\* the call was made may go on, or fail in turn.
Panic ==
    /\ stack # << >>
    /\ world' = Top.before
    /\ stack' = Popped
    /\ UNCHANGED since

\* The network: ledgers close between transactions, and anyone may restore.
CloseLedger ==
    /\ stack = << >>
    /\ world' = [world EXCEPT !.life = [e \in Entry |->
                    IF @[e] = None THEN None ELSE AtLeastZero(@[e] - 1)]]
    /\ since' = [d \in Donor |-> Least(since[d] + 1, PERSISTENT_BUMP_THRESHOLD)]
    /\ UNCHANGED stack

Restore(e) ==
    /\ stack = << >>
    /\ world.life[e] = 0
    /\ world' = [world EXCEPT !.life[e] = MinimumLife]
    /\ UNCHANGED <<stack, since>>

Next ==
    \/ \E d \in Donor, amount \in DonationAmounts, asset \in AssetInfo :
          Donate(d, amount, asset)
    \/ EndCampaign
    \/ \E d \in Donor : StartRefund(d)
    \/ \E i \in Milestone : StartRelease(i) \/ StartReleaseMultiAsset(i)
    \/ NextItem
    \/ TokenReturns
    \/ Finish
    \/ Panic
    \/ CloseLedger
    \/ \E e \in Entry : Restore(e)

Spec == Init /\ [][Next]_vars

-----------------------------------------------------------------------------
(***************************************************************************)
(* Properties.                                                             *)
(***************************************************************************)

\* Whatever a token calls back while it is being paid from, no milestone is paid
\* twice for one listing, whichever of the two functions releases it, and no
\* donor twice for one contribution: release_milestone writes its status only
\* after its transfers and depends on the lock for it.
PaidOnce == \A p \in DOMAIN world.payments : world.payments[p] <= 1

\* Between calls the total is the sum of the tokens' books, although a release
\* of several assets writes back a total it read before it called them.
BooksAgreeAtRest == stack = << >> => world.total = SumFunction(world.raised)

\* The lock is held exactly while a call is between two token calls, and is
\* never left behind, however the call ends.
LockedWhileBusy == world.lock <=> stack # << >>

\* A donor who gave less than the threshold ago is refunded without anyone
\* having to restore an entry first: a donation prolongs everything that the
\* donor's refund will read, the milestones included.
RecentDonorNeedsNoRestore ==
    \A d \in Donor :
        since[d] < PERSISTENT_BUMP_THRESHOLD => Present(RefundEntries(d))

=============================================================================
