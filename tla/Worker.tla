------------------------------- MODULE Worker -------------------------------
(***************************************************************************)
(* The polling worker of crates/tools: a loop that runs a task every ten   *)
(* seconds and logs how it went, the retry helper, and the matching of     *)
(* payments to campaigns.                                                  *)
(*                                                                         *)
(* run_polling_loop is given its task as a closure, and the repository     *)
(* contains none.  The task here is the one its parts are made for: fetch  *)
(* payments with with_retry and match what came.  The order of these steps *)
(* is the model's, each step is the code's.                                *)
(*                                                                         *)
(* The network decides what a fetch returns and whether it fails, new      *)
(* campaigns appear at any time, and a payment may be delivered more than  *)
(* once: the code keeps no record of what it has seen.                     *)
(***************************************************************************)
EXTENDS Integers, FiniteSets, Functions

CONSTANTS
    Payment,             \* what Horizon reports
    Campaign, Asset, Account,
    account,             \* the account the worker collects for
    None,                \* Option::None
    Complete,            \* payments with a hash, a sender and an amount
    MemoOf, AssetOf, AmountOf, From, To,      \* their fields
    max_attempts,
    MaxDeliveries        \* bound of the exploration

ASSUME WorkerAssumption ==
    /\ Complete \subseteq Payment
    /\ MemoOf \in [Payment -> Campaign \cup {None}]
    /\ None \notin Campaign
    /\ IsFiniteSet(Payment) /\ IsFiniteSet(Asset)
    /\ AssetOf \in [Payment -> Asset]
    /\ AmountOf \in [Payment -> Nat]
    /\ From \in [Payment -> Account] /\ To \in [Payment -> Account]
    /\ max_attempts \in Nat \ {0}
    /\ MaxDeliveries \in [Payment -> Nat]

VARIABLES
    pc,              \* where the loop is
    attempt,         \* of with_retry
    consecutive,     \* WorkerLogger::consecutive_errors
    alerted,         \* an alert was printed since the last good poll
    todo,            \* fetched, not yet looked at
    totals,          \* CampaignTotals::asset_totals
    known,           \* the campaigns that exist
    deliveries,      \* history: how often a payment was delivered ...
    counted,         \* ... and added to a total
    streak           \* history: polls failed in a row, up to 3

logger == <<consecutive, alerted>>

payments == <<todo, totals, deliveries, counted>>

vars == <<pc, attempt, logger, payments, known, streak>>

-----------------------------------------------------------------------------
(***************************************************************************)
(* Faulty variants, named F_...: each breaks a property below.  The        *)
(* specification uses none of them.                                        *)
(***************************************************************************)
F_ErrorsAfter(level, n) == IF level = "Error" THEN n + 1 ELSE n

F_NoProgress(n) == n

F_IncrementCampaign(sums, p) ==
    [sums EXCEPT ![MemoOf[p]] = [a \in Asset |-> @[a] + AmountOf[p]]]

-----------------------------------------------------------------------------
Least(m, n) == IF m < n THEN m ELSE n

\* WorkerLogger::log, as far as the health of the worker goes.
ErrorsAfter(level, n) == IF level = "Error" THEN n + 1 ELSE 0

Healthy(n) == n = 0

HealthStatus(n) ==
    IF n = 0 THEN "Healthy" ELSE IF n <= 2 THEN "Degraded" ELSE "Failed"

\* The loop's records of a failed poll: the error, and how healthy that leaves
\* the worker.
ErrorsAfterFailure(n) ==
    LET failed == ErrorsAfter("Error", n)
    IN  IF Healthy(failed) THEN failed ELSE ErrorsAfter("Warn", failed)

MoreAttempts(n) == n + 1 < max_attempts

NextAttempt(n) == n + 1

\* filter_by_recipient, and parse_payment before it.
Kept(p) == p \in Complete /\ From[p] # account

Matches(p) == MemoOf[p] \in known

\* CampaignTotals::increment, and the total over a campaign's assets.
Increment(sums, p) ==
    [sums EXCEPT ![MemoOf[p]][AssetOf[p]] = @ + AmountOf[p]]

CampaignTotal(c) == SumFunction(totals[c])

-----------------------------------------------------------------------------
Init ==
    /\ pc = "fetch"
    /\ attempt = 0
    /\ consecutive = 0 /\ alerted = FALSE
    /\ todo = {}
    /\ totals = [c \in Campaign |-> [a \in Asset |-> 0]]
    /\ known = {}
    /\ deliveries = [p \in Payment |-> 0]
    /\ counted = [p \in Payment |-> 0]
    /\ streak = 0

\* One call of the operation that with_retry was given.
FetchOk(batch) ==
    /\ pc = "fetch"
    /\ \A p \in batch : deliveries[p] < MaxDeliveries[p]
    /\ pc' = "match"
    /\ todo' = batch
    /\ deliveries' = [p \in Payment |->
                        deliveries[p] + (IF p \in batch THEN 1 ELSE 0)]
    /\ UNCHANGED <<attempt, logger, totals, counted, known, streak>>

FetchFails ==
    /\ pc = "fetch"
    /\ pc' = IF MoreAttempts(attempt) THEN "delay" ELSE "failed"
    /\ UNCHANGED <<attempt, logger, payments, known, streak>>

\* The delay before the next attempt, twice as long each time.
Delay ==
    /\ pc = "delay"
    /\ pc' = "fetch"
    /\ attempt' = NextAttempt(attempt)
    /\ UNCHANGED <<logger, payments, known, streak>>

Count(p) ==
    /\ totals' = Increment(totals, p)
    /\ counted' = [counted EXCEPT ![p] = @ + 1]

\* A payment that is not kept is forgotten without a trace, and one that matches
\* no campaign is only logged.
Match(p) ==
    /\ pc = "match"
    /\ p \in todo
    /\ todo' = todo \ {p}
    /\ \/ Kept(p) /\ Matches(p) /\ Count(p)
       \/ ~(Kept(p) /\ Matches(p)) /\ UNCHANGED <<totals, counted>>
    /\ UNCHANGED <<pc, attempt, logger, deliveries, known, streak>>

\* The task returns Ok.
PollSucceeds ==
    /\ pc = "match"
    /\ todo = {}
    /\ pc' = "sleep"
    /\ consecutive' = ErrorsAfter("Info", consecutive)
    /\ alerted' = FALSE
    /\ streak' = 0
    /\ UNCHANGED <<attempt, payments, known>>

\* The task returns Err: two records, an alert from the third error on.
PollFails ==
    /\ pc = "failed"
    /\ pc' = "sleep"
    /\ consecutive' = ErrorsAfterFailure(consecutive)
    /\ alerted' = (alerted \/ HealthStatus(ErrorsAfter("Error", consecutive)) = "Failed")
    /\ streak' = Least(streak + 1, 3)
    /\ UNCHANGED <<attempt, payments, known>>

Sleep ==
    /\ pc = "sleep"
    /\ pc' = "fetch"
    /\ attempt' = 0
    /\ UNCHANGED <<logger, payments, known, streak>>

\* The rest of the platform: a campaign begins to exist.
NewCampaign(c) ==
    /\ c \notin known
    /\ known' = known \cup {c}
    /\ UNCHANGED <<pc, attempt, logger, payments, streak>>

Fetch == FetchFails \/ \E batch \in SUBSET Payment : FetchOk(batch)

Work ==
    \/ Fetch
    \/ Delay
    \/ \E p \in Payment : Match(p)
    \/ PollSucceeds
    \/ PollFails
    \/ Sleep

Next == Work \/ \E c \in Campaign : NewCampaign(c)

\* The loop's thread runs, and a call of the operation returns.  Whether it
\* returns Ok, and whether campaigns appear, is left open.
Spec == Init /\ [][Next]_vars /\ WF_vars(Work)

-----------------------------------------------------------------------------
(***************************************************************************)
(* Properties.                                                             *)
(***************************************************************************)

\* Whatever failed before, every poll starts with a logger that calls the
\* worker healthy: the warning about a bad state ends that state, so errors
\* are never seen to be consecutive.
HealthyAtEveryPoll == pc = "fetch" /\ attempt = 0 => consecutive = 0

\* A campaign's total is what its counted deliveries were worth, asset by asset
\* and in all; a payment is counted at most as often as it was delivered, which
\* may be more than once.
TotalsMatchDeliveries ==
    /\ \A p \in Payment : counted[p] <= deliveries[p]
    /\ \A c \in Campaign :
          LET worth(ps) == SumFunctionOnSet(
                              [p \in Payment |-> counted[p] * AmountOf[p]], ps)
              of(a) == {p \in Payment : MemoOf[p] = c /\ AssetOf[p] = a}
          IN  /\ \A a \in Asset : totals[c][a] = worth(of(a))
              /\ CampaignTotal(c) = worth({p \in Payment : MemoOf[p] = c})

\* A poll ends, one way or the other, again and again: no run of failures keeps
\* with_retry going for ever.
PollsForever == []<>(pc = "sleep")

-----------------------------------------------------------------------------
(***************************************************************************)
(* What a comment of the code says and the code does not do.               *)
(***************************************************************************)

\* polling_scheduler.rs, run_polling_loop: alerts on consecutive failures,
\* which worker_logger.rs counts up to three.
AlertsOnConsecutiveFailures == streak >= 3 => alerted

=============================================================================
