----------------------------- MODULE Withdrawals -----------------------------
(***************************************************************************)
(* What the platform promises about money that leaves a campaign: one      *)
(* request at a time, asked for within what was earned and not yet paid,   *)
(* granted once, and confirmed before the next one is asked for.           *)
(***************************************************************************)
EXTENDS Integers

CONSTANTS Campaigns, Amount, Recipient, NoRequest

VARIABLES
    earned,          \* by campaign
    paid,            \* by campaign
    asked,           \* the open request of a campaign
    granted          \* the campaigns whose open request has been granted

view == <<earned, paid, asked, granted>>

Init ==
    /\ earned = [c \in Campaigns |-> 0]
    /\ paid = [c \in Campaigns |-> 0]
    /\ asked = [c \in Campaigns |-> NoRequest]
    /\ granted = {}

Earn(c) ==
    /\ earned'[c] > earned[c]
    /\ earned' = [earned EXCEPT ![c] = earned'[c]]
    /\ UNCHANGED <<paid, asked, granted>>

Ask(c, amount, recipient) ==
    /\ asked[c] = NoRequest
    /\ 0 < amount /\ amount <= earned[c] - paid[c]
    /\ asked' = [asked EXCEPT ![c] = [amount |-> amount, to |-> recipient]]
    /\ UNCHANGED <<earned, paid, granted>>

Grant(c) ==
    /\ asked[c] # NoRequest
    /\ c \notin granted
    /\ asked[c].amount <= earned[c] - paid[c]
    /\ paid' = [paid EXCEPT ![c] = @ + asked[c].amount]
    /\ granted' = granted \cup {c}
    /\ UNCHANGED <<earned, asked>>

Confirm(c) ==
    /\ c \in granted
    /\ asked' = [asked EXCEPT ![c] = NoRequest]
    /\ granted' = granted \ {c}
    /\ UNCHANGED <<earned, paid>>

Next == \E c \in Campaigns :
    \/ Earn(c)
    \/ \E amount \in Amount, recipient \in Recipient : Ask(c, amount, recipient)
    \/ Grant(c)
    \/ Confirm(c)

Spec == Init /\ [][Next]_view

=============================================================================
