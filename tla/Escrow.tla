------------------------------- MODULE Escrow -------------------------------
(***************************************************************************)
(* What a campaign promises its donors and its beneficiaries, without      *)
(* tokens, deadlines or administrators: pledges are taken only while it    *)
(* is open, a step is released at most once and only when the pledges have *)
(* reached its target, and each donor is paid back at most once, only      *)
(* after it closed, and after a regular end only if nothing was released.  *)
(***************************************************************************)
EXTENDS Integers, Functions

CONSTANTS Donor, Amount

VARIABLES
    phase,           \* "none", "open", "ended" or "cancelled"
    target,          \* the targets of the steps, fixed when the campaign opens
    pledged,         \* by donor
    released,        \* the steps released
    returned         \* the donors paid back

view == <<phase, target, pledged, released, returned>>

Pledges == SumFunction(pledged)

Init ==
    /\ phase = "none"
    /\ target = << >>
    /\ pledged = [d \in Donor |-> 0]
    /\ released = {}
    /\ returned = {}

\* The targets are whatever the campaign opens with.
Open ==
    /\ phase = "none"
    /\ phase' = "open"
    /\ UNCHANGED <<pledged, released, returned>>

Pledge(d, amount) ==
    /\ phase = "open"
    /\ amount > 0
    /\ pledged' = [pledged EXCEPT ![d] = @ + amount]
    /\ UNCHANGED <<phase, target, released, returned>>

Close ==
    /\ \/ phase = "open" /\ phase' \in {"ended", "cancelled"}
       \/ phase = "ended" /\ phase' = "cancelled"
    /\ UNCHANGED <<target, pledged, released, returned>>

Release(i) ==
    /\ phase # "none"
    /\ i \notin released
    /\ target[i] <= Pledges
    /\ released' = released \cup {i}
    /\ UNCHANGED <<phase, target, pledged, returned>>

Return(d) ==
    /\ phase = "cancelled" \/ (phase = "ended" /\ released = {})
    /\ d \notin returned
    /\ pledged[d] > 0
    /\ returned' = returned \cup {d}
    /\ UNCHANGED <<phase, target, pledged, released>>

Next ==
    \/ Open
    \/ \E d \in Donor, amount \in Amount : Pledge(d, amount)
    \/ Close
    \/ \E i \in DOMAIN target : Release(i)
    \/ \E d \in Donor : Return(d)

Spec == Init /\ [][Next]_view

=============================================================================
