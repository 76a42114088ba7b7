--------------------------- MODULE OneShotAction ---------------------------
(***************************************************************************)
(* What the two-step action protocol promises to the player: a confirmed   *)
(* plan is handed to EVE at most once, and a plan that has been given up   *)
(* (refused, expired, removed) is never handed over afterwards.  Nothing   *)
(* is said about processes, leases, storage or time.                       *)
(***************************************************************************)
EXTENDS Naturals

CONSTANT Plans          \* identifiers of action plans

VARIABLES
    transmitted,        \* transmitted[p]: requests EVE was sent for p
    closed              \* plans that will never be transmitted (again)

vars == <<transmitted, closed>>

TypeOK ==
    /\ transmitted \in [Plans -> 0..1]
    /\ closed \subseteq Plans

Init ==
    /\ transmitted = [p \in Plans |-> 0]
    /\ closed = {}

\* The single transmission of p: it closes p in the same step.
Transmit(p) ==
    /\ p \notin closed
    /\ transmitted[p] = 0
    /\ transmitted' = [transmitted EXCEPT ![p] = 1]
    /\ closed' = closed \cup {p}

\* Some plans are given up together: one expiry statement or one character
\* removal ends any number of them.
GiveUp ==
    /\ closed' \in SUBSET Plans
    /\ closed \subseteq closed'
    /\ UNCHANGED transmitted

Next == (\E p \in Plans : Transmit(p)) \/ GiveUp

Spec == Init /\ [][Next]_vars

=============================================================================
