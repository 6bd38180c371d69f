------------------------------ MODULE Handoff ------------------------------
(***************************************************************************)
(* What a worker thread promises its owner: tasks are handed over one at a *)
(* time, each one runs to its end before the next is accepted, and a       *)
(* worker is only stopped between two tasks.                               *)
(***************************************************************************)
EXTENDS Naturals

VARIABLES
    phase,      \* "parked", "busy" or "stopped"
    accepted,   \* number of tasks handed over
    completed   \* number of tasks that ran to their end

vars == <<phase, accepted, completed>>

Init == phase = "parked" /\ accepted = 0 /\ completed = 0

Accept ==
    /\ phase = "parked"
    /\ phase' = "busy"
    /\ accepted' = accepted + 1
    /\ UNCHANGED completed

Complete ==
    /\ phase = "busy"
    /\ phase' = "parked"
    /\ completed' = accepted
    /\ accepted = completed + 1
    /\ UNCHANGED accepted

Stop ==
    /\ phase = "parked"
    /\ phase' = "stopped"
    /\ UNCHANGED <<accepted, completed>>

Next == Accept \/ Complete \/ Stop

Spec == Init /\ [][Next]_vars
=============================================================================
