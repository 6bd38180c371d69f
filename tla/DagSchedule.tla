---------------------------- MODULE DagSchedule ----------------------------
(***************************************************************************)
(* What every executor of a task graph promises: in each cycle each task   *)
(* runs exactly once, after all its parents, and a cycle only follows a    *)
(* completed one.                                                          *)
(***************************************************************************)
EXTENDS Naturals

CONSTANTS Node, Children        \* the tasks and [Node -> SUBSET Node]

VARIABLES
    cycle,                      \* number of the current cycle, 0 for none
    finished                    \* the tasks that ran in it

vars == <<cycle, finished>>

Parents(n) == {p \in Node : n \in Children[p]}

Init == cycle = 0 /\ finished = Node

StartCycle ==
    /\ finished = Node
    /\ cycle' = cycle + 1
    /\ finished' = {}

Run(n) ==
    /\ n \notin finished
    /\ Parents(n) \subseteq finished
    /\ finished' = finished \union {n}
    /\ UNCHANGED cycle

Next == StartCycle \/ \E n \in Node : Run(n)

Spec == Init /\ [][Next]_vars
=============================================================================
