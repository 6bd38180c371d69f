---------------------------- MODULE LatestValue ----------------------------
(***************************************************************************)
(* What a single-producer single-consumer slot promises: the producer      *)
(* publishes numbered values, the consumer receives the newest published   *)
(* value at most once, and values that were overtaken are dropped.         *)
(***************************************************************************)
EXTENDS Naturals

VARIABLES
    published,          \* number of the newest published value, 0 for none
    pending,            \* TRUE when that value was not received yet
    received            \* number of the newest value received, 0 for none

vars == <<published, pending, received>>

Init ==
    /\ published = 0
    /\ pending = FALSE
    /\ received = 0

Publish ==
    /\ published' = published + 1
    /\ pending' = TRUE
    /\ UNCHANGED received

Receive ==
    /\ pending
    /\ pending' = FALSE
    /\ received' = published
    /\ UNCHANGED published

Next == Publish \/ Receive

Spec == Init /\ [][Next]_vars
=============================================================================
