---------------------------- MODULE FrameQueue ----------------------------
(***************************************************************************)
(* What a bounded stream of audio frames promises: frames are accepted in  *)
(* order while there is room, the ones that do not fit are dropped by the  *)
(* writer, and the accepted ones are taken and delivered in order, each    *)
(* once.  Accepted frames are numbered.                                    *)
(***************************************************************************)
EXTENDS Integers, Sequences

CONSTANT Capacity

VARIABLES
    accepted, delivered,    \* how many frames
    block                   \* the frames that were taken to be delivered

vars == <<accepted, delivered, block>>

Init == accepted = 0 /\ delivered = 0 /\ block = <<>>

Accept ==
    \E n \in 1 .. Capacity :
        /\ accepted + n - delivered <= Capacity
        /\ accepted' = accepted + n
        /\ UNCHANGED <<delivered, block>>

\* The next frames are taken.
Take ==
    \E n \in 1 .. Capacity :
        /\ block = <<>>
        /\ delivered + n <= accepted
        /\ block' = [i \in 1 .. n |-> delivered + i]
        /\ UNCHANGED <<accepted, delivered>>

Deliver ==
    /\ block # <<>>
    /\ delivered' = delivered + Len(block)
    /\ block' = <<>>
    /\ UNCHANGED accepted

Next == Accept \/ Take \/ Deliver

Spec == Init /\ [][Next]_vars
=============================================================================
