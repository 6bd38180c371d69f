------------------------------ MODULE WorkerMC ------------------------------
(***************************************************************************)
(* Model checking of Worker with enough wakeups for a lost or repeated     *)
(* task to be seen before, between and after others.  And, as the other    *)
(* subjects of the run: StreamRingBuffer, with blocks below, at and above  *)
(* the capacity and enough frames for the indices to wrap several times;   *)
(* and ChannelStrips.                                                      *)
(***************************************************************************)
EXTENDS Worker, StreamRingBuffer, ChannelStrips

-----------------------------------------------------------------------------
(***************************************************************************)
(* ChannelStrips with a main channel, up to two others and up to three     *)
(* buses, for three actions after the first start, or after a session with *)
(* all of them.  A bus can be renamed to what a deleted bus was called.    *)
(***************************************************************************)

CONSTANTS c1, c2, b1, b2, b3

MCUserName == {<<"In", 1, "mono">>, <<"Speaker", 1>>}
MCLoaded == [channels |-> <<c1, c2>>, buses |-> <<b1, b2, b3>>]

StripParked == FirstInit

-----------------------------------------------------------------------------
VARIABLE subject    \* which of them is run; the others rest

mcVars == <<subject, workerVars, ringVars, vars, stripVars, steps>>

MCInit ==
    /\ WorkerInit /\ RingInit
    /\ \/ subject \in {"worker", "ring"} /\ StripParked
       \/ subject = "strips" /\ StripInit

MCNext ==
    /\ UNCHANGED subject
    /\ \/ subject = "worker" /\ WorkerNext /\ UNCHANGED <<ringVars, vars, stripVars, steps>>
       \/ subject = "ring" /\ RingNext /\ UNCHANGED <<workerVars, vars, stripVars, steps>>
       \/ subject = "strips" /\ StripNext /\ UNCHANGED <<workerVars, ringVars>>

\* The thread and an owner inside a call keep running; the owner is free to
\* call, or not, once it is idle.  A block whose writing was begun is finished,
\* and the main thread keeps consuming.
MCFairSpec ==
    /\ MCInit /\ [][MCNext]_mcVars
    /\ WF_workerVars(WorkerThread)
    /\ WF_workerVars(owner # "idle" /\ (Wakeup \/ Destroy))
    /\ WF_ringVars(WriteEnd) /\ WF_ringVars(Consume)
=============================================================================
