------------------------------ MODULE SpscSlot ------------------------------
(***************************************************************************)
(* piejam::thread::spsc_slot: a lock-free slot of three cells that hands   *)
(* the newest value of one producer thread to one consumer thread.  The    *)
(* producer owns cell m_write, the consumer owns cell m_read, and the      *)
(* third cell is parked in the atomic m_swap_pos, whose mark bit (0b100)   *)
(* says that it holds a value the consumer has not seen.                   *)
(*                                                                         *)
(* Values are the numbers of the pushes.  A cell holds 0 while no whole    *)
(* value is in it: never assigned, or an assignment is under way.  The     *)
(* relaxed load of consume may be late; being late is loading earlier.     *)
(***************************************************************************)
EXTENDS Naturals

CONSTANT MaxPushes      \* bound on the number of pushes

ASSUME MaxPushesAssumption == MaxPushes \in Nat

Cells == 0 .. 2

VARIABLES
    m_swap_pos,         \* [pos |-> cell, marked |-> BOOLEAN]
    m_read, m_write,    \* the cells of the consumer and of the producer
    m_store,            \* value of every cell
    pushing,            \* the producer's place: "idle", "assigning", "commit"
    consuming,          \* the consumer's place: "idle", "exchange", "invoke"
    committed,          \* number of pushes whose commit is done
    consumed            \* last value handed to the consumer's callback

vars == <<m_swap_pos, m_read, m_write, m_store, pushing, consuming,
          committed, consumed>>

producerVars == <<m_write, pushing, committed>>
consumerVars == <<m_read, consuming, consumed>>

Init ==
    /\ m_swap_pos = [pos |-> 1, marked |-> FALSE]
    /\ m_read = 0
    /\ m_write = 2
    /\ m_store = [c \in Cells |-> 0]
    /\ pushing = "idle"
    /\ consuming = "idle"
    /\ committed = 0
    /\ consumed = 0

-----------------------------------------------------------------------------
\* The producer: push assigns the value, which takes time, then commits.

PushBegin ==
    /\ pushing = "idle"
    /\ committed < MaxPushes
    /\ m_store' = [m_store EXCEPT ![m_write] = 0]
    /\ pushing' = "assigning"
    /\ UNCHANGED <<m_swap_pos, m_write, committed, consumerVars>>

PushEnd ==
    /\ pushing = "assigning"
    /\ m_store' = [m_store EXCEPT ![m_write] = committed + 1]
    /\ pushing' = "commit"
    /\ UNCHANGED <<m_swap_pos, m_write, committed, consumerVars>>

\* A commit that forgets to mark the parked cell.
CommitUnmarked ==
    /\ pushing = "commit"
    /\ m_write' = m_swap_pos.pos
    /\ m_swap_pos' = [m_swap_pos EXCEPT !.pos = m_write]
    /\ committed' = committed + 1
    /\ pushing' = "idle"
    /\ UNCHANGED <<m_store, consumerVars>>

Commit ==
    /\ pushing = "commit"
    /\ m_write' = m_swap_pos.pos
    /\ m_swap_pos' = [pos |-> m_write, marked |-> TRUE]
    /\ committed' = committed + 1
    /\ pushing' = "idle"
    /\ UNCHANGED <<m_store, consumerVars>>

-----------------------------------------------------------------------------
\* The consumer: the load of the mark, the exchange and the callback are
\* three steps.

ConsumeLoad ==
    /\ consuming = "idle"
    /\ m_swap_pos.marked
    /\ consuming' = "exchange"
    /\ UNCHANGED <<m_swap_pos, m_store, m_read, consumed, producerVars>>

\* A consumer that stores the old mark back with m_read.
ConsumeExchangeKeepsMark ==
    /\ consuming = "exchange"
    /\ m_read' = m_swap_pos.pos
    /\ m_swap_pos' = [m_swap_pos EXCEPT !.pos = m_read]
    /\ consuming' = "invoke"
    /\ UNCHANGED <<m_store, consumed, producerVars>>

\* A consumer that reads the parked cell in place and clears the mark.
ConsumeExchangeInPlace ==
    /\ consuming = "exchange"
    /\ m_read' = m_swap_pos.pos
    /\ m_swap_pos' = [m_swap_pos EXCEPT !.marked = FALSE]
    /\ consuming' = "invoke"
    /\ UNCHANGED <<m_store, consumed, producerVars>>

\* The exchange stores m_read, a plain position: the mark is gone.
ConsumeExchange ==
    /\ consuming = "exchange"
    /\ m_read' = m_swap_pos.pos
    /\ m_swap_pos' = [pos |-> m_read, marked |-> FALSE]
    /\ consuming' = "invoke"
    /\ UNCHANGED <<m_store, consumed, producerVars>>

ConsumeInvoke ==
    /\ consuming = "invoke"
    /\ consumed' = m_store[m_read]
    /\ consuming' = "idle"
    /\ UNCHANGED <<m_swap_pos, m_store, m_read, producerVars>>

-----------------------------------------------------------------------------
Push == PushBegin \/ PushEnd \/ Commit
Consume == ConsumeLoad \/ ConsumeExchange \/ ConsumeInvoke
Next == Push \/ Consume

Spec == Init /\ [][Next]_vars

\* The consumer is polled for ever: once per audio period, or once per timer
\* tick of the user interface.  The producer owes nothing.
FairSpec == Spec /\ WF_vars(Consume)

-----------------------------------------------------------------------------
\* The type of each variable; the positions stay on the three cells.
TypeOK ==
    /\ m_swap_pos \in [pos : Cells, marked : BOOLEAN]
    /\ m_read \in Cells
    /\ m_write \in Cells
    /\ m_store \in [Cells -> Nat]
    /\ pushing \in {"idle", "assigning", "commit"}
    /\ consuming \in {"idle", "exchange", "invoke"}
    /\ committed \in 0 .. MaxPushes
    /\ consumed \in Nat

\* The three positions are always three different cells, so producer and
\* consumer never touch the same cell (the exchanges hand cells over whole).
CellsAreOwned ==
    /\ m_read # m_write
    /\ m_read # m_swap_pos.pos
    /\ m_write # m_swap_pos.pos

\* The callback of consume sees a whole value: never a half assigned cell and
\* never a cell that nothing was pushed to.
NoTornRead == consuming = "invoke" => m_store[m_read] # 0

\* The mark seen by the load of consume is still there at the exchange: a
\* second push in between keeps it and only the consumer removes it.
MarkSurvives == consuming = "exchange" => m_swap_pos.marked

\* A marked parked cell holds the newest committed value.
ParkedIsNewest ==
    m_swap_pos.marked => m_store[m_swap_pos.pos] = committed

\* Without a mark the consumer has taken the newest value.
TakenIsNewest ==
    ~m_swap_pos.marked =>
        IF consuming = "invoke"
        THEN m_store[m_read] = committed
        ELSE consumed = committed

\* The value in the consumer's hands, or the last one it received.
Taken == IF consuming = "invoke" THEN m_store[m_read] ELSE consumed

\* consume delivers exactly what the abstract slot delivers: the newest value,
\* at most once, never an older one after a newer one.
Abstract == INSTANCE LatestValue
    WITH published <- committed, pending <- m_swap_pos.marked,
         received <- Taken
ImplementsLatestValue == Abstract!Spec

\* A committed value, or a newer one, reaches the consumer's callback.
EveryPushIsSuperseded ==
    \A k \in 1 .. MaxPushes : (committed >= k) ~> (consumed >= k)
=============================================================================
