-------------------------- MODULE StreamRingBuffer --------------------------
(***************************************************************************)
(* stream_ring_buffer: the audio thread writes blocks of frames, the main  *)
(* thread consumes everything that is there.  One cell more than the       *)
(* capacity is allocated, so that equal indices mean empty.  All channels  *)
(* share the indices: a frame is one number, its place in the order of the *)
(* accepted frames; a cell holds 0 while it is being assigned.             *)
(*                                                                         *)
(* write and consume load both indices first; copying takes time, and only *)
(* then the index is stored.  Every interleaving of the two is possible.   *)
(***************************************************************************)
EXTENDS Integers, Sequences

CONSTANTS
    capacity,       \* frames per channel asked for, capacity_per_channel
    BlockSizes,     \* the sizes of the blocks that are written
    SizeMax,        \* largest value of std::size_t
    MaxFrames       \* bound on the accepted frames

ASSUME SizesAssumption ==
    /\ capacity \in Nat \ {0}
    /\ BlockSizes \subseteq Nat \ {0}
    /\ SizeMax \in Nat
    /\ MaxFrames \in Nat
    /\ 2 * capacity + 2 <= SizeMax

m_capacity_per_channel == capacity + 1
Cells == 0 .. capacity

VARIABLES
    m_write_index, m_read_index,
    m_buffer,           \* [Cells -> frame number]
    writer,             \* "idle" or "copying"
    write_size,         \* frames of the write under way
    reader,             \* "idle", "loaded" or "copied"
    seen_write_index,   \* m_write_index as consume loaded it
    block,              \* the frames that consume copied
    accepted,           \* number of frames accepted
    delivered           \* number of frames delivered

writerVars == <<m_write_index, writer, write_size, accepted>>
readerVars == <<m_read_index, reader, seen_write_index, block, delivered>>
ringVars == <<m_buffer, writerVars, readerVars>>

\* Unsigned arithmetic: one wrap around is all that two sizes can cause.
ToSize(x) ==
    IF x < 0 THEN x + SizeMax + 1
    ELSE IF x > SizeMax THEN x - (SizeMax + 1) ELSE x

\* write_available that does not look at the reader.
WriteAvailableBlind(write_index, read_index, max_size) == max_size - 1

WriteAvailable(write_index, read_index, max_size) ==
    LET avail == ToSize(read_index - write_index - 1)
    IN  IF write_index >= read_index THEN ToSize(avail + max_size) ELSE avail

\* The i-th cell from index on, and the index n cells further.
CellAt(index, i) ==
    IF index + i < m_capacity_per_channel THEN index + i
    ELSE index + i - m_capacity_per_channel

Advanced(index, n) ==
    IF index + n > m_capacity_per_channel
    THEN index + n - m_capacity_per_channel
    ELSE IF index + n = m_capacity_per_channel THEN 0 ELSE index + n

SmallerOf(x, y) == IF x <= y THEN x ELSE y

RingInit ==
    /\ m_write_index = 0 /\ m_read_index = 0
    /\ m_buffer = [c \in Cells |-> 0]
    /\ writer = "idle" /\ write_size = 0
    /\ reader = "idle" /\ seen_write_index = 0 /\ block = <<>>
    /\ accepted = 0 /\ delivered = 0

-----------------------------------------------------------------------------
Available == WriteAvailable(m_write_index, m_read_index, m_capacity_per_channel)

\* The cells of n frames from index on.
Span(index, n) == {CellAt(index, i) : i \in 0 .. n - 1}

\* write with room for at least one frame; without, it returns at once.
WriteBegin ==
    /\ writer = "idle"
    /\ Available # 0
    /\ \E size \in BlockSizes :
        LET n == SmallerOf(size, Available) IN
        /\ accepted + n <= MaxFrames
        /\ write_size' = n
        /\ m_buffer' = [c \in Cells |->
             IF c \in Span(m_write_index, n) THEN 0 ELSE m_buffer[c]]
    /\ writer' = "copying"
    /\ UNCHANGED <<m_write_index, accepted, readerVars>>

\* The copy, in two parts when it passes the end of the buffer, is complete
\* and the index is stored.
WriteEnd ==
    /\ writer = "copying"
    /\ m_buffer' = [c \in Cells |->
         IF c \in Span(m_write_index, write_size)
         THEN accepted + 1 +
              (IF c >= m_write_index THEN c - m_write_index
               ELSE c + m_capacity_per_channel - m_write_index)
         ELSE m_buffer[c]]
    /\ m_write_index' = Advanced(m_write_index, write_size)
    /\ accepted' = accepted + write_size
    /\ writer' = "idle"
    /\ UNCHANGED <<write_size, readerVars>>

-----------------------------------------------------------------------------
\* consume with something to read; without, it returns at once.
ConsumeBegin ==
    /\ reader = "idle"
    /\ m_write_index # m_read_index
    /\ seen_write_index' = m_write_index
    /\ reader' = "loaded"
    /\ UNCHANGED <<m_buffer, writerVars, m_read_index, block, delivered>>

FramesToConsume ==
    IF seen_write_index < m_read_index
    THEN m_capacity_per_channel - m_read_index + seen_write_index
    ELSE seen_write_index - m_read_index

ConsumeCopy ==
    /\ reader = "loaded"
    /\ block' = [i \in 1 .. FramesToConsume |->
                   m_buffer[CellAt(m_read_index, i - 1)]]
    /\ reader' = "copied"
    /\ UNCHANGED <<m_buffer, writerVars, m_read_index, seen_write_index,
                   delivered>>

\* A consume that stores the index as it is now.
ConsumeEndReload ==
    /\ reader = "copied"
    /\ m_read_index' = m_write_index
    /\ delivered' = delivered + Len(block)
    /\ block' = <<>>
    /\ reader' = "idle"
    /\ UNCHANGED <<m_buffer, writerVars, seen_write_index>>

ConsumeEnd ==
    /\ reader = "copied"
    /\ m_read_index' = seen_write_index
    /\ delivered' = delivered + Len(block)
    /\ block' = <<>>
    /\ reader' = "idle"
    /\ UNCHANGED <<m_buffer, writerVars, seen_write_index>>

-----------------------------------------------------------------------------
Write == WriteBegin \/ WriteEnd
Consume == ConsumeBegin \/ ConsumeCopy \/ ConsumeEnd
RingNext == Write \/ Consume

RingSpec == RingInit /\ [][RingNext]_ringVars

\* A block that was begun is finished, and the main thread keeps consuming.
RingFairSpec == RingSpec /\ WF_ringVars(WriteEnd) /\ WF_ringVars(Consume)

-----------------------------------------------------------------------------
\* The ring buffer is a bounded first-in first-out queue: no frame is lost
\* once it was accepted, at most capacity frames are in it, and what consume
\* hands out is the next frames, in order, without a gap, a repetition or a
\* half written frame.
Queue == INSTANCE FrameQueue WITH Capacity <- capacity
ImplementsFrameQueue == Queue!Spec

\* Every accepted frame is delivered.
EveryFrameDelivered ==
    \A k \in 1 .. MaxFrames : (accepted >= k) ~> (delivered >= k)
=============================================================================
