------------------------ MODULE StreamRingBufferProofs ------------------------
(***************************************************************************)
(* For every capacity, every set of block sizes and every std::size_t that *)
(* holds twice the capacity, the ring buffer implements FrameQueue: no     *)
(* interleaving of a write and a consume loses, repeats or tears a frame.  *)
(*                                                                         *)
(* The indices do not tell how full the buffer is, their distance does:    *)
(* the invariant says that the writer is as far ahead of the reader as     *)
(* frames were accepted and not delivered, and that the cells in between   *)
(* hold these frames, in order.                                            *)
(*                                                                         *)
(* And, for any channels, any capacity of the rings and any number of      *)
(* takes and restarts, the takes that Recorder makes of such streams are   *)
(* whole; and, for any windows and chunks, the spectra that SpectrumView   *)
(* shows of them are of one moment.                                        *)
(***************************************************************************)
EXTENDS StreamRingBuffer, Recorder, SpectrumView, SequenceTheorems, WellFoundedInduction, TLAPS

Held == accepted - delivered

TypeOK ==
    /\ m_write_index \in Cells /\ m_read_index \in Cells
    /\ m_buffer \in [Cells -> Int]
    /\ writer \in {"idle", "copying"}
    /\ write_size \in Nat
    /\ reader \in {"idle", "loaded", "copied"}
    /\ seen_write_index \in Cells
    /\ accepted \in Nat /\ delivered \in Nat

\* The writer is ahead of the reader by what is held, at most capacity frames.
IndicesSpanHeld ==
    /\ Held \in 0 .. capacity
    /\ m_write_index = CellAt(m_read_index, Held)

\* The cells from the reader's index on hold the next frames, in order.
CellsHoldNext ==
    \A i \in 0 .. capacity :
        i < Held => m_buffer[CellAt(m_read_index, i)] = delivered + 1 + i

\* What is being written fits behind what is held.
WriteFits ==
    writer = "copying" => write_size \in Nat \ {0} /\ Held + write_size <= capacity

\* What is being read is held: the writer has only moved on since.
ReadIsHeld ==
    reader # "idle" =>
        /\ FramesToConsume \in 1 .. Held
        /\ seen_write_index = CellAt(m_read_index, FramesToConsume)

\* The frames that are copied out are the next ones.
BlockIsNext ==
    block = IF reader = "copied" THEN [i \in 1 .. FramesToConsume |-> delivered + i]
            ELSE <<>>

IInv ==
    /\ TypeOK
    /\ IndicesSpanHeld
    /\ CellsHoldNext
    /\ WriteFits
    /\ ReadIsHeld
    /\ BlockIsNext

-----------------------------------------------------------------------------
(* Arithmetic of the indices. *)

\* A cell is a cell of the buffer.
LEMMA CellAtIsCell ==
    ASSUME NEW r \in Cells, NEW i \in 0 .. capacity
    PROVE  CellAt(r, i) \in Cells
BY SizesAssumption DEF CellAt, Cells, m_capacity_per_channel

\* Within capacity + 1 cells no cell is met twice.
LEMMA CellAtIsInjective ==
    ASSUME NEW r \in Cells, NEW i \in 0 .. capacity, NEW j \in 0 .. capacity,
           CellAt(r, i) = CellAt(r, j)
    PROVE  i = j
BY SizesAssumption DEF CellAt, Cells, m_capacity_per_channel

\* Going i cells on and then j is going i + j on.
LEMMA CellAtAdds ==
    ASSUME NEW r \in Cells, NEW i \in 0 .. capacity, NEW j \in 0 .. capacity,
           i + j <= capacity
    PROVE  CellAt(CellAt(r, i), j) = CellAt(r, i + j)
BY SizesAssumption DEF CellAt, Cells, m_capacity_per_channel

\* The index that is stored after a copy is the cell behind it, wrapped or not.
LEMMA AdvancedIsCellAt ==
    ASSUME NEW r \in Cells, NEW n \in 0 .. capacity
    PROVE  Advanced(r, n) = CellAt(r, n)
BY SizesAssumption DEF Advanced, CellAt, Cells, m_capacity_per_channel

\* The two wrap-arounds of the unsigned subtraction cancel: what write_available
\* returns is the room behind n frames that are held.
LEMMA AvailableIsRoom ==
    ASSUME NEW r \in Cells, NEW n \in 0 .. capacity
    PROVE  WriteAvailable(CellAt(r, n), r, m_capacity_per_channel) = capacity - n
<1> DEFINE w == CellAt(r, n)
<1>1. capacity \in Nat /\ SizeMax \in Nat /\ 2 * capacity + 2 <= SizeMax
  BY SizesAssumption
<1>2. r \in 0 .. capacity /\ w \in 0 .. capacity
  BY CellAtIsCell DEF Cells
<1>3. CASE r + n <= capacity
  <2>1. w = r + n
    BY <1>1, <1>2, <1>3 DEF CellAt, m_capacity_per_channel
  <2>2. ToSize(r - w - 1) = r - w - 1 + SizeMax + 1
    BY <1>1, <1>2, <2>1 DEF ToSize
  <2>3. ToSize(r - w - 1 + SizeMax + 1 + (capacity + 1)) = capacity - n
    BY <1>1, <1>2, <2>1 DEF ToSize
  <2> QED
    BY <1>1, <1>2, <2>1, <2>2, <2>3 DEF WriteAvailable, m_capacity_per_channel
<1>4. CASE r + n > capacity
  <2>1. w = r + n - (capacity + 1)
    BY <1>1, <1>2, <1>4 DEF CellAt, m_capacity_per_channel
  <2>2. ToSize(r - w - 1) = r - w - 1
    BY <1>1, <1>2, <2>1 DEF ToSize
  <2> QED
    BY <1>1, <1>2, <2>1, <2>2 DEF WriteAvailable, m_capacity_per_channel
<1> QED
  BY <1>1, <1>2, <1>3, <1>4

-----------------------------------------------------------------------------
\* What consume computes from the two indices is their distance.
LEMMA FramesAreDistance ==
    ASSUME m_read_index \in Cells, NEW n \in 0 .. capacity,
           seen_write_index = CellAt(m_read_index, n)
    PROVE  FramesToConsume = n
BY SizesAssumption DEF FramesToConsume, CellAt, Cells, m_capacity_per_channel

\* The invariant holds at first.
LEMMA InitIInv == RingInit => IInv
<1> SUFFICES ASSUME RingInit PROVE IInv
  OBVIOUS
<1>1. TypeOK
  BY SizesAssumption DEF RingInit, TypeOK, Cells
<1>2. IndicesSpanHeld /\ CellsHoldNext
  BY SizesAssumption DEF RingInit, IndicesSpanHeld, CellsHoldNext, Held, CellAt, m_capacity_per_channel
<1> QED
  BY <1>1, <1>2 DEF RingInit, IInv, WriteFits, ReadIsHeld, BlockIsNext

\* A write that begins takes the cells behind what is held.
LEMMA WriteBeginIInv == IInv /\ WriteBegin => IInv' /\ UNCHANGED <<accepted, delivered, block>>
<1> SUFFICES ASSUME IInv, WriteBegin PROVE IInv' /\ UNCHANGED <<accepted, delivered, block>>
  OBVIOUS
<1>0. UNCHANGED <<m_write_index, m_read_index, reader, seen_write_index, block, accepted, delivered>>
  BY DEF WriteBegin, readerVars
<1>1. Available = capacity - Held
  BY AvailableIsRoom DEF IInv, TypeOK, IndicesSpanHeld, Available
<1>2. PICK size \in BlockSizes :
        LET n == SmallerOf(size, Available) IN
        /\ write_size' = n
        /\ m_buffer' = [c \in Cells |-> IF c \in Span(m_write_index, n) THEN 0 ELSE m_buffer[c]]
  BY DEF WriteBegin
<1> DEFINE n == SmallerOf(size, Available)
<1>3. n \in 1 .. capacity /\ Held + n <= capacity
  <2>1. size \in Nat \ {0}
    BY SizesAssumption
  <2>2. Available \in Nat \ {0}
    BY <1>1, SizesAssumption DEF WriteBegin, IInv, IndicesSpanHeld
  <2>3. Held \in Nat /\ capacity \in Nat
    BY SizesAssumption DEF IInv, IndicesSpanHeld
  <2> QED
    BY <1>1, <2>1, <2>2, <2>3 DEF SmallerOf
<1>4. TypeOK'
  BY <1>0, <1>2, <1>3, SizesAssumption DEF IInv, TypeOK, WriteBegin
<1>5. IndicesSpanHeld'
  BY <1>0 DEF IInv, IndicesSpanHeld, Held, CellAt
<1>6. CellsHoldNext'
  <2> SUFFICES ASSUME NEW i \in 0 .. capacity, i < Held
               PROVE  m_buffer'[CellAt(m_read_index, i)] = delivered + 1 + i
    BY <1>0 DEF CellsHoldNext, Held, CellAt
  <2>1. CellAt(m_read_index, i) \in Cells
    BY CellAtIsCell DEF IInv, TypeOK
  <2>2. CellAt(m_read_index, i) \notin Span(m_write_index, n)
    <3> SUFFICES ASSUME NEW j \in 0 .. n - 1,
                        CellAt(m_read_index, i) = CellAt(m_write_index, j)
                 PROVE  FALSE
      BY DEF Span
    <3>1. j \in 0 .. capacity /\ Held \in 0 .. capacity /\ Held + j \in 0 .. capacity
      BY <1>3, SizesAssumption DEF IInv, IndicesSpanHeld
    <3>2. CellAt(m_write_index, j) = CellAt(m_read_index, Held + j)
      BY <3>1, CellAtAdds DEF IInv, TypeOK, IndicesSpanHeld
    <3>3. i = Held + j
      BY <3>1, <3>2, CellAtIsInjective DEF IInv, TypeOK
    <3> QED
      BY <3>1, <3>3
  <2> QED
    BY <1>2, <2>1, <2>2 DEF IInv, CellsHoldNext
<1>7. WriteFits'
  BY <1>0, <1>2, <1>3 DEF WriteFits, Held
<1>8. ReadIsHeld' /\ BlockIsNext'
  BY <1>0 DEF IInv, ReadIsHeld, BlockIsNext, FramesToConsume, Held, CellAt
<1> QED
  BY <1>0, <1>4, <1>5, <1>6, <1>7, <1>8 DEF IInv

\* A write that ends: what is held grows by what was copied behind it.
LEMMA WriteEndIInv == IInv /\ WriteEnd => IInv' /\ Queue!Accept
<1> SUFFICES ASSUME IInv, WriteEnd PROVE IInv' /\ Queue!Accept
  OBVIOUS
<1> DEFINE n == write_size
<1>0. /\ UNCHANGED <<m_read_index, reader, seen_write_index, block, delivered, write_size>>
      /\ writer = "copying" /\ writer' = "idle"
      /\ accepted' = accepted + n
  BY DEF WriteEnd, readerVars
<1>1. /\ n \in 1 .. capacity
      /\ Held \in 0 .. capacity /\ Held + n \in 0 .. capacity
      /\ accepted \in Nat /\ delivered \in Nat /\ capacity \in Nat
  BY <1>0, SizesAssumption DEF IInv, TypeOK, IndicesSpanHeld, WriteFits
<1>2. Held' = Held + n
  BY <1>0, <1>1 DEF Held
<1>3. m_write_index' = CellAt(m_read_index, Held + n)
  <2>1. m_write_index' = CellAt(m_write_index, n)
    BY <1>1, AdvancedIsCellAt DEF WriteEnd, IInv, TypeOK
  <2> QED
    BY <2>1, <1>1, CellAtAdds DEF IInv, TypeOK, IndicesSpanHeld
<1>4. IndicesSpanHeld'
  BY <1>0, <1>1, <1>2, <1>3 DEF IndicesSpanHeld, CellAt
<1>5. \A c \in Cells : m_buffer'[c] =
        IF c \in Span(m_write_index, n)
        THEN accepted + 1 +
             (IF c >= m_write_index THEN c - m_write_index
              ELSE c + m_capacity_per_channel - m_write_index)
        ELSE m_buffer[c]
  BY DEF WriteEnd
<1>6. TypeOK'
  <2>1. m_buffer' \in [Cells -> Int]
    BY SizesAssumption, <1>1 DEF WriteEnd, IInv, TypeOK, Cells, m_capacity_per_channel
  <2>2. m_write_index' \in Cells
    BY <1>1, <1>3, CellAtIsCell DEF IInv, TypeOK
  <2> QED
    BY <1>0, <1>1, <2>1, <2>2 DEF IInv, TypeOK
<1>7. CellsHoldNext'
  <2> SUFFICES ASSUME NEW i \in 0 .. capacity, i < Held + n
               PROVE  m_buffer'[CellAt(m_read_index, i)] = delivered + 1 + i
    BY <1>0, <1>2 DEF CellsHoldNext, CellAt
  <2>0. CellAt(m_read_index, i) \in Cells
    BY CellAtIsCell DEF IInv, TypeOK
  <2>1. CASE i < Held
    <3>1. CellAt(m_read_index, i) \notin Span(m_write_index, n)
      <4> SUFFICES ASSUME NEW j \in 0 .. n - 1,
                          CellAt(m_read_index, i) = CellAt(m_write_index, j)
                   PROVE  FALSE
        BY DEF Span
      <4>1. j \in 0 .. capacity /\ Held + j \in 0 .. capacity
        BY <1>1
      <4>2. CellAt(m_write_index, j) = CellAt(m_read_index, Held + j)
        BY <1>1, <4>1, CellAtAdds DEF IInv, TypeOK, IndicesSpanHeld
      <4>3. i = Held + j
        BY <4>1, <4>2, CellAtIsInjective DEF IInv, TypeOK
      <4> QED
        BY <1>1, <2>1, <4>1, <4>3
    <3> QED
      BY <1>5, <2>0, <2>1, <3>1 DEF IInv, CellsHoldNext
  <2>2. CASE i >= Held
    <3> DEFINE j == i - Held
    <3>1. j \in 0 .. n - 1 /\ j \in 0 .. capacity /\ Held + j = i
      BY <1>1, <2>2
    <3>2. CellAt(m_read_index, i) = CellAt(m_write_index, j)
      BY <1>1, <3>1, CellAtAdds DEF IInv, TypeOK, IndicesSpanHeld
    <3>3. CellAt(m_read_index, i) \in Span(m_write_index, n)
      BY <3>1, <3>2 DEF Span
    <3>4. j = IF CellAt(m_write_index, j) >= m_write_index
              THEN CellAt(m_write_index, j) - m_write_index
              ELSE CellAt(m_write_index, j) + m_capacity_per_channel - m_write_index
      BY <1>1, <3>1 DEF CellAt, IInv, TypeOK, Cells, m_capacity_per_channel
    <3>5. m_buffer'[CellAt(m_read_index, i)] = accepted + 1 + j
      BY <1>5, <2>0, <3>2, <3>3, <3>4
    <3> QED
      BY <1>1, <3>1, <3>5 DEF Held
  <2> QED
    BY <1>1, <2>1, <2>2
<1>8. WriteFits' /\ ReadIsHeld' /\ BlockIsNext'
  BY <1>0, <1>1, <1>2 DEF IInv, WriteFits, ReadIsHeld, BlockIsNext, FramesToConsume, CellAt
<1>9. Queue!Accept
  BY <1>0, <1>1 DEF Queue!Accept, Held
<1> QED
  BY <1>4, <1>6, <1>7, <1>8, <1>9 DEF IInv

\* A consume that begins sees all that is held.
LEMMA ConsumeBeginIInv == IInv /\ ConsumeBegin => IInv' /\ UNCHANGED <<accepted, delivered, block>>
<1> SUFFICES ASSUME IInv, ConsumeBegin PROVE IInv' /\ UNCHANGED <<accepted, delivered, block>>
  OBVIOUS
<1>0. /\ UNCHANGED <<m_buffer, m_write_index, writer, write_size, accepted,
                     m_read_index, block, delivered>>
      /\ seen_write_index' = m_write_index /\ reader = "idle" /\ reader' = "loaded"
  BY DEF ConsumeBegin, writerVars
<1>1. Held \in 1 .. capacity
  BY SizesAssumption DEF ConsumeBegin, IInv, TypeOK, IndicesSpanHeld, CellAt, Cells, m_capacity_per_channel
<1>2. FramesToConsume' = Held
  BY <1>0, <1>1, SizesAssumption
     DEF IInv, TypeOK, IndicesSpanHeld, FramesToConsume, CellAt, Cells, m_capacity_per_channel
<1>3. TypeOK' /\ IndicesSpanHeld' /\ CellsHoldNext' /\ WriteFits'
  BY <1>0 DEF IInv, TypeOK, IndicesSpanHeld, CellsHoldNext, WriteFits, Held, CellAt
<1>4. ReadIsHeld'
  BY <1>0, <1>1, <1>2 DEF ReadIsHeld, IInv, IndicesSpanHeld, Held, CellAt
<1>5. BlockIsNext'
  BY <1>0 DEF IInv, BlockIsNext
<1> QED
  BY <1>0, <1>3, <1>4, <1>5 DEF IInv

\* What is copied are the next frames.
LEMMA ConsumeCopyIInv == IInv /\ ConsumeCopy => IInv' /\ Queue!Take
<1> SUFFICES ASSUME IInv, ConsumeCopy PROVE IInv' /\ Queue!Take
  OBVIOUS
<1> DEFINE n == FramesToConsume
<1>0. /\ UNCHANGED <<m_buffer, m_write_index, writer, write_size, accepted,
                     m_read_index, seen_write_index, delivered>>
      /\ reader = "loaded" /\ reader' = "copied"
      /\ block' = [i \in 1 .. n |-> m_buffer[CellAt(m_read_index, i - 1)]]
  BY DEF ConsumeCopy, writerVars
<1>1. n \in 1 .. Held /\ Held \in 0 .. capacity /\ capacity \in Nat
      /\ accepted \in Nat /\ delivered \in Nat
  BY <1>0, SizesAssumption DEF IInv, TypeOK, IndicesSpanHeld, ReadIsHeld
<1>2. ASSUME NEW i \in 1 .. n PROVE m_buffer[CellAt(m_read_index, i - 1)] = delivered + i
  <2>1. i - 1 \in 0 .. capacity /\ i - 1 < Held /\ delivered + 1 + (i - 1) = delivered + i
    BY <1>1
  <2> QED
    BY <2>1 DEF IInv, CellsHoldNext
<1>3. block' = [i \in 1 .. n |-> delivered + i]
  BY <1>0, <1>2
<1>4. n' = n
  BY <1>0 DEF FramesToConsume
<1>5. TypeOK' /\ IndicesSpanHeld' /\ CellsHoldNext' /\ WriteFits' /\ ReadIsHeld'
  BY <1>0, <1>4 DEF IInv, TypeOK, IndicesSpanHeld, CellsHoldNext, WriteFits, ReadIsHeld, Held, CellAt
<1>6. BlockIsNext'
  BY <1>0, <1>3, <1>4 DEF BlockIsNext
<1>7. Queue!Take
  <2>1. n \in 1 .. capacity /\ delivered + n <= accepted
    BY <1>1 DEF Held
  <2>2. block = <<>>
    BY <1>0 DEF IInv, BlockIsNext
  <2> QED
    BY <1>0, <1>3, <2>1, <2>2 DEF Queue!Take
<1> QED
  BY <1>5, <1>6, <1>7 DEF IInv

\* The cells that were read are given back.
LEMMA ConsumeEndIInv == IInv /\ ConsumeEnd => IInv' /\ Queue!Deliver
<1> SUFFICES ASSUME IInv, ConsumeEnd PROVE IInv' /\ Queue!Deliver
  OBVIOUS
<1> DEFINE n == FramesToConsume
<1>0. /\ UNCHANGED <<m_buffer, m_write_index, writer, write_size, accepted, seen_write_index>>
      /\ reader = "copied" /\ reader' = "idle"
      /\ m_read_index' = seen_write_index /\ block' = <<>>
      /\ delivered' = delivered + Len(block)
  BY DEF ConsumeEnd, writerVars
<1>1. /\ n \in 1 .. Held /\ Held \in 0 .. capacity /\ capacity \in Nat
      /\ accepted \in Nat /\ delivered \in Nat
      /\ m_read_index' = CellAt(m_read_index, n)
      /\ block = [i \in 1 .. n |-> delivered + i]
  BY <1>0, SizesAssumption DEF IInv, TypeOK, IndicesSpanHeld, ReadIsHeld, BlockIsNext
<1>2. delivered' = delivered + n
  BY <1>0, <1>1
<1>3. Held' = Held - n
  BY <1>0, <1>1, <1>2 DEF Held
<1>4. TypeOK'
  BY <1>0, <1>1, <1>2 DEF IInv, TypeOK
<1>5. ASSUME NEW i \in 0 .. capacity, i <= Held - n
      PROVE  /\ n + i \in 0 .. capacity
             /\ CellAt(m_read_index', i) = CellAt(m_read_index, n + i)
  <2>1. n \in 0 .. capacity /\ n + i \in 0 .. capacity /\ n + i <= capacity
    BY <1>1, <1>5
  <2> QED
    BY <1>1, <2>1, CellAtAdds DEF IInv, TypeOK
<1>6. IndicesSpanHeld'
  <2>1. Held - n \in 0 .. capacity /\ n + (Held - n) = Held
    BY <1>1
  <2>2. CellAt(m_read_index', Held - n) = CellAt(m_read_index, Held)
    BY <2>1, <1>5
  <2> QED
    BY <1>0, <1>3, <2>1, <2>2 DEF IInv, IndicesSpanHeld, CellAt
<1>7. CellsHoldNext'
  <2> SUFFICES ASSUME NEW i \in 0 .. capacity, i < Held - n
               PROVE  m_buffer[CellAt(m_read_index', i)] = delivered' + 1 + i
    BY <1>0, <1>3 DEF CellsHoldNext, CellAt
  <2>1. n + i \in 0 .. capacity /\ n + i < Held
    BY <1>1
  <2>2. CellAt(m_read_index', i) = CellAt(m_read_index, n + i)
    BY <1>1, <1>5
  <2>3. m_buffer[CellAt(m_read_index, n + i)] = delivered + 1 + (n + i)
    BY <2>1 DEF IInv, CellsHoldNext
  <2> QED
    BY <1>1, <1>2, <2>2, <2>3
<1>8. WriteFits'
  BY <1>0, <1>1, <1>3 DEF IInv, WriteFits
<1>9. ReadIsHeld' /\ BlockIsNext'
  BY <1>0 DEF ReadIsHeld, BlockIsNext
<1>10. Queue!Deliver
  <2>1. block # <<>>
    BY <1>1
  <2> QED
    BY <1>0, <2>1 DEF Queue!Deliver
<1> QED
  BY <1>4, <1>6, <1>7, <1>8, <1>9, <1>10 DEF IInv

-----------------------------------------------------------------------------
\* Every step keeps the invariant and is a step of the queue, or none of it.
LEMMA StepIInv ==
    IInv /\ [RingNext]_ringVars => IInv' /\ [Queue!Next]_(Queue!vars)
<1> SUFFICES ASSUME IInv, [RingNext]_ringVars PROVE IInv' /\ [Queue!Next]_(Queue!vars)
  OBVIOUS
<1>1. CASE WriteBegin
  BY <1>1, WriteBeginIInv DEF Queue!vars
<1>2. CASE WriteEnd
  BY <1>2, WriteEndIInv DEF Queue!Next
<1>3. CASE ConsumeBegin
  BY <1>3, ConsumeBeginIInv DEF Queue!vars
<1>4. CASE ConsumeCopy
  BY <1>4, ConsumeCopyIInv DEF Queue!Next
<1>5. CASE ConsumeEnd
  BY <1>5, ConsumeEndIInv DEF Queue!Next
<1>6. CASE UNCHANGED ringVars
  <2>1. UNCHANGED <<m_write_index, m_read_index, m_buffer, writer, write_size, reader,
                    seen_write_index, block, accepted, delivered>>
    BY <1>6 DEF ringVars, writerVars, readerVars
  <2>2. IInv'
    BY <2>1 DEF IInv, TypeOK, IndicesSpanHeld, CellsHoldNext, WriteFits, ReadIsHeld,
                BlockIsNext, FramesToConsume, Held, CellAt
  <2> QED
    BY <2>1, <2>2 DEF Queue!vars
<1> QED
  BY <1>1, <1>2, <1>3, <1>4, <1>5, <1>6 DEF RingNext, Write, Consume

\* At any time the cells between the indices hold the frames that were accepted
\* and not delivered, and what consume copies are the next of them, for every
\* capacity and every block size.
THEOREM SpecIInv == RingSpec => []IInv
<1>1. RingInit => IInv
  BY InitIInv
<1>2. IInv /\ [RingNext]_ringVars => IInv'
  BY StepIInv
<1> QED
  BY <1>1, <1>2, PTL DEF RingSpec

\* The ring buffer is a bounded first-in first-out queue of frames, for every
\* capacity and every block size, as long as std::size_t holds twice the capacity.
THEOREM SpecImplementsFrameQueue == RingSpec => ImplementsFrameQueue
<1>1. RingInit => Queue!Init
  BY DEF RingInit, Queue!Init
<1>2. IInv /\ [RingNext]_ringVars => [Queue!Next]_(Queue!vars)
  BY StepIInv
<1> QED
  BY <1>1, <1>2, SpecIInv, PTL DEF RingSpec, ImplementsFrameQueue, Queue!Spec

-----------------------------------------------------------------------------
(***************************************************************************)
(* Takes.  The argument follows what was recorded of a stream on its way   *)
(* from the ring of its processor, through the request that collects it,   *)
(* to its file: these three together only ever grow, by the frame of the   *)
(* cycle, whichever of them a step moves it to, except for what a write to *)
(* the file loses; then what came later is still behind what came before.  *)
(***************************************************************************)

TakeStream == Nat \X Channel

\* The files that the take writes.
Opened == DOMAIN open_streams

TakesTypeOK ==
    /\ channels \subseteq Channel
    /\ recording \in BOOLEAN
    /\ DOMAIN recorder_streams \subseteq Channel
    /\ m_engine \in {"none", "running", "failed"}
    /\ DOMAIN rings \subseteq TakeStream
    /\ \A s \in DOMAIN rings : rings[s] \in Seq(Nat) /\ Len(rings[s]) <= Capacity
    /\ recorders \subseteq TakeStream
    /\ call.do \in {"idle", "update", "stop", "device", "reopen"}
    /\ DOMAIN call = {"do", "left", "got", "asked"}
    /\ \A s \in DOMAIN call.got : call.got[s] \in Seq(Nat)
    /\ call.asked \in Nat /\ clock \in Nat /\ starts \in Nat
    /\ \A f \in DOMAIN files :
        files[f] \in [frames : Seq(Nat), start : Nat] /\ f.dir \in dirs

\* The streams of the take have files of their own, all those of its directory,
\* and a take that is over has none.
TakeIsOpen ==
    /\ Opened \subseteq {starts} \X Channel
    /\ Range(recorder_streams) = Opened
    /\ recording \/ DOMAIN recorder_streams = {}
    /\ \A s \in Opened :
        /\ open_streams[s] \in DOMAIN files
        /\ files[open_streams[s]].start = starts
        /\ \A t \in Opened : open_streams[t] = open_streams[s] => t = s
        /\ \A f \in DOMAIN files :
            f.dir = open_streams[s].dir => \E t \in Opened : open_streams[t] = f

\* An engine that runs records the streams of the channels that are there; what
\* is left of one that has failed is not of a later take.
EngineIsOfTake ==
    /\ m_engine = "running" =>
        /\ recorders = {recorder_streams[c] : c \in DOMAIN recorder_streams \cap channels}
        /\ recorders \subseteq DOMAIN rings
    /\ m_engine = "none" => DOMAIN rings = {} /\ recorders = {}
    /\ \A s \in recorders \cup DOMAIN rings : s[1] <= starts

\* What is asked for is of the take, and asked for once.
CallIsOfTake ==
    /\ call.left \subseteq Opened /\ DOMAIN call.got \subseteq Opened
    /\ call.left \cap DOMAIN call.got = {}
    /\ call.do \in {"idle", "reopen"} => call.left = {} /\ DOMAIN call.got = {}
    /\ call.do = "reopen" => ~recording
    /\ call.asked <= clock
    /\ call.do \in {"stop", "device"} =>
        \A s \in Opened \ call.left :
            s \in DOMAIN rings => \A i \in DOMAIN rings[s] : rings[s][i] > call.asked

\* What was recorded of a stream: in its file, on the way to it, in its ring.
Kept(f, s) == IF s \in DOMAIN f THEN f[s] ELSE <<>>
Data(s) == (files[open_streams[s]].frames \o Kept(call.got, s)) \o Kept(rings, s)

Whole(q) == \A i \in 1 .. Len(q) : q[i] = q[1] + i - 1

Ascends(q, n) ==
    /\ \A i \in 1 .. Len(q) : q[i] <= n
    /\ \A i \in 1 .. Len(q) : \A j \in 1 .. Len(q) : i < j => q[i] < q[j]

\* Streams that have lost frames, in the ring or in a write.
Lossy == overflowed \cup cut_short

\* Through all of it runs one take: every stream that is recorded began with the
\* same frame, unless a write has lost it, and has all up to the last one, unless
\* frames were lost; and what came later is behind what came before.
DataIsWhole ==
    \A s \in Opened :
        /\ Ascends(Data(s), clock)
        /\ s \notin Lossy => Whole(Data(s))
        /\ s \in recorders \ Lossy /\ Data(s) # <<>> => Data(s)[Len(Data(s))] = clock
        /\ \A t \in Opened : s \notin cut_short /\ t \notin cut_short /\ Data(t) # <<>> =>
            /\ s \in recorders => Data(s) # <<>>
            /\ Data(s) # <<>> => Data(s)[1] = Data(t)[1]

TakesInv ==
    /\ TakesTypeOK
    /\ TakeIsOpen
    /\ EngineIsOfTake
    /\ CallIsOfTake
    /\ DataIsWhole
    /\ OneTakeEach
-----------------------------------------------------------------------------
(* What is moved from the ring to the file stays the same data. *)

LEMMA MovedToCall ==
    ASSUME NEW f \in Seq(Nat), NEW r \in Seq(Nat)
    PROVE  (f \o r) \o <<>> = (f \o <<>>) \o r
  <1>1. f \o r \in Seq(Nat)
    BY ConcatProperties
  <1>2. (f \o r) \o <<>> = f \o r
    BY <1>1, ConcatEmptySeq
  <1>3. f \o <<>> = f
    BY ConcatEmptySeq
  <1> QED BY <1>2, <1>3

LEMMA MovedToFile ==
    ASSUME NEW f \in Seq(Nat), NEW g \in Seq(Nat), NEW r \in Seq(Nat)
    PROVE  ((f \o g) \o <<>>) \o r = (f \o g) \o r
  <1>1. f \o g \in Seq(Nat)
    BY ConcatProperties
  <1>2. (f \o g) \o <<>> = f \o g
    BY <1>1, ConcatEmptySeq
  <1> QED BY <1>2

LEMMA RecordedBehind ==
    ASSUME NEW q \in Seq(Nat), NEW r \in Seq(Nat), NEW x \in Nat
    PROVE  q \o Append(r, x) = Append(q \o r, x)
  <1>1. <<x>> \in Seq(Nat)
    OBVIOUS
  <1>2. Append(r, x) = r \o <<x>>
    BY AppendIsConcat
  <1>3. q \o r \in Seq(Nat)
    BY ConcatProperties
  <1>4. Append(q \o r, x) = (q \o r) \o <<x>>
    BY <1>3, AppendIsConcat
  <1>5. q \o (r \o <<x>>) = (q \o r) \o <<x>>
    BY <1>1, ConcatAssociative
  <1> QED BY <1>2, <1>4, <1>5

LEMMA WholeGrows ==
    ASSUME NEW q \in Seq(Nat), NEW x \in Nat, Whole(q),
           q # <<>> => x = q[Len(q)] + 1
    PROVE  Whole(Append(q, x))
  <1>1. /\ Len(Append(q, x)) = Len(q) + 1 /\ Len(q) \in Nat
        /\ \A i \in 1 .. Len(q) : Append(q, x)[i] = q[i] /\ q[i] \in Nat
        /\ Append(q, x)[Len(q) + 1] = x
    BY AppendProperties, ElementOfSeq
  <1>2. CASE q = <<>>
    <2>1. Len(q) = 0
      BY <1>2
    <2> QED BY <1>1, <2>1 DEF Whole
  <1>3. CASE q # <<>>
    <2>1. Len(q) \in 1 .. Len(q)
      BY <1>3, <1>1, EmptySeq
    <2>2. q[Len(q)] = q[1] + Len(q) - 1
      BY <2>1 DEF Whole
    <2>3. Append(q, x)[1] = q[1] /\ q[1] \in Nat
      BY <2>1, <1>1
    <2> SUFFICES ASSUME NEW i \in 1 .. Len(q) + 1
                 PROVE  Append(q, x)[i] = q[1] + i - 1
      BY <1>1, <2>3 DEF Whole
    <2>4. CASE i \in 1 .. Len(q)
      BY <2>4, <1>1 DEF Whole
    <2>5. CASE i = Len(q) + 1
      BY <2>5, <1>1, <1>3, <2>2, <2>3
    <2> QED BY <2>4, <2>5, <1>1
  <1> QED BY <1>2, <1>3

LEMMA AscentGrows ==
    ASSUME NEW q \in Seq(Nat), NEW n \in Nat, Ascends(q, n)
    PROVE  Ascends(q, n + 1) /\ Ascends(Append(q, n + 1), n + 1)
  <1>1. /\ Len(Append(q, n + 1)) = Len(q) + 1 /\ Len(q) \in Nat
        /\ \A i \in 1 .. Len(q) : Append(q, n + 1)[i] = q[i] /\ q[i] \in Nat /\ q[i] <= n
        /\ Append(q, n + 1)[Len(q) + 1] = n + 1
    BY AppendProperties, ElementOfSeq DEF Ascends
  <1>2. Ascends(q, n + 1)
    BY <1>1 DEF Ascends
  <1>3. ASSUME NEW i \in 1 .. Len(q) + 1
        PROVE  Append(q, n + 1)[i] <= n + 1
    BY <1>1
  <1>4. ASSUME NEW i \in 1 .. Len(q) + 1, NEW j \in 1 .. Len(q) + 1, i < j
        PROVE  Append(q, n + 1)[i] < Append(q, n + 1)[j]
    <2>1. i \in 1 .. Len(q)
      BY <1>1, <1>4
    <2>2. CASE j = Len(q) + 1
      BY <1>1, <2>1, <2>2
    <2>3. CASE j # Len(q) + 1
      <3>1. j \in 1 .. Len(q)
        BY <1>1, <2>3
      <3> QED BY <1>1, <1>4, <2>1, <3>1 DEF Ascends
    <2> QED BY <2>2, <2>3
  <1>5. Ascends(Append(q, n + 1), n + 1)
    BY <1>1, <1>3, <1>4 DEF Ascends
  <1> QED BY <1>2, <1>5

\* What a write loses leaves the rest in order.
LEMMA PieceIsLost ==
    ASSUME NEW f \in Seq(Nat), NEW g \in Seq(Nat), NEW r \in Seq(Nat), NEW n \in Nat,
           NEW p \in Seq(Nat), Len(p) <= Len(g), \A i \in 1 .. Len(p) : p[i] = g[i],
           Ascends((f \o g) \o r, n)
    PROVE  Ascends((f \o p) \o r, n)
  <1> DEFINE old == (f \o g) \o r
             new == (f \o p) \o r
             place(i) == IF i <= Len(f) + Len(p) THEN i ELSE i + Len(g) - Len(p)
  <1>1. /\ Len(f) \in Nat /\ Len(g) \in Nat /\ Len(r) \in Nat /\ Len(p) \in Nat
    BY LenProperties
  <1>2. /\ f \o g \in Seq(Nat) /\ Len(f \o g) = Len(f) + Len(g)
        /\ \A i \in 1 .. Len(f) : (f \o g)[i] = f[i]
        /\ \A i \in Len(f) + 1 .. Len(f) + Len(g) : (f \o g)[i] = g[i - Len(f)]
    BY ConcatProperties
  <1>3. /\ f \o p \in Seq(Nat) /\ Len(f \o p) = Len(f) + Len(p)
        /\ \A i \in 1 .. Len(f) : (f \o p)[i] = f[i]
        /\ \A i \in Len(f) + 1 .. Len(f) + Len(p) : (f \o p)[i] = p[i - Len(f)]
    BY ConcatProperties
  <1>4. /\ Len(old) = Len(f) + Len(g) + Len(r)
        /\ \A i \in 1 .. Len(f) + Len(g) : old[i] = (f \o g)[i]
        /\ \A i \in Len(f) + Len(g) + 1 .. Len(f) + Len(g) + Len(r) :
            old[i] = r[i - (Len(f) + Len(g))]
    BY <1>2, ConcatProperties
  <1>5. /\ Len(new) = Len(f) + Len(p) + Len(r)
        /\ \A i \in 1 .. Len(f) + Len(p) : new[i] = (f \o p)[i]
        /\ \A i \in Len(f) + Len(p) + 1 .. Len(f) + Len(p) + Len(r) :
            new[i] = r[i - (Len(f) + Len(p))]
    BY <1>3, ConcatProperties
  <1>6. Ascends(old, n)
    OBVIOUS
  <1> HIDE DEF old, new
  <1>7. ASSUME NEW i \in 1 .. Len(new)
        PROVE  place(i) \in 1 .. Len(old) /\ new[i] = old[place(i)]
    <2>1. CASE i \in 1 .. Len(f)
      <3>1. new[i] = f[i] /\ place(i) = i /\ i \in 1 .. Len(f) + Len(p)
        BY <1>1, <1>3, <1>5, <2>1
      <3>2. i \in 1 .. Len(f) + Len(g) /\ i \in 1 .. Len(old)
        BY <1>1, <1>4, <2>1
      <3>3. old[i] = f[i]
        BY <1>2, <1>4, <2>1, <3>2
      <3> QED BY <3>1, <3>2, <3>3
    <2>2. CASE i \in Len(f) + 1 .. Len(f) + Len(p)
      <3>1. i \in 1 .. Len(f) + Len(p) /\ i - Len(f) \in 1 .. Len(p) /\ place(i) = i
        BY <1>1, <2>2
      <3>2. i \in Len(f) + 1 .. Len(f) + Len(g) /\ i \in 1 .. Len(f) + Len(g)
            /\ i \in 1 .. Len(old)
        BY <1>1, <1>4, <2>2
      <3>3. new[i] = g[i - Len(f)]
        BY <1>3, <1>5, <2>2, <3>1
      <3>4. old[i] = g[i - Len(f)]
        BY <1>2, <1>4, <3>2
      <3> QED BY <3>1, <3>2, <3>3, <3>4
    <2>3. CASE i \in Len(f) + Len(p) + 1 .. Len(f) + Len(p) + Len(r)
      <3>1. place(i) = i + Len(g) - Len(p)
        BY <1>1, <2>3
      <3>2. /\ i + Len(g) - Len(p) \in Len(f) + Len(g) + 1 .. Len(f) + Len(g) + Len(r)
            /\ i + Len(g) - Len(p) \in 1 .. Len(old)
            /\ (i + Len(g) - Len(p)) - (Len(f) + Len(g)) = i - (Len(f) + Len(p))
        BY <1>1, <1>4, <2>3
      <3> HIDE DEF place
      <3>3. old[i + Len(g) - Len(p)] = r[(i + Len(g) - Len(p)) - (Len(f) + Len(g))]
        BY <1>4, <3>2
      <3>4. new[i] = r[i - (Len(f) + Len(p))]
        BY <1>5, <2>3
      <3> QED BY <3>1, <3>2, <3>3, <3>4
    <2>4. i \in 1 .. Len(f) + Len(p) + Len(r)
      BY <1>5
    <2> QED BY <1>1, <2>1, <2>2, <2>3, <2>4
  <1>8. ASSUME NEW i \in 1 .. Len(new), NEW j \in 1 .. Len(new), i < j
        PROVE  place(i) < place(j)
    BY <1>1, <1>5, <1>8
  <1> HIDE DEF place
  <1>9. \A i \in 1 .. Len(new) : new[i] <= n
    BY <1>6, <1>7 DEF Ascends
  <1>10. \A i \in 1 .. Len(new) : \A j \in 1 .. Len(new) : i < j => new[i] < new[j]
    BY <1>6, <1>7, <1>8 DEF Ascends
  <1> QED BY <1>9, <1>10 DEF Ascends, new

\* What a file holds of the data is its beginning.
LEMMA FileBegins ==
    ASSUME NEW f \in Seq(Nat), NEW r \in Seq(Nat), f # <<>>
    PROVE  /\ f \o r # <<>>
           /\ f[1] = (f \o r)[1]
           /\ Whole(f \o r) => Whole(f)
           /\ \A n \in Nat : Ascends(f \o r, n) => Ascends(f, n)
  <1>1. /\ Len(f \o r) = Len(f) + Len(r) /\ Len(f) \in Nat /\ Len(r) \in Nat
        /\ \A i \in 1 .. Len(f) : (f \o r)[i] = f[i]
    BY ConcatProperties, LenProperties
  <1>2. 1 \in 1 .. Len(f) /\ Len(f) # 0
    BY <1>1, EmptySeq
  <1>3. f \o r # <<>>
    <2> SUFFICES ASSUME f \o r = <<>> PROVE FALSE
      OBVIOUS
    <2>1. Len(f \o r) = 0
      OBVIOUS
    <2> QED BY <2>1, <1>1, <1>2
  <1>4. Whole(f \o r) => Whole(f)
    <2> SUFFICES ASSUME Whole(f \o r), NEW i \in 1 .. Len(f) PROVE f[i] = f[1] + i - 1
      BY DEF Whole
    <2>1. i \in 1 .. Len(f \o r)
      BY <1>1
    <2>2. (f \o r)[i] = (f \o r)[1] + i - 1
      BY <2>1 DEF Whole
    <2> QED BY <2>2, <1>1, <1>2
  <1>5. ASSUME NEW n \in Nat, Ascends(f \o r, n) PROVE Ascends(f, n)
    <2>1. \A i \in 1 .. Len(f) : i \in 1 .. Len(f \o r)
      BY <1>1
    <2> QED BY <1>1, <1>5, <2>1 DEF Ascends
  <1> QED BY <1>1, <1>2, <1>3, <1>4, <1>5

\* The file has all up to where what is still in the ring begins.
LEMMA FileReachesAsked ==
    ASSUME NEW f \in Seq(Nat), NEW r \in Seq(Nat), NEW a \in Nat, NEW n \in Nat,
           f # <<>>, Whole(f \o r), (f \o r)[Len(f \o r)] = n, a <= n,
           \A i \in 1 .. Len(r) : r[i] > a
    PROVE  f[Len(f)] >= a
  <1>1. /\ Len(f \o r) = Len(f) + Len(r) /\ Len(f) \in Nat /\ Len(r) \in Nat
        /\ \A i \in 1 .. Len(f) : (f \o r)[i] = f[i] /\ f[i] \in Nat
        /\ \A i \in 1 .. Len(r) : r[i] \in Nat
    BY ConcatProperties, LenProperties, ElementOfSeq
  <1>2. Len(f) \in 1 .. Len(f) /\ 1 \in 1 .. Len(f)
    BY <1>1, EmptySeq
  <1>3. CASE Len(r) = 0
    BY <1>1, <1>2, <1>3
  <1>4. CASE Len(r) # 0
    <2>1. (f \o r)[Len(f) + 1] = r[1]
      <3>1. Len(f) + 1 \in Len(f) + 1 .. Len(f) + Len(r)
        BY <1>1, <1>4
      <3>2. \A i \in Len(f) + 1 .. Len(f) + Len(r) : (f \o r)[i] = r[i - Len(f)]
        BY ConcatProperties
      <3> QED BY <3>1, <3>2, <1>1
    <2>2. /\ (f \o r)[Len(f) + 1] = (f \o r)[1] + (Len(f) + 1) - 1
          /\ (f \o r)[Len(f)] = (f \o r)[1] + Len(f) - 1
      <3>1. Len(f) + 1 \in 1 .. Len(f \o r) /\ Len(f) \in 1 .. Len(f \o r)
        BY <1>1, <1>2, <1>4
      <3> QED BY <3>1 DEF Whole
    <2>3. r[1] > a /\ r[1] \in Nat
      BY <1>1, <1>4
    <2>4. (f \o r)[1] \in Nat /\ f[Len(f)] = (f \o r)[Len(f)]
      BY <1>1, <1>2
    <2> QED BY <2>1, <2>2, <2>3, <2>4, <1>1
  <1> QED BY <1>3, <1>4

-----------------------------------------------------------------------------
(* What a step keeps. *)

LEMMA DataIsSeq ==
    ASSUME TakesTypeOK, TakeIsOpen, NEW s \in Opened
    PROVE  /\ files[open_streams[s]].frames \in Seq(Nat)
           /\ Kept(call.got, s) \in Seq(Nat)
           /\ Kept(rings, s) \in Seq(Nat)
           /\ files[open_streams[s]].frames \o Kept(call.got, s) \in Seq(Nat)
           /\ Data(s) \in Seq(Nat)
  <1>1. files[open_streams[s]].frames \in Seq(Nat)
    BY DEF TakesTypeOK, TakeIsOpen
  <1>2. <<>> \in Seq(Nat)
    OBVIOUS
  <1>3. Kept(call.got, s) \in Seq(Nat)
    BY <1>2 DEF TakesTypeOK, Kept
  <1>4. Kept(rings, s) \in Seq(Nat)
    BY <1>2 DEF TakesTypeOK, Kept
  <1>5. files[open_streams[s]].frames \o Kept(call.got, s) \in Seq(Nat)
    BY <1>1, <1>3, ConcatProperties
  <1>6. Data(s) \in Seq(Nat)
    BY <1>4, <1>5, ConcatProperties DEF Data
  <1> QED BY <1>1, <1>3, <1>4, <1>5, <1>6

LEMMA TakeStays ==
    ASSUME TakeIsOpen,
           UNCHANGED <<open_streams, recorder_streams, recording, starts>>,
           DOMAIN files' = DOMAIN files,
           \A f \in DOMAIN files : files'[f].start = files[f].start
    PROVE  TakeIsOpen'
  BY DEF TakeIsOpen, Opened

\* The data stays as it is, but for that of a stream of which a write loses some.
LEMMA DataStaysOrIsCut ==
    ASSUME DataIsWhole, UNCHANGED <<clock, overflowed>>, cut_short \subseteq cut_short',
           Opened' = Opened, recorders' \cap Opened \subseteq recorders,
           \A s \in Opened : Ascends(Data(s)', clock),
           \A s \in Opened \ cut_short' : Data(s)' = Data(s)
    PROVE  DataIsWhole'
  <1>1. ASSUME NEW s \in Opened, s \notin cut_short'
        PROVE  /\ s \notin cut_short /\ Data(s)' = Data(s)
               /\ s \in recorders' => s \in recorders
               /\ s \notin Lossy' => s \notin Lossy
    BY <1>1 DEF Lossy
  <1>2. ASSUME NEW s \in Opened PROVE Ascends(Data(s), clock)'
    <2>1. Ascends(Data(s)', clock)
      OBVIOUS
    <2> QED BY <2>1 DEF Ascends
  <1>3. ASSUME NEW s \in Opened, s \notin Lossy'
        PROVE  /\ Whole(Data(s)')
               /\ s \in recorders' /\ Data(s)' # <<>> => Data(s)'[Len(Data(s)')] = clock'
    <2>1. s \notin cut_short'
      BY <1>3 DEF Lossy
    <2> QED BY <1>1, <1>3, <2>1 DEF DataIsWhole
  <1>4. ASSUME NEW s \in Opened, NEW t \in Opened, s \notin cut_short', t \notin cut_short',
               Data(t)' # <<>>
        PROVE  /\ s \in recorders' => Data(s)' # <<>>
               /\ Data(s)' # <<>> => Data(s)'[1] = Data(t)'[1]
    BY <1>1, <1>4 DEF DataIsWhole
  <1> QED BY <1>2, <1>3, <1>4 DEF DataIsWhole, Whole

LEMMA DataStays ==
    ASSUME DataIsWhole, UNCHANGED <<clock, overflowed, cut_short>>,
           Opened' = Opened, recorders' \cap Opened \subseteq recorders,
           \A s \in Opened : Data(s)' = Data(s)
    PROVE  DataIsWhole'
  <1>1. \A s \in Opened : Ascends(Data(s)', clock)
    BY DEF DataIsWhole
  <1> QED BY <1>1, DataStaysOrIsCut

LEMMA FilesStay ==
    ASSUME OneTakeEach, UNCHANGED <<files, cut_short>>, overflowed \subseteq overflowed'
    PROVE  OneTakeEach'
  <1>1. (overflowed \cup cut_short) \subseteq (overflowed \cup cut_short)'
    OBVIOUS
  <1> QED BY <1>1 DEF OneTakeEach, WholeFrames, StreamsOf

\* Nothing is recorded where no file is open.
LEMMA NothingOpen ==
    ASSUME Opened' = {}
    PROVE  DataIsWhole'
  BY DEF DataIsWhole

-----------------------------------------------------------------------------
(* The engine. *)

LEMMA Rebuilt ==
    ASSUME m_engine = "running", RebuildEngine,
           recording' \/ DOMAIN recorder_streams' = {}
    PROVE  /\ recorders' = {recorder_streams'[c] : c \in DOMAIN recorder_streams' \cap channels'}
           /\ DOMAIN rings' =
                {recorder_streams'[c] : c \in {d \in DOMAIN recorder_streams' :
                    d \in channels' \/ recorder_streams'[d] \in DOMAIN rings}}
           /\ \A s \in DOMAIN rings' : rings'[s] = Kept(rings, s)
  <1> DEFINE streams == IF recording' THEN recorder_streams' ELSE NoFunction
  <1>1. /\ rings' = RecorderProcessors(streams, channels')
        /\ recorders' = {streams[c] : c \in DOMAIN streams \cap channels'}
    BY DEF RebuildEngine
  <1>2. /\ DOMAIN rings' = {streams[c] : c \in {d \in DOMAIN streams :
                                d \in channels' \/ streams[d] \in DOMAIN rings}}
        /\ \A s \in DOMAIN rings' : rings'[s] = Kept(rings, s)
    BY <1>1 DEF RecorderProcessors, Kept
  <1>3. CASE recording'
    <2>1. streams = recorder_streams'
      BY <1>3
    <2> HIDE DEF streams
    <2> QED BY <1>1, <1>2, <2>1
  <1>4. CASE ~recording'
    <2>1. DOMAIN streams = {} /\ DOMAIN recorder_streams' = {}
      BY <1>4 DEF NoFunction
    <2> HIDE DEF streams
    <2>2. recorders' = {} /\ DOMAIN rings' = {}
      BY <1>1, <1>2, <2>1
    <2> QED BY <2>1, <2>2
  <1> QED BY <1>3, <1>4

\* What the rebuild keeps, and makes, is typed; an engine that does not run is
\* left as it is.
LEMMA RebuiltTyped ==
    ASSUME TakesTypeOK, EngineIsOfTake, TakesAssumption, RebuildEngine,
           UNCHANGED m_engine,
           recording' \/ DOMAIN recorder_streams' = {},
           starts' \in Nat, starts <= starts',
           \A c \in DOMAIN recorder_streams' : recorder_streams'[c] \in {starts'} \X Channel
    PROVE  /\ DOMAIN rings' \subseteq TakeStream
           /\ \A s \in DOMAIN rings' : rings'[s] \in Seq(Nat) /\ Len(rings'[s]) <= Capacity
           /\ recorders' \subseteq TakeStream
           /\ EngineIsOfTake'
  <1>1. CASE m_engine = "running"
    <2>1. recorders' = {recorder_streams'[c] : c \in DOMAIN recorder_streams' \cap channels'}
      BY <1>1, Rebuilt
    <2>2. DOMAIN rings' =
                {recorder_streams'[c] : c \in {d \in DOMAIN recorder_streams' :
                    d \in channels' \/ recorder_streams'[d] \in DOMAIN rings}}
      BY <1>1, Rebuilt
    <2>3. \A s \in DOMAIN rings' : rings'[s] = Kept(rings, s)
      BY <1>1, Rebuilt
    <2>4. \A s \in recorders' \cup DOMAIN rings' : s \in {starts'} \X Channel
      BY <2>1, <2>2
    <2>5. \A s \in recorders' \cup DOMAIN rings' : s \in TakeStream /\ s[1] <= starts'
      BY <2>4 DEF TakeStream
    <2>6. ASSUME NEW s \in DOMAIN rings'
          PROVE  rings'[s] \in Seq(Nat) /\ Len(rings'[s]) <= Capacity
      <3>1. CASE s \in DOMAIN rings
        <4>1. rings'[s] = rings[s]
          BY <2>3, <3>1 DEF Kept
        <4> QED BY <4>1, <3>1 DEF TakesTypeOK
      <3>2. CASE s \notin DOMAIN rings
        <4>1. rings'[s] = <<>>
          BY <2>3, <3>2 DEF Kept
        <4>2. <<>> \in Seq(Nat) /\ Len(<<>>) = 0
          OBVIOUS
        <4> QED BY <4>1, <4>2, TakesAssumption DEF TakesAssumption
      <3> QED BY <3>1, <3>2
    <2>7. recorders' \subseteq DOMAIN rings'
      BY <2>1, <2>2
    <2>8. EngineIsOfTake'
      BY <1>1, <2>1, <2>5, <2>7 DEF EngineIsOfTake
    <2> QED BY <2>5, <2>6, <2>8
  <1>2. CASE m_engine # "running"
    <2>1. UNCHANGED <<rings, recorders>>
      BY <1>2 DEF RebuildEngine
    <2>2. \A s \in recorders \cup DOMAIN rings : s \in Nat \X Channel
      BY DEF TakesTypeOK, TakeStream
    <2>3. ASSUME NEW s \in recorders \cup DOMAIN rings PROVE s[1] <= starts'
      <3>1. s[1] \in Nat /\ s[1] <= starts /\ starts \in Nat
        BY <2>2 DEF EngineIsOfTake, TakesTypeOK
      <3> QED BY <3>1
    <2>4. EngineIsOfTake'
      BY <1>2, <2>1, <2>3 DEF EngineIsOfTake
    <2> QED BY <2>1, <2>4 DEF TakesTypeOK
  <1> QED BY <1>1, <1>2

LEMMA CycleKeeps ==
    ASSUME TakesInv, TakesAssumption, Cycle
    PROVE  TakesInv'
  <1> USE DEF Cycle, stateVars, diskVars
  <1>1. /\ TakesTypeOK /\ TakeIsOpen /\ EngineIsOfTake /\ CallIsOfTake /\ DataIsWhole
        /\ OneTakeEach
    BY DEF TakesInv
  <1>2. /\ clock' = clock + 1 /\ clock \in Nat /\ clock' \in Nat /\ Capacity \in Nat
        /\ recorders \subseteq DOMAIN rings /\ Opened' = Opened
    BY <1>1 DEF TakesTypeOK, EngineIsOfTake, Opened, TakesAssumption
  <1>3. /\ DOMAIN rings' = DOMAIN rings
        /\ \A s \in DOMAIN rings :
            rings'[s] = IF s \in recorders /\ Len(rings[s]) < Capacity
                        THEN Append(rings[s], clock') ELSE rings[s]
    OBVIOUS
  <1>4. ASSUME NEW s \in DOMAIN rings
        PROVE  rings'[s] \in Seq(Nat) /\ Len(rings'[s]) <= Capacity
    <2>1. rings[s] \in Seq(Nat) /\ Len(rings[s]) \in Nat /\ Len(rings[s]) <= Capacity
      BY <1>1 DEF TakesTypeOK
    <2>2. CASE s \in recorders /\ Len(rings[s]) < Capacity
      <3>1. rings'[s] = Append(rings[s], clock')
        BY <1>3, <2>2
      <3>2. Append(rings[s], clock') \in Seq(Nat)
        BY <1>2, <2>1, AppendProperties
      <3>3. Len(Append(rings[s], clock')) = Len(rings[s]) + 1
        BY <1>2, <2>1, AppendProperties
      <3> QED BY <1>2, <2>1, <2>2, <3>1, <3>2, <3>3
    <2>3. CASE ~(s \in recorders /\ Len(rings[s]) < Capacity)
      BY <1>3, <2>1, <2>3
    <2> QED BY <2>2, <2>3
  <1>5. TakesTypeOK'
    BY <1>1, <1>2, <1>3, <1>4 DEF TakesTypeOK
  <1>6. TakeIsOpen'
    BY <1>1, TakeStays
  <1>7. EngineIsOfTake'
    BY <1>1, <1>3 DEF EngineIsOfTake
  <1>8. CallIsOfTake'
    <2>1. call.asked \in Nat /\ call.asked <= clock /\ call.asked <= clock'
      BY <1>1, <1>2 DEF TakesTypeOK, CallIsOfTake
    <2>2. ASSUME call.do \in {"stop", "device"}, NEW s \in Opened \ call.left,
                 s \in DOMAIN rings, NEW i \in DOMAIN rings'[s]
          PROVE  rings'[s][i] > call.asked
      <3>1. rings[s] \in Seq(Nat) /\ \A j \in 1 .. Len(rings[s]) : rings[s][j] > call.asked
        BY <1>1, <2>2 DEF TakesTypeOK, CallIsOfTake
      <3>2. CASE s \in recorders /\ Len(rings[s]) < Capacity
        <4>1. rings'[s] = Append(rings[s], clock')
          BY <1>3, <2>2, <3>2
        <4>2. /\ Len(Append(rings[s], clock')) = Len(rings[s]) + 1
              /\ \A j \in 1 .. Len(rings[s]) : Append(rings[s], clock')[j] = rings[s][j]
              /\ Append(rings[s], clock')[Len(rings[s]) + 1] = clock'
          BY <1>2, <3>1, AppendProperties
        <4>3. i \in 1 .. Len(rings[s]) + 1 /\ Len(rings[s]) \in Nat
          BY <2>2, <3>1, <4>1, <4>2, <1>4, LenProperties
        <4>4. CASE i = Len(rings[s]) + 1
          BY <4>1, <4>2, <4>4, <2>1, <1>2
        <4>5. CASE i # Len(rings[s]) + 1
          <5>1. i \in 1 .. Len(rings[s])
            BY <4>3, <4>5
          <5> QED BY <5>1, <4>1, <4>2, <3>1
        <4> QED BY <4>4, <4>5
      <3>3. CASE ~(s \in recorders /\ Len(rings[s]) < Capacity)
        BY <1>3, <2>2, <3>1, <3>3
      <3> QED BY <3>2, <3>3
    <2> QED BY <1>1, <1>2, <1>3, <2>1, <2>2 DEF CallIsOfTake
  <1>9. DataIsWhole'
    <2> DEFINE grows(s) == s \in recorders /\ Len(rings[s]) < Capacity
    <2>1. ASSUME NEW s \in Opened
          PROVE  /\ Data(s) \in Seq(Nat)
                 /\ grows(s) => Data(s)' = Append(Data(s), clock + 1)
                 /\ ~grows(s) => Data(s)' = Data(s)
      <3>1. Data(s) \in Seq(Nat)
        BY <1>1, DataIsSeq
      <3>2. files[open_streams[s]].frames \o Kept(call.got, s) \in Seq(Nat)
        BY <1>1, DataIsSeq
      <3>3. Data(s)' = (files[open_streams[s]].frames \o Kept(call.got, s)) \o Kept(rings', s)
        BY DEF Data, Kept
      <3>4. CASE grows(s)
        <4>1. Kept(rings', s) = Append(rings[s], clock + 1) /\ Kept(rings, s) = rings[s]
              /\ rings[s] \in Seq(Nat)
          BY <1>1, <1>2, <1>3, <3>4 DEF Kept, TakesTypeOK
        <4> DEFINE q == files[open_streams[s]].frames \o Kept(call.got, s)
                   r == rings[s]
        <4>2. clock + 1 \in Nat
          BY <1>2
        <4>3. Data(s) = q \o r /\ Data(s)' = q \o Append(r, clock + 1)
          BY <3>3, <4>1 DEF Data
        <4>4. q \o Append(r, clock + 1) = Append(q \o r, clock + 1)
          <5>1. q \in Seq(Nat) /\ r \in Seq(Nat)
            BY <3>2, <4>1
          <5> HIDE DEF q, r
          <5> QED BY <4>2, <5>1, RecordedBehind
        <4> HIDE DEF q, r
        <4> QED BY <3>1, <3>4, <4>3, <4>4
      <3>5. CASE ~grows(s)
        <4>1. Kept(rings', s) = Kept(rings, s)
          BY <1>3, <3>5 DEF Kept
        <4> QED BY <3>1, <3>3, <3>5, <4>1 DEF Data
      <3> QED BY <3>4, <3>5
    <2>2. ASSUME NEW s \in recorders, ~grows(s), s \in Opened
          PROVE  s \in overflowed' /\ (Capacity # 0 => Data(s) # <<>>)
      <3>1. rings[s] \in Seq(Nat) /\ Len(rings[s]) \in Nat /\ Len(rings[s]) <= Capacity
            /\ Kept(rings, s) = rings[s]
        BY <1>1, <1>2, <2>2 DEF TakesTypeOK, Kept
      <3>2. Len(rings[s]) = Capacity
        BY <1>2, <2>2, <3>1
      <3>3. ASSUME Capacity # 0 PROVE Data(s) # <<>>
        <4>1. files[open_streams[s]].frames \o Kept(call.got, s) \in Seq(Nat)
          BY <1>1, <2>2, DataIsSeq
        <4>2. Len(rings[s]) # 0
          BY <3>2, <3>3
        <4>3. rings[s] # <<>>
          BY <4>2
        <4> QED BY <3>1, <4>1, <4>3, ConcatEqualIffEmpty DEF Data
      <3> QED BY <3>2, <3>3, <2>2
    <2>3. ASSUME NEW s \in Opened PROVE Data(s)' = <<>> => Data(s) = <<>> /\ ~grows(s)
      <3>1. ASSUME grows(s) PROVE Data(s)' # <<>>
        <4>1. Data(s) \in Seq(Nat) /\ Data(s)' = Append(Data(s), clock + 1)
          BY <2>1, <3>1
        <4> QED BY <4>1, <1>2, AppendProperties
      <3> QED BY <2>1, <3>1
    <2>4. ASSUME NEW s \in Opened, Data(s) # <<>> PROVE Data(s)'[1] = Data(s)[1]
      <3>1. CASE grows(s)
        <4>1. Data(s) \in Seq(Nat) /\ Data(s)' = Append(Data(s), clock + 1) /\ clock + 1 \in Nat
          BY <1>2, <2>1, <3>1
        <4>2. 1 \in 1 .. Len(Data(s))
          BY <4>1, <2>4, EmptySeq, LenProperties
        <4> QED BY <4>1, <4>2, AppendProperties
      <3>2. CASE ~grows(s)
        BY <2>1, <3>2
      <3> QED BY <3>1, <3>2
    <2>5. ASSUME NEW s \in Opened, s \notin Lossy' PROVE Whole(Data(s)')
      <3>1. s \notin Lossy
        BY <2>5 DEF Lossy
      <3>2. Whole(Data(s)) /\ Data(s) \in Seq(Nat)
        BY <1>1, <2>1, <3>1 DEF DataIsWhole
      <3>3. CASE grows(s)
        <4>1. Data(s) # <<>> => Data(s)[Len(Data(s))] = clock
          BY <1>1, <3>1, <3>3 DEF DataIsWhole
        <4>2. Whole(Append(Data(s), clock + 1))
          BY <1>2, <3>2, <4>1, WholeGrows
        <4> QED BY <2>1, <3>3, <4>2
      <3>4. CASE ~grows(s)
        BY <2>1, <3>2, <3>4
      <3> QED BY <3>3, <3>4
    <2>6. ASSUME NEW s \in Opened, s \in recorders, s \notin Lossy'
          PROVE  Data(s)'[Len(Data(s)')] = clock'
      <3>1. grows(s)
        BY <2>2, <2>6 DEF Lossy
      <3>2. Data(s) \in Seq(Nat) /\ Data(s)' = Append(Data(s), clock + 1) /\ clock + 1 \in Nat
        BY <1>2, <2>1, <3>1
      <3>3. /\ Len(Append(Data(s), clock + 1)) = Len(Data(s)) + 1
            /\ Append(Data(s), clock + 1)[Len(Data(s)) + 1] = clock + 1
        BY <3>2, AppendProperties
      <3> QED BY <1>2, <3>2, <3>3
    <2>7. ASSUME NEW s \in Opened, NEW t \in Opened, Data(t)' # <<>>, s \in recorders,
                 s \notin cut_short, t \notin cut_short
          PROVE  Data(s)' # <<>>
      <3> SUFFICES ASSUME Data(s)' = <<>> PROVE FALSE
        OBVIOUS
      <3>1. Data(s) = <<>> /\ ~grows(s)
        BY <2>3
      <3>2. Capacity = 0
        BY <2>2, <2>7, <3>1
      <3>3. ~grows(t)
        <4> SUFFICES ASSUME grows(t) PROVE FALSE
          OBVIOUS
        <4>1. t \in DOMAIN rings
          BY <1>2
        <4>2. Len(rings[t]) \in Nat
          BY <1>1, <4>1 DEF TakesTypeOK
        <4> QED BY <3>2, <4>2
      <3>4. Data(t) # <<>>
        BY <2>1, <2>7, <3>3
      <3> QED BY <1>1, <2>7, <3>1, <3>4 DEF DataIsWhole
    <2>8. ASSUME NEW s \in Opened, NEW t \in Opened, Data(t)' # <<>>, Data(s)' # <<>>,
                 s \notin cut_short, t \notin cut_short
          PROVE  Data(s)'[1] = Data(t)'[1]
      <3>1. ASSUME NEW u \in Opened, Data(u)' # <<>>, Data(u) = <<>>
            PROVE  u \in recorders /\ Data(u)'[1] = clock + 1
        <4>1. grows(u)
          BY <2>1, <3>1
        <4>2. Data(u)' = Append(<<>>, clock + 1)
          BY <2>1, <3>1, <4>1
        <4> QED BY <4>1, <4>2
      <3>2. CASE Data(s) # <<>> /\ Data(t) # <<>>
        BY <1>1, <2>4, <2>8, <3>2 DEF DataIsWhole
      <3>3. CASE Data(s) = <<>> /\ Data(t) = <<>>
        BY <2>8, <3>1, <3>3
      <3>4. CASE Data(s) = <<>> /\ Data(t) # <<>>
        BY <1>1, <2>8, <3>1, <3>4 DEF DataIsWhole
      <3>5. CASE Data(s) # <<>> /\ Data(t) = <<>>
        BY <1>1, <2>8, <3>1, <3>5 DEF DataIsWhole
      <3> QED BY <3>2, <3>3, <3>4, <3>5
    <2>9. ASSUME NEW s \in Opened PROVE Ascends(Data(s), clock)'
      <3>1. Data(s) \in Seq(Nat) /\ Ascends(Data(s), clock)
        BY <1>1, <2>1 DEF DataIsWhole
      <3>2. Ascends(Data(s), clock + 1) /\ Ascends(Append(Data(s), clock + 1), clock + 1)
        BY <1>2, <3>1, AscentGrows
      <3>3. Ascends(Data(s)', clock')
        BY <1>2, <2>1, <3>2
      <3> QED BY <3>3 DEF Ascends
    <2>10. cut_short' = cut_short
      OBVIOUS
    <2> HIDE DEF grows
    <2> QED BY <1>2, <2>5, <2>6, <2>7, <2>8, <2>9, <2>10 DEF DataIsWhole, Whole
  <1>10. OneTakeEach'
    BY <1>1, FilesStay
  <1> QED BY <1>5, <1>6, <1>7, <1>8, <1>9, <1>10 DEF TakesInv

LEMMA DeviceFailsKeeps ==
    ASSUME TakesInv, DeviceFails
    PROVE  TakesInv'
  <1> USE DEF DeviceFails, stateVars, diskVars
  <1>1. /\ TakesTypeOK /\ TakeIsOpen /\ EngineIsOfTake /\ CallIsOfTake /\ DataIsWhole
        /\ OneTakeEach
    BY DEF TakesInv
  <1>2. TakesTypeOK'
    BY <1>1 DEF TakesTypeOK
  <1>3. TakeIsOpen'
    BY <1>1, TakeStays
  <1>4. EngineIsOfTake'
    BY <1>1 DEF EngineIsOfTake
  <1>5. CallIsOfTake'
    BY <1>1 DEF CallIsOfTake, Opened
  <1>6. DataIsWhole'
    BY <1>1, DataStays DEF Data, Kept, Opened
  <1>7. OneTakeEach'
    BY <1>1, FilesStay
  <1> QED BY <1>2, <1>3, <1>4, <1>5, <1>6, <1>7 DEF TakesInv

\* A step that leaves all but what is asked of the streams alone.
LEMMA AskedOnly ==
    ASSUME TakesInv, UNCHANGED <<stateVars, diskVars, engineVars, clock, starts>>,
           DOMAIN call' = {"do", "left", "got", "asked"},
           call'.do \in {"idle", "update", "stop", "device", "reopen"},
           \A s \in Opened : Kept(call'.got, s) = Kept(call.got, s),
           \A s \in DOMAIN call'.got : call'.got[s] \in Seq(Nat),
           call'.asked \in Nat, call'.asked <= clock, CallIsOfTake'
    PROVE  TakesInv'
  <1> USE DEF stateVars, diskVars, engineVars
  <1>1. /\ TakesTypeOK /\ TakeIsOpen /\ EngineIsOfTake /\ CallIsOfTake /\ DataIsWhole
        /\ OneTakeEach
    BY DEF TakesInv
  <1>2. TakesTypeOK'
    BY <1>1 DEF TakesTypeOK
  <1>3. TakeIsOpen'
    BY <1>1, TakeStays
  <1>4. EngineIsOfTake'
    BY <1>1 DEF EngineIsOfTake
  <1>5. Opened' = Opened /\ \A s \in Opened : Data(s)' = Data(s)
    <2>1. ASSUME NEW s \in Opened
          PROVE  Data(s)' = (files[open_streams[s]].frames \o Kept(call'.got, s)) \o Kept(rings, s)
      BY DEF Data, Kept
    <2> QED BY <2>1 DEF Data, Opened
  <1>6. DataIsWhole'
    BY <1>1, <1>5, DataStays
  <1>7. OneTakeEach'
    BY <1>1, FilesStay
  <1> QED BY <1>2, <1>3, <1>4, <1>6, <1>7 DEF TakesInv

LEMMA RequestStreamsKeeps ==
    ASSUME TakesInv, UNCHANGED <<stateVars, diskVars, engineVars, clock, starts>>,
           call.do = "idle", NEW do \in {"update", "stop", "device"}, RequestStreams(do)
    PROVE  TakesInv'
  <1>1. TakesTypeOK /\ TakeIsOpen /\ EngineIsOfTake /\ CallIsOfTake
    BY DEF TakesInv
  <1>2. /\ DOMAIN call' = {"do", "left", "got", "asked"}
        /\ call'.do = do /\ call'.got = NoFunction /\ call'.asked = clock
        /\ call'.left = IF m_engine # "none" THEN Range(recorder_streams) ELSE {}
    BY DEF RequestStreams
  <1>3. DOMAIN call'.got = {} /\ DOMAIN call.got = {}
    BY <1>1, <1>2 DEF NoFunction, CallIsOfTake
  <1>4. clock \in Nat /\ clock <= clock
    BY <1>1 DEF TakesTypeOK
  <1>5. CallIsOfTake'
    <2>1. Opened' = Opened /\ rings' = rings /\ clock' = clock /\ call'.left \subseteq Opened
      BY <1>1, <1>2 DEF diskVars, engineVars, Opened, TakeIsOpen
    <2>2. \A s \in Opened \ call'.left : s \notin DOMAIN rings
      BY <1>1, <1>2 DEF TakeIsOpen, EngineIsOfTake
    <2> QED BY <1>2, <1>3, <1>4, <2>1, <2>2 DEF CallIsOfTake
  <1>6. \A s \in Opened : Kept(call'.got, s) = Kept(call.got, s)
    BY <1>3 DEF Kept
  <1> QED BY <1>2, <1>3, <1>4, <1>5, <1>6, AskedOnly

LEMMA CallEndsKeeps ==
    ASSUME TakesInv, UNCHANGED <<stateVars, diskVars, engineVars, clock, starts>>,
           DOMAIN call.got = {}, DOMAIN call' = {"do", "left", "got", "asked"},
           call'.do \in {"idle", "reopen"}, call'.do = "reopen" => ~recording,
           call'.left = {}, DOMAIN call'.got = {}, call'.asked = 0
    PROVE  TakesInv'
  <1>1. TakesTypeOK /\ CallIsOfTake
    BY DEF TakesInv
  <1>2. clock \in Nat /\ 0 <= clock /\ clock' = clock /\ recording' = recording
    BY <1>1 DEF TakesTypeOK, stateVars
  <1>3. CallIsOfTake'
    BY <1>2 DEF CallIsOfTake
  <1>4. \A s \in Opened : Kept(call'.got, s) = Kept(call.got, s)
    BY DEF Kept
  <1> QED BY <1>2, <1>3, <1>4, AskedOnly

LEMMA GetStreamKeeps ==
    ASSUME TakesInv, TakesAssumption, NEW s, GetStream(s)
    PROVE  TakesInv'
  <1>1. /\ TakesTypeOK /\ TakeIsOpen /\ EngineIsOfTake /\ CallIsOfTake /\ DataIsWhole
        /\ OneTakeEach
    BY DEF TakesInv
  <1>2. /\ s \in call.left
        /\ UNCHANGED <<stateVars, diskVars, m_engine, recorders, overflowed, clock, starts>>
        /\ rings' = [t \in DOMAIN rings |-> IF t = s THEN <<>> ELSE rings[t]]
    BY DEF GetStream
  <1> DEFINE got == [t \in DOMAIN call.got \cup {s} |->
                        IF t # s THEN call.got[t]
                        ELSE IF s \in DOMAIN rings THEN rings[s] ELSE <<>>]
  <1>3. call' = [call EXCEPT !.left = @ \ {s}, !.got = got]
    BY DEF GetStream
  <1>4. /\ call'.left = call.left \ {s} /\ call'.got = got
        /\ call'.do = call.do /\ call'.asked = call.asked
        /\ DOMAIN call' = {"do", "left", "got", "asked"}
    <2> HIDE DEF got
    <2> QED BY <1>1, <1>3 DEF TakesTypeOK
  <1>5. /\ DOMAIN got = DOMAIN call.got \cup {s}
        /\ got[s] = Kept(rings, s)
        /\ \A t \in DOMAIN call.got : t # s => got[t] = call.got[t]
    BY DEF Kept
  <1> HIDE DEF got
  <1>6. /\ DOMAIN rings' = DOMAIN rings
        /\ s \in DOMAIN rings => rings'[s] = <<>>
        /\ \A t \in DOMAIN rings : t # s => rings'[t] = rings[t]
    BY <1>2
  <1>7. <<>> \in Seq(Nat) /\ Len(<<>>) <= Capacity
    <2>1. Len(<<>>) = 0
      OBVIOUS
    <2> QED BY <2>1, TakesAssumption DEF TakesAssumption
  <1>8. s \in Opened /\ s \notin DOMAIN call.got /\ Opened' = Opened
    BY <1>1, <1>2 DEF CallIsOfTake, Opened, diskVars
  <1>9. TakesTypeOK'
    <2>1. \A t \in DOMAIN rings' : rings'[t] \in Seq(Nat) /\ Len(rings'[t]) <= Capacity
      BY <1>1, <1>6, <1>7 DEF TakesTypeOK
    <2>2. \A t \in DOMAIN got : got[t] \in Seq(Nat)
      BY <1>1, <1>5, <1>7 DEF TakesTypeOK, Kept
    <2>3. DOMAIN rings' \subseteq TakeStream
      BY <1>1, <1>6 DEF TakesTypeOK
    <2> QED BY <1>1, <1>2, <1>4, <2>1, <2>2, <2>3 DEF TakesTypeOK, stateVars, diskVars
  <1>10. TakeIsOpen'
    BY <1>1, <1>2, TakeStays DEF stateVars, diskVars
  <1>11. EngineIsOfTake'
    BY <1>1, <1>2, <1>6 DEF EngineIsOfTake, stateVars
  <1>12. CallIsOfTake'
    <2>1. call.do \notin {"idle", "reopen"}
      BY <1>1, <1>2 DEF CallIsOfTake
    <2>2. ASSUME call.do \in {"stop", "device"}, NEW t \in Opened \ (call.left \ {s}),
                 t \in DOMAIN rings, NEW i \in DOMAIN rings'[t]
          PROVE  rings'[t][i] > call.asked
      <3>1. CASE t = s
        <4>1. DOMAIN rings'[t] = {}
          BY <1>6, <2>2, <3>1
        <4> QED BY <4>1, <2>2
      <3>2. CASE t # s
        BY <1>1, <1>6, <2>2, <3>2 DEF CallIsOfTake
      <3> QED BY <3>1, <3>2
    <2>3. /\ call'.left \subseteq Opened /\ DOMAIN call'.got \subseteq Opened
          /\ call'.left \cap DOMAIN call'.got = {}
      BY <1>1, <1>4, <1>5, <1>8 DEF CallIsOfTake
    <2>4. call'.asked <= clock'
      BY <1>1, <1>2, <1>4 DEF CallIsOfTake
    <2> QED BY <1>4, <1>6, <1>8, <2>1, <2>2, <2>3, <2>4 DEF CallIsOfTake
  <1>13. DataIsWhole'
    <2>1. ASSUME NEW t \in Opened PROVE Data(t)' = Data(t)
      <3>1. Data(t)' = (files[open_streams[t]].frames \o Kept(got, t)) \o Kept(rings', t)
        BY <1>2, <1>4 DEF Data, Kept, diskVars
      <3>2. CASE t = s
        <4> DEFINE f == files[open_streams[s]].frames
                   r == Kept(rings, s)
        <4>1. f \in Seq(Nat) /\ r \in Seq(Nat)
          BY <1>1, <1>8, DataIsSeq
        <4>2. Kept(got, s) = r /\ Kept(rings', s) = <<>> /\ Kept(call.got, s) = <<>>
          BY <1>5, <1>6, <1>8 DEF Kept
        <4>3. Data(t)' = (f \o r) \o <<>> /\ Data(t) = (f \o <<>>) \o r
          BY <3>1, <3>2, <4>2 DEF Data
        <4> HIDE DEF f, r
        <4>4. (f \o r) \o <<>> = (f \o <<>>) \o r
          BY <4>1, MovedToCall
        <4> QED BY <4>3, <4>4
      <3>3. CASE t # s
        <4>1. Kept(got, t) = Kept(call.got, t) /\ Kept(rings', t) = Kept(rings, t)
          BY <1>5, <1>6, <3>3 DEF Kept
        <4> QED BY <3>1, <4>1 DEF Data
      <3> QED BY <3>2, <3>3
    <2>2. recorders' = recorders /\ UNCHANGED <<clock, overflowed, cut_short>>
      BY <1>2 DEF diskVars
    <2> QED BY <1>1, <1>8, <2>1, <2>2, DataStays
  <1>14. OneTakeEach'
    BY <1>1, <1>2, FilesStay DEF diskVars
  <1> QED BY <1>9, <1>10, <1>11, <1>12, <1>13, <1>14 DEF TakesInv

LEMMA DeleteChannelKeeps ==
    ASSUME TakesInv, TakesAssumption, NEW c, DeleteChannel(c)
    PROVE  TakesInv'
  <1>1. /\ TakesTypeOK /\ TakeIsOpen /\ EngineIsOfTake /\ CallIsOfTake /\ DataIsWhole
        /\ OneTakeEach
    BY DEF TakesInv
  <1>2. /\ channels' = channels \ {c} /\ call.do = "idle" /\ RebuildEngine
        /\ UNCHANGED <<recording, recorder_streams, open_streams, dirs, files, config, cut_short>>
        /\ UNCHANGED <<m_engine, overflowed, call, clock, starts>>
    BY DEF DeleteChannel, diskVars
  <1>3. recording' \/ DOMAIN recorder_streams' = {}
    BY <1>1, <1>2 DEF TakeIsOpen
  <1>4. starts' = starts /\ starts \in Nat /\ starts <= starts'
    BY <1>1, <1>2 DEF TakesTypeOK
  <1>5. \A d \in DOMAIN recorder_streams :
            recorder_streams[d] \in Opened /\ recorder_streams[d] \in {starts} \X Channel
    BY <1>1 DEF TakeIsOpen, Range
  <1>6. /\ DOMAIN rings' \subseteq TakeStream
        /\ \A s \in DOMAIN rings' : rings'[s] \in Seq(Nat) /\ Len(rings'[s]) <= Capacity
        /\ recorders' \subseteq TakeStream
        /\ EngineIsOfTake'
    BY <1>1, <1>2, <1>3, <1>4, <1>5, RebuiltTyped
  <1>7. TakesTypeOK'
    BY <1>1, <1>2, <1>6 DEF TakesTypeOK
  <1>8. TakeIsOpen'
    BY <1>1, <1>2, TakeStays
  <1>9. CallIsOfTake'
    BY <1>1, <1>2 DEF CallIsOfTake, Opened
  <1>10. recorders' \subseteq recorders /\ \A s \in Opened : Kept(rings', s) = Kept(rings, s)
    <2>1. CASE m_engine = "running"
      <3>1. recorders' = {recorder_streams'[d] : d \in DOMAIN recorder_streams' \cap channels'}
        BY <1>2, <1>3, <2>1, Rebuilt
      <3>2. DOMAIN rings' =
                {recorder_streams'[d] : d \in {e \in DOMAIN recorder_streams' :
                    e \in channels' \/ recorder_streams'[e] \in DOMAIN rings}}
        BY <1>2, <1>3, <2>1, Rebuilt
      <3>3. \A s \in DOMAIN rings' : rings'[s] = Kept(rings, s)
        BY <1>2, <1>3, <2>1, Rebuilt
      <3>4. recorders' \subseteq recorders
        BY <1>1, <1>2, <2>1, <3>1 DEF EngineIsOfTake
      <3>5. ASSUME NEW s \in Opened PROVE Kept(rings', s) = Kept(rings, s)
        <4>1. CASE s \in DOMAIN rings'
          BY <3>3, <4>1 DEF Kept
        <4>2. CASE s \notin DOMAIN rings'
          <5>1. PICK d \in DOMAIN recorder_streams : recorder_streams[d] = s
            BY <1>1 DEF TakeIsOpen, Range
          <5>2. s \notin DOMAIN rings
            BY <1>2, <3>2, <4>2, <5>1
          <5> QED BY <4>2, <5>2 DEF Kept
        <4> QED BY <4>1, <4>2
      <3> QED BY <3>4, <3>5
    <2>2. CASE m_engine # "running"
      BY <1>2, <2>2 DEF RebuildEngine
    <2> QED BY <2>1, <2>2
  <1>11. DataIsWhole'
    <2>1. ASSUME NEW s \in Opened PROVE Data(s)' = Data(s)
      <3>1. Data(s)' = (files[open_streams[s]].frames \o Kept(call.got, s)) \o Kept(rings', s)
        BY <1>2 DEF Data, Kept
      <3> QED BY <1>10, <3>1 DEF Data
    <2>2. Opened' = Opened /\ recorders' \cap Opened \subseteq recorders
      BY <1>2, <1>10 DEF Opened
    <2> QED BY <1>1, <1>2, <2>1, <2>2, DataStays
  <1>12. OneTakeEach'
    BY <1>1, <1>2, FilesStay
  <1> QED BY <1>6, <1>7, <1>8, <1>9, <1>11, <1>12 DEF TakesInv

LEMMA UpdateStreamsKeeps ==
    ASSUME TakesInv, UpdateStreams
    PROVE  TakesInv'
  <1>1. /\ TakesTypeOK /\ TakeIsOpen /\ EngineIsOfTake /\ CallIsOfTake /\ DataIsWhole
        /\ OneTakeEach
    BY DEF TakesInv
  <1>2. UNCHANGED <<stateVars, open_streams, dirs, config, engineVars, clock, starts>>
    BY DEF UpdateStreams
  <1> USE <1>2 DEF stateVars, engineVars
  <1>3. call.do # "idle" /\ call.left = {} /\ call' = [call EXCEPT !.got = NoFunction]
    BY DEF UpdateStreams
  <1>4. /\ call'.left = call.left /\ call'.got = NoFunction /\ DOMAIN call'.got = {}
        /\ call'.do = call.do /\ call'.asked = call.asked
        /\ DOMAIN call' = {"do", "left", "got", "asked"}
    BY <1>1, <1>3 DEF TakesTypeOK, NoFunction
  <1>5. DOMAIN files' = DOMAIN files
    BY DEF UpdateStreams
  <1> DEFINE writable == DOMAIN open_streams \cap DOMAIN call.got
             stream(f) == CHOOSE s \in writable : open_streams[s] = f
  <1>6. PICK written \in [writable -> 0 .. Capacity] :
            /\ \A s \in writable : written[s] <= Len(call.got[s])
            /\ files' = [f \in DOMAIN files |->
                    [files[f] EXCEPT !.frames =
                        IF \E s \in writable : open_streams[s] = f
                        THEN @ \o SubSeq(call.got[stream(f)], 1, written[stream(f)])
                        ELSE @]]
            /\ cut_short' = cut_short \cup {s \in writable : written[s] < Len(call.got[s])}
    BY DEF UpdateStreams
  <1> DEFINE given(s) == IF s \in writable THEN SubSeq(call.got[s], 1, written[s]) ELSE <<>>
  <1>7. cut_short \subseteq cut_short'
    BY <1>6
  <1>8. ASSUME NEW s \in Opened
        PROVE  /\ given(s) \in Seq(Nat) /\ Kept(call.got, s) \in Seq(Nat)
               /\ Len(given(s)) <= Len(Kept(call.got, s))
               /\ \A i \in 1 .. Len(given(s)) : given(s)[i] = Kept(call.got, s)[i]
               /\ s \notin cut_short' => given(s) = Kept(call.got, s)
    <2>1. Kept(call.got, s) \in Seq(Nat)
      BY <1>1, DataIsSeq
    <2>2. CASE s \in writable
      <3> DEFINE g == call.got[s]
                 k == written[s]
      <3>1. Kept(call.got, s) = g /\ given(s) = SubSeq(g, 1, k)
        BY <2>2 DEF Kept
      <3>2. g \in Seq(Nat) /\ Len(g) \in Nat /\ \A i \in 1 .. Len(g) : g[i] \in Nat
        BY <2>1, <3>1, LenProperties, ElementOfSeq
      <3>3. k \in Int /\ 0 <= k /\ k <= Len(g)
        BY <1>6, <2>2
      <3>4. s \notin cut_short' => k = Len(g)
        <4>1. s \notin cut_short' => ~(k < Len(g))
          BY <1>6, <2>2
        <4> QED BY <3>2, <3>3, <4>1
      <3> HIDE DEF g, k
      <3>5. /\ SubSeq(g, 1, k) \in Seq(Nat) /\ Len(SubSeq(g, 1, k)) = k
            /\ \A i \in 1 .. k : SubSeq(g, 1, k)[i] = g[i]
        <4>1. \A i \in 1 .. k : g[i] \in Nat
          BY <3>2, <3>3
        <4>2. /\ SubSeq(g, 1, k) \in Seq(Nat)
              /\ Len(SubSeq(g, 1, k)) = IF 1 <= k THEN k - 1 + 1 ELSE 0
              /\ \A i \in 1 .. k - 1 + 1 : SubSeq(g, 1, k)[i] = g[1 + i - 1]
          BY <3>3, <4>1, SubSeqProperties
        <4> QED BY <3>3, <4>2
      <3>6. k = Len(g) => SubSeq(g, 1, k) = g
        BY <3>2, <3>5, SeqEqual
      <3> HIDE DEF given
      <3> QED BY <3>1, <3>2, <3>3, <3>4, <3>5, <3>6
    <2>3. CASE s \notin writable
      <3>1. given(s) = <<>> /\ Kept(call.got, s) = <<>>
        BY <2>3 DEF Kept, Opened
      <3>2. <<>> \in Seq(Nat) /\ Len(<<>>) = 0
        OBVIOUS
      <3> HIDE DEF given
      <3> QED BY <3>1, <3>2
    <2> QED BY <2>2, <2>3
  <1>9. ASSUME NEW f \in DOMAIN files
        PROVE  /\ files[f].frames \in Seq(Nat) /\ files[f].start \in Nat
               /\ files'[f].start = files[f].start
               /\ files'[f] \in [frames : Seq(Nat), start : Nat]
               /\ (\A s \in Opened : open_streams[s] # f) => files'[f] = files[f]
               /\ \A s \in Opened : open_streams[s] = f =>
                    files'[f].frames = files[f].frames \o given(s)
    <2> DEFINE frames == IF \E s \in writable : open_streams[s] = f
                         THEN files[f].frames \o SubSeq(call.got[stream(f)], 1, written[stream(f)])
                         ELSE files[f].frames
    <2>1. files'[f] = [files[f] EXCEPT !.frames = frames]
      BY <1>6
    <2>2. files[f] \in [frames : Seq(Nat), start : Nat]
      BY <1>1 DEF TakesTypeOK
    <2>3. files'[f].start = files[f].start /\ files'[f].frames = frames
      <3> HIDE DEF frames
      <3> QED BY <2>1, <2>2
    <2>4. ASSUME NEW s \in Opened, open_streams[s] = f
          PROVE  frames = files[f].frames \o given(s) /\ frames \in Seq(Nat)
      <3>1. \A t \in Opened : open_streams[t] = f => t = s
        BY <1>1, <2>4 DEF TakeIsOpen
      <3>2. files[f].frames \in Seq(Nat) /\ given(s) \in Seq(Nat)
        BY <1>8, <2>2
      <3>3. files[f].frames \o given(s) \in Seq(Nat)
        BY <3>2, ConcatProperties
      <3>4. CASE s \in writable
        <4>1. stream(f) = s
          BY <2>4, <3>1, <3>4 DEF Opened
        <4>2. \E t \in writable : open_streams[t] = f
          BY <2>4, <3>4
        <4>3. frames = files[f].frames \o given(s)
          BY <3>4, <4>1, <4>2
        <4> QED BY <3>3, <4>3
      <3>5. CASE s \notin writable
        <4>1. frames = files[f].frames
          BY <2>4, <3>1, <3>5 DEF Opened
        <4>2. files[f].frames \o <<>> = files[f].frames
          BY <3>2, ConcatEmptySeq
        <4> QED BY <3>3, <3>5, <4>1, <4>2
      <3> QED BY <3>4, <3>5
    <2>5. ASSUME \A s \in Opened : open_streams[s] # f
          PROVE  frames = files[f].frames
      BY <2>5 DEF Opened
    <2>6. frames \in Seq(Nat)
      <3>1. CASE \A s \in Opened : open_streams[s] # f
        BY <2>2, <2>5, <3>1
      <3>2. CASE ~ \A s \in Opened : open_streams[s] # f
        BY <2>4, <3>2
      <3> QED BY <3>1, <3>2
    <2> HIDE DEF frames
    <2>7. files'[f] \in [frames : Seq(Nat), start : Nat]
      BY <2>1, <2>2, <2>6
    <2>8. ASSUME \A s \in Opened : open_streams[s] # f PROVE files'[f] = files[f]
      BY <2>1, <2>2, <2>5, <2>8
    <2> QED BY <2>2, <2>3, <2>4, <2>7, <2>8
  <1> HIDE DEF given, writable, stream
  <1>10. TakesTypeOK'
    <2>1. \A f \in DOMAIN files' : files'[f] \in [frames : Seq(Nat), start : Nat] /\ f.dir \in dirs
      BY <1>1, <1>5, <1>9 DEF TakesTypeOK
    <2> QED BY <1>1, <1>4, <2>1 DEF TakesTypeOK
  <1>11. TakeIsOpen'
    BY <1>1, <1>5, <1>9, TakeStays
  <1>12. EngineIsOfTake'
    BY <1>1 DEF EngineIsOfTake
  <1>13. CallIsOfTake'
    BY <1>1, <1>4 DEF CallIsOfTake, Opened
  <1>14. ASSUME NEW s \in Opened
         PROVE  /\ Data(s)' = files'[open_streams[s]].frames \o Kept(rings, s)
                /\ Ascends(Data(s)', clock)
                /\ s \notin cut_short' => Data(s)' = Data(s)
    <2> DEFINE f == files[open_streams[s]].frames
               g == Kept(call.got, s)
               p == given(s)
               r == Kept(rings, s)
    <2>1. f \in Seq(Nat) /\ g \in Seq(Nat) /\ r \in Seq(Nat) /\ p \in Seq(Nat)
      BY <1>1, <1>8, DataIsSeq
    <2>2. open_streams[s] \in DOMAIN files
      BY <1>1 DEF TakeIsOpen
    <2>3. files'[open_streams[s]].frames = f \o p
      BY <1>9, <2>2
    <2>4. Data(s)' = ((f \o p) \o <<>>) \o r
      BY <1>4, <2>3 DEF Data, Kept
    <2>5. Data(s) = (f \o g) \o r /\ Ascends(Data(s), clock) /\ clock \in Nat
      BY <1>1 DEF Data, DataIsWhole, TakesTypeOK
    <2>6. /\ Len(p) <= Len(g) /\ \A i \in 1 .. Len(p) : p[i] = g[i]
          /\ s \notin cut_short' => p = g
      BY <1>8
    <2> HIDE DEF f, g, p, r
    <2>7. ((f \o p) \o <<>>) \o r = (f \o p) \o r
      BY <2>1, MovedToFile
    <2>8. Ascends((f \o p) \o r, clock)
      BY <2>1, <2>5, <2>6, PieceIsLost
    <2>9. Data(s)' = (f \o p) \o r
      BY <2>4, <2>7
    <2> QED BY <2>3, <2>5, <2>6, <2>8, <2>9 DEF r
  <1>15. DataIsWhole'
    <2>1. Opened' = Opened /\ recorders' \cap Opened \subseteq recorders
      BY DEF Opened
    <2>2. /\ \A s \in Opened : Ascends(Data(s)', clock)
          /\ \A s \in Opened \ cut_short' : Data(s)' = Data(s)
      BY <1>14
    <2> QED BY <1>1, <1>7, <2>1, <2>2, DataStaysOrIsCut
  <1>16. OneTakeEach'
    <2> SUFFICES ASSUME NEW f \in DOMAIN files, NEW g \in DOMAIN files, f.dir = g.dir
                 PROVE  /\ files'[f].start = files'[g].start
                        /\ \A i \in DOMAIN files'[f].frames : \A j \in DOMAIN files'[f].frames :
                            i < j => files'[f].frames[i] < files'[f].frames[j]
                        /\ /\ files'[f].frames # <<>> /\ files'[g].frames # <<>>
                           /\ StreamsOf(files'[f]) \cap cut_short' = {}
                           => Head(files'[f].frames) = Head(files'[g].frames)
                        /\ /\ files'[f].frames # <<>>
                           /\ StreamsOf(files'[f]) \cap Lossy' = {}
                           => WholeFrames(files'[f], Head(files'[f].frames))
      BY <1>5 DEF OneTakeEach, WholeFrames, StreamsOf, Lossy
    <2>1. /\ files[f].start = files[g].start
          /\ \A i \in DOMAIN files[f].frames : \A j \in DOMAIN files[f].frames :
                i < j => files[f].frames[i] < files[f].frames[j]
          /\ /\ files[f].frames # <<>> /\ files[g].frames # <<>>
             /\ StreamsOf(files[f]) \cap cut_short = {}
             => Head(files[f].frames) = Head(files[g].frames)
          /\ /\ files[f].frames # <<>>
             /\ StreamsOf(files[f]) \cap Lossy = {}
             => WholeFrames(files[f], Head(files[f].frames))
      BY <1>1 DEF OneTakeEach, Lossy
    <2>2. files'[f].start = files'[g].start
      BY <1>9, <2>1
    <2>3. CASE \A s \in Opened : open_streams[s] # f
      <3>1. \A s \in Opened : open_streams[s] # g
        <4> SUFFICES ASSUME NEW s \in Opened, open_streams[s] = g PROVE FALSE
          OBVIOUS
        <4>1. \E t \in Opened : open_streams[t] = f
          BY <1>1 DEF TakeIsOpen
        <4> QED BY <2>3, <4>1
      <3>2. files'[f] = files[f] /\ files'[g] = files[g]
        BY <1>9, <2>3, <3>1
      <3>3. cut_short \subseteq cut_short' /\ Lossy \subseteq Lossy'
        BY <1>7 DEF Lossy
      <3> QED BY <2>1, <3>2, <3>3
    <2>4. CASE ~ \A s \in Opened : open_streams[s] # f
      <3>1. PICK s \in Opened : open_streams[s] = f
        BY <2>4
      <3>2. PICK t \in Opened : open_streams[t] = g
        BY <1>1, <3>1 DEF TakeIsOpen
      <3>3. ASSUME NEW u \in Opened, files'[open_streams[u]].frames # <<>>
            PROVE  /\ files'[open_streams[u]].frames \in Seq(Nat)
                   /\ Ascends(files'[open_streams[u]].frames, clock)
                   /\ u \notin cut_short' =>
                        /\ Data(u) # <<>>
                        /\ Head(files'[open_streams[u]].frames) = Data(u)[1]
                        /\ Whole(Data(u)) => Whole(files'[open_streams[u]].frames)
        <4> DEFINE q == files'[open_streams[u]].frames
                   r == Kept(rings, u)
        <4>1. q \in Seq(Nat) /\ r \in Seq(Nat)
          <5>1. open_streams[u] \in DOMAIN files
            BY <1>1 DEF TakeIsOpen
          <5>2. q \in Seq(Nat)
            BY <1>9, <5>1
          <5>3. r \in Seq(Nat)
            BY <1>1, DataIsSeq
          <5> QED BY <5>2, <5>3
        <4>2. /\ u \notin cut_short' => Data(u) = q \o r
              /\ q # <<>> /\ Ascends(q \o r, clock) /\ clock \in Nat
          BY <1>1, <1>14, <3>3 DEF TakesTypeOK
        <4> HIDE DEF q, r
        <4>3. q \o r # <<>>
          BY <4>1, <4>2, FileBegins
        <4>4. q[1] = (q \o r)[1]
          BY <4>1, <4>2, FileBegins
        <4>5. Whole(q \o r) => Whole(q)
          BY <4>1, <4>2, FileBegins
        <4>6. Head(q) = q[1]
          BY <4>1, <4>2
        <4>7. Ascends(q, clock)
          BY <4>1, <4>2, FileBegins
        <4> QED BY <4>1, <4>2, <4>3, <4>4, <4>5, <4>6, <4>7 DEF q
      <3>4. /\ s \in {starts} \X Channel /\ t \in {starts} \X Channel
            /\ files'[f].start = starts
            /\ s \in StreamsOf(files'[f]) /\ t \in StreamsOf(files'[f])
        <4>1. /\ s \in {starts} \X Channel /\ t \in {starts} \X Channel
              /\ files'[f].start = starts
          BY <1>1, <1>9, <3>1 DEF TakeIsOpen
        <4> QED BY <4>1 DEF StreamsOf
      <3>5. ASSUME NEW i \in DOMAIN files'[f].frames, NEW j \in DOMAIN files'[f].frames, i < j
            PROVE  files'[f].frames[i] < files'[f].frames[j]
        <4>1. files'[f].frames # <<>>
          OBVIOUS
        <4>2. files'[f].frames \in Seq(Nat) /\ Ascends(files'[f].frames, clock)
          BY <3>1, <3>3, <4>1
        <4>3. DOMAIN files'[f].frames = 1 .. Len(files'[f].frames)
          BY <4>2, LenProperties
        <4> QED BY <3>5, <4>2, <4>3 DEF Ascends
      <3>6. ASSUME files'[f].frames # <<>>, files'[g].frames # <<>>,
                   StreamsOf(files'[f]) \cap cut_short' = {}
            PROVE  Head(files'[f].frames) = Head(files'[g].frames)
        <4>1. s \notin cut_short' /\ t \notin cut_short' /\ s \notin cut_short /\ t \notin cut_short
          BY <1>7, <3>4, <3>6
        <4>2. Data(s) # <<>> /\ Head(files'[f].frames) = Data(s)[1]
          BY <3>1, <3>3, <3>6, <4>1
        <4>3. Data(t) # <<>> /\ Head(files'[g].frames) = Data(t)[1]
          BY <3>2, <3>3, <3>6, <4>1
        <4> QED BY <1>1, <4>1, <4>2, <4>3 DEF DataIsWhole
      <3>7. ASSUME files'[f].frames # <<>>, StreamsOf(files'[f]) \cap Lossy' = {}
            PROVE  WholeFrames(files'[f], Head(files'[f].frames))
        <4> DEFINE q == files'[f].frames
        <4>1. s \notin cut_short' /\ s \notin Lossy
          BY <1>7, <3>4, <3>7 DEF Lossy
        <4>2. Whole(Data(s))
          BY <1>1, <4>1 DEF DataIsWhole
        <4>3. Whole(q) /\ q \in Seq(Nat) /\ Head(q) = q[1]
          <5>1. q \in Seq(Nat) /\ Whole(q)
            BY <3>1, <3>3, <3>7, <4>1, <4>2
          <5> QED BY <3>7, <5>1
        <4> HIDE DEF q
        <4>4. DOMAIN q = 1 .. Len(q) /\ \A i \in 1 .. Len(q) : q[i] = Head(q) + i - 1
          BY <4>3, LenProperties DEF Whole
        <4>5. q = [i \in DOMAIN q |-> q[i]]
          BY <4>3
        <4>6. q = [i \in DOMAIN q |-> Head(q) + i - 1]
          BY <4>4, <4>5
        <4> QED BY <4>6 DEF WholeFrames, q
      <3> QED BY <2>2, <3>5, <3>6, <3>7
    <2> QED BY <2>3, <2>4
  <1> QED BY <1>10, <1>11, <1>12, <1>13, <1>15, <1>16 DEF TakesInv

-----------------------------------------------------------------------------
(* Takes begin and end. *)

LEMMA EndTakeKeeps ==
    ASSUME TakesInv, TakesAssumption, EndTake
    PROVE  TakesInv'
  <1>1. /\ TakesTypeOK /\ TakeIsOpen /\ EngineIsOfTake /\ CallIsOfTake /\ OneTakeEach
    BY DEF TakesInv
  <1>2. /\ open_streams' = NoFunction /\ recording' = FALSE /\ recorder_streams' = NoFunction
        /\ UNCHANGED <<channels, dirs, files, m_engine, overflowed, cut_short, clock, starts>>
        /\ RebuildEngine
        /\ call' = IF call.do = "device" THEN [NoCall EXCEPT !.do = "reopen"] ELSE NoCall
    BY DEF EndTake
  <1>3. DOMAIN recorder_streams' = {} /\ Opened' = {} /\ Range(recorder_streams') = {}
    BY <1>2 DEF NoFunction, Opened, Range
  <1>4. /\ DOMAIN call' = {"do", "left", "got", "asked"}
        /\ call'.do \in {"idle", "reopen"} /\ call'.got = NoFunction /\ call'.asked = 0
        /\ call'.left = {}
    BY <1>2 DEF NoCall
  <1>5. DOMAIN call'.got = {} /\ clock \in Nat /\ 0 <= clock
    BY <1>1, <1>4 DEF NoFunction, TakesTypeOK
  <1>6. starts' = starts /\ starts \in Nat /\ starts <= starts'
    BY <1>1, <1>2 DEF TakesTypeOK
  <1>7. /\ DOMAIN rings' \subseteq TakeStream
        /\ \A s \in DOMAIN rings' : rings'[s] \in Seq(Nat) /\ Len(rings'[s]) <= Capacity
        /\ recorders' \subseteq TakeStream
        /\ EngineIsOfTake'
    BY <1>1, <1>2, <1>3, <1>6, RebuiltTyped
  <1>8. TakesTypeOK'
    <2>1. recording' \in BOOLEAN
      BY <1>2
    <2> QED BY <1>1, <1>2, <1>3, <1>4, <1>5, <1>7, <2>1 DEF TakesTypeOK
  <1>9. TakeIsOpen'
    BY <1>3 DEF TakeIsOpen
  <1>10. CallIsOfTake'
    BY <1>2, <1>4, <1>5 DEF CallIsOfTake
  <1>11. DataIsWhole'
    BY <1>3, NothingOpen
  <1>12. OneTakeEach'
    BY <1>1, <1>2, FilesStay
  <1> QED BY <1>7, <1>8, <1>9, <1>10, <1>11, <1>12 DEF TakesInv

LEMMA ReopenKeeps ==
    ASSUME TakesInv, Reopen
    PROVE  TakesInv'
  <1>1. /\ TakesTypeOK /\ TakeIsOpen /\ EngineIsOfTake /\ CallIsOfTake /\ OneTakeEach
    BY DEF TakesInv
  <1>2. /\ call.do = "reopen" /\ call' = NoCall /\ m_engine' \in {"none", "running"}
        /\ rings' = NoFunction /\ recorders' = {}
        /\ UNCHANGED <<channels, recording, recorder_streams, open_streams, dirs, files>>
        /\ UNCHANGED <<overflowed, cut_short, clock, starts>>
    BY DEF Reopen, stateVars, diskVars
  <1>3. DOMAIN rings' = {} /\ DOMAIN recorder_streams = {} /\ Opened' = {}
    <2>1. DOMAIN recorder_streams = {} /\ Range(recorder_streams) = Opened
      BY <1>1, <1>2 DEF CallIsOfTake, TakeIsOpen
    <2>2. Opened = {} /\ Opened' = Opened
      BY <1>2, <2>1 DEF Range, Opened
    <2> QED BY <1>2, <2>1, <2>2 DEF NoFunction
  <1>4. /\ DOMAIN call' = {"do", "left", "got", "asked"} /\ call'.do = "idle"
        /\ call'.left = {} /\ DOMAIN call'.got = {} /\ call'.asked = 0
    BY <1>2 DEF NoCall, NoFunction
  <1>5. clock \in Nat /\ 0 <= clock
    BY <1>1 DEF TakesTypeOK
  <1>6. TakesTypeOK'
    BY <1>1, <1>2, <1>3, <1>4 DEF TakesTypeOK
  <1>7. TakeIsOpen'
    BY <1>1, <1>2, TakeStays
  <1>8. EngineIsOfTake'
    BY <1>2, <1>3 DEF EngineIsOfTake
  <1>9. CallIsOfTake'
    BY <1>2, <1>4, <1>5 DEF CallIsOfTake
  <1>10. DataIsWhole'
    BY <1>3, NothingOpen
  <1>11. OneTakeEach'
    BY <1>1, <1>2, FilesStay
  <1> QED BY <1>6, <1>7, <1>8, <1>9, <1>10, <1>11 DEF TakesInv

LEMMA StartedKeeps ==
    ASSUME TakesInv, NEW session, Started(session),
           UNCHANGED <<dirs, files, overflowed, cut_short, clock, starts>>
    PROVE  TakesInv'
  <1>1. TakesTypeOK /\ OneTakeEach
    BY DEF TakesInv
  <1>2. /\ channels' = Channel /\ recording' = FALSE /\ recorder_streams' = NoFunction
        /\ open_streams' = NoFunction /\ m_engine' = "none" /\ rings' = NoFunction
        /\ recorders' = {} /\ call' = NoCall
    BY DEF Started
  <1>3. /\ DOMAIN rings' = {} /\ DOMAIN recorder_streams' = {} /\ Opened' = {}
        /\ Range(recorder_streams') = {}
    BY <1>2 DEF NoFunction, Opened, Range
  <1>4. /\ DOMAIN call' = {"do", "left", "got", "asked"} /\ call'.do = "idle"
        /\ call'.left = {} /\ DOMAIN call'.got = {} /\ call'.asked = 0
    BY <1>2 DEF NoCall, NoFunction
  <1>5. clock \in Nat /\ 0 <= clock
    BY <1>1 DEF TakesTypeOK
  <1>6. TakesTypeOK'
    <2>1. recording' \in BOOLEAN
      BY <1>2
    <2> QED BY <1>1, <1>2, <1>3, <1>4, <2>1 DEF TakesTypeOK
  <1>7. TakeIsOpen'
    BY <1>3 DEF TakeIsOpen
  <1>8. EngineIsOfTake'
    BY <1>2, <1>3 DEF EngineIsOfTake
  <1>9. CallIsOfTake'
    BY <1>3, <1>4, <1>5 DEF CallIsOfTake
  <1>10. DataIsWhole'
    BY <1>3, NothingOpen
  <1>11. OneTakeEach'
    BY <1>1, FilesStay
  <1> QED BY <1>6, <1>7, <1>8, <1>9, <1>10, <1>11 DEF TakesInv

LEMMA NothingOpenedKeeps ==
    ASSUME TakesInv, TakesAssumption, NEW opened, StartRecording(opened),
           NothingOpened, dirs \subseteq dirs'
    PROVE  TakesInv'
  <1>1. TakesTypeOK /\ TakeIsOpen /\ EngineIsOfTake /\ CallIsOfTake /\ OneTakeEach
    BY DEF TakesInv
  <1>2. /\ call.do = "idle" /\ ~recording /\ starts' = starts + 1 /\ RebuildEngine
        /\ UNCHANGED <<channels, m_engine, overflowed, cut_short, call, clock>>
        /\ UNCHANGED <<recording, recorder_streams, open_streams, files>>
    BY DEF StartRecording, NothingOpened
  <1>3. /\ DOMAIN recorder_streams = {} /\ Range(recorder_streams) = {}
        /\ Opened = {} /\ Opened' = {} /\ recording' = FALSE
    <2>1. DOMAIN recorder_streams = {} /\ Range(recorder_streams) = Opened
      BY <1>1, <1>2 DEF TakeIsOpen
    <2>2. Opened = {} /\ Opened' = Opened
      BY <1>2, <2>1 DEF Range, Opened
    <2>3. recording' = FALSE
      BY <1>1, <1>2 DEF TakesTypeOK
    <2> QED BY <2>1, <2>2, <2>3
  <1>4. starts' \in Nat /\ starts <= starts'
    BY <1>1, <1>2 DEF TakesTypeOK
  <1>5. /\ DOMAIN rings' \subseteq TakeStream
        /\ \A s \in DOMAIN rings' : rings'[s] \in Seq(Nat) /\ Len(rings'[s]) <= Capacity
        /\ recorders' \subseteq TakeStream
        /\ EngineIsOfTake'
    BY <1>1, <1>2, <1>3, <1>4, RebuiltTyped
  <1>6. TakesTypeOK'
    BY <1>1, <1>2, <1>4, <1>5 DEF TakesTypeOK
  <1>7. TakeIsOpen'
    BY <1>2, <1>3 DEF TakeIsOpen
  <1>8. CallIsOfTake'
    BY <1>1, <1>2, <1>3 DEF CallIsOfTake
  <1>9. DataIsWhole'
    BY <1>3, NothingOpen
  <1>10. OneTakeEach'
    BY <1>1, <1>2, FilesStay
  <1> QED BY <1>5, <1>6, <1>7, <1>8, <1>9, <1>10 DEF TakesInv

LEMMA OpenFilesKeeps ==
    ASSUME TakesInv, TakesAssumption, NEW opened, opened \subseteq channels,
           StartRecording(opened), CreateDirectory, OpenFiles(opened)
    PROVE  TakesInv'
  <1>1. TakesTypeOK /\ TakeIsOpen /\ EngineIsOfTake /\ CallIsOfTake /\ OneTakeEach
    BY DEF TakesInv
  <1>2. /\ call.do = "idle" /\ ~recording /\ starts' = starts + 1 /\ RebuildEngine
        /\ UNCHANGED <<channels, m_engine, overflowed, cut_short, call, clock>>
        /\ Dir \notin dirs /\ dirs' = dirs \cup {Dir}
    BY DEF StartRecording, CreateDirectory
  <1>3. PICK names \in FileNames(opened) :
            /\ recorder_streams' = [c \in opened |-> <<starts', c>>]
            /\ open_streams' = [s \in {<<starts', c>> : c \in opened} |-> names[s[2]]]
            /\ files' = [f \in DOMAIN files \cup Range(names) |->
                            IF f \in DOMAIN files THEN files[f]
                            ELSE [frames |-> <<>>, start |-> starts']]
            /\ recording' = TRUE
    BY DEF OpenFiles
  <1>4. /\ DOMAIN names = opened
        /\ \A c \in opened : names[c].dir = Dir
        /\ \A c, d \in opened : names[c] = names[d] => c = d
    <2> DEFINE taken == Cardinality({f \in DOMAIN files : f.dir = Dir})
               free == {[dir |-> Dir, num |-> n] : n \in taken .. taken + Cardinality(opened) - 1}
    <2>1. ASSUME NEW g \in free PROVE g.dir = Dir
      <3>1. PICK n \in taken .. taken + Cardinality(opened) - 1 : g = [dir |-> Dir, num |-> n]
        OBVIOUS
      <3> QED BY <3>1
    <2>2. names \in Injection(opened, free)
      BY <1>3 DEF FileNames
    <2> HIDE DEF free
    <2> QED BY <2>1, <2>2 DEF Injection, IsInjective
  <1>5. \A f \in Range(names) : f.dir = Dir /\ \E c \in opened : names[c] = f
    BY <1>4 DEF Range
  <1>6. \A f \in DOMAIN files : f.dir \in dirs /\ f.dir # Dir /\ f \notin Range(names)
    BY <1>1, <1>2, <1>5 DEF TakesTypeOK
  <1>7. /\ DOMAIN files' = DOMAIN files \cup Range(names)
        /\ \A f \in DOMAIN files : files'[f] = files[f]
        /\ \A f \in Range(names) : files'[f] = [frames |-> <<>>, start |-> starts']
    BY <1>3, <1>6
  <1>8. /\ Opened' = {<<starts', c>> : c \in opened}
        /\ DOMAIN recorder_streams' = opened
        /\ \A c \in opened : /\ recorder_streams'[c] = <<starts', c>>
                             /\ open_streams'[<<starts', c>>] = names[c]
    BY <1>3 DEF Opened
  <1>9. starts' \in Nat /\ starts <= starts' /\ starts < starts' /\ starts \in Nat
    BY <1>1, <1>2 DEF TakesTypeOK
  <1>10. opened \subseteq Channel
    BY <1>1 DEF TakesTypeOK
  <1>11. /\ DOMAIN rings' \subseteq TakeStream
         /\ \A s \in DOMAIN rings' : rings'[s] \in Seq(Nat) /\ Len(rings'[s]) <= Capacity
         /\ recorders' \subseteq TakeStream
         /\ EngineIsOfTake'
    <2>1. ASSUME NEW c \in DOMAIN recorder_streams'
          PROVE  recorder_streams'[c] \in {starts'} \X Channel
      <3>1. c \in Channel /\ recorder_streams'[c] = <<starts', c>>
        BY <1>8, <1>10
      <3> QED BY <3>1
    <2>2. recording'
      BY <1>3
    <2> QED BY <1>1, <1>2, <1>9, <2>1, <2>2, RebuiltTyped
  <1>12. TakesTypeOK'
    <2>1. recording' \in BOOLEAN
      BY <1>3
    <2>2. ASSUME NEW f \in DOMAIN files'
          PROVE  files'[f] \in [frames : Seq(Nat), start : Nat] /\ f.dir \in dirs'
      <3>1. CASE f \in DOMAIN files
        BY <1>1, <1>2, <1>7, <3>1 DEF TakesTypeOK
      <3>2. CASE f \in Range(names)
        <4>1. <<>> \in Seq(Nat)
          OBVIOUS
        <4>2. [frames |-> <<>>, start |-> starts'] \in [frames : Seq(Nat), start : Nat]
          BY <1>9, <4>1
        <4> QED BY <1>2, <1>5, <1>7, <3>2, <4>2
      <3> QED BY <1>7, <3>1, <3>2
    <2>3. DOMAIN recorder_streams' \subseteq Channel
      BY <1>8, <1>10
    <2> QED BY <1>1, <1>2, <1>9, <1>11, <2>1, <2>2, <2>3 DEF TakesTypeOK
  <1>13. TakeIsOpen'
    <2>1. Opened' \subseteq {starts'} \X Channel
      BY <1>8, <1>10
    <2>2. Range(recorder_streams') = Opened'
      BY <1>8 DEF Range
    <2>3. ASSUME NEW s \in Opened'
          PROVE  /\ open_streams'[s] \in DOMAIN files'
                 /\ files'[open_streams'[s]].start = starts'
                 /\ \A t \in Opened' : open_streams'[t] = open_streams'[s] => t = s
                 /\ \A f \in DOMAIN files' :
                    f.dir = open_streams'[s].dir => \E t \in Opened' : open_streams'[t] = f
      <3>1. PICK c \in opened : s = <<starts', c>>
        BY <1>8
      <3>2. open_streams'[s] = names[c] /\ names[c] \in Range(names) /\ names[c].dir = Dir
        BY <1>4, <1>8, <3>1 DEF Range
      <3>3. open_streams'[s] \in DOMAIN files' /\ files'[open_streams'[s]].start = starts'
        BY <1>7, <3>2
      <3>4. ASSUME NEW t \in Opened', open_streams'[t] = open_streams'[s] PROVE t = s
        <4>1. PICK d \in opened : t = <<starts', d>>
          BY <1>8
        <4>2. names[d] = names[c]
          BY <1>8, <3>2, <3>4, <4>1
        <4> QED BY <1>4, <3>1, <4>1, <4>2
      <3>5. ASSUME NEW f \in DOMAIN files', f.dir = open_streams'[s].dir
            PROVE  \E t \in Opened' : open_streams'[t] = f
        <4>1. f \in Range(names)
          BY <1>6, <1>7, <3>2, <3>5
        <4>2. PICK d \in opened : names[d] = f
          BY <1>5, <4>1
        <4>3. <<starts', d>> \in Opened' /\ open_streams'[<<starts', d>>] = f
          BY <1>8, <4>2
        <4> QED BY <4>3
      <3> QED BY <3>3, <3>4, <3>5
    <2> QED BY <1>3, <2>1, <2>2, <2>3 DEF TakeIsOpen
  <1>14. CallIsOfTake'
    BY <1>1, <1>2 DEF CallIsOfTake
  <1>15. ASSUME NEW s \in Opened' PROVE Data(s)' = <<>>
    <2>1. PICK c \in opened : s = <<starts', c>>
      BY <1>8
    <2>2. files'[open_streams'[s]].frames = <<>>
      BY <1>4, <1>7, <1>8, <2>1 DEF Range
    <2>3. Kept(call'.got, s) = <<>>
      BY <1>1, <1>2 DEF CallIsOfTake, Kept
    <2>4. s \notin DOMAIN rings
      <3> SUFFICES ASSUME s \in DOMAIN rings PROVE FALSE
        OBVIOUS
      <3>1. s[1] <= starts /\ s[1] = starts'
        BY <1>1, <2>1 DEF EngineIsOfTake
      <3> QED BY <1>9, <3>1
    <2>5. Kept(rings', s) = <<>>
      <3>1. CASE m_engine = "running"
        <4>1. \A t \in DOMAIN rings' : rings'[t] = Kept(rings, t)
          BY <1>2, <1>3, <3>1, Rebuilt
        <4> QED BY <2>4, <4>1 DEF Kept
      <3>2. CASE m_engine # "running"
        <4>1. rings' = rings
          BY <1>2, <3>2 DEF RebuildEngine
        <4> QED BY <2>4, <4>1 DEF Kept
      <3> QED BY <3>1, <3>2
    <2>6. Data(s)' = (files'[open_streams'[s]].frames \o Kept(call'.got, s)) \o Kept(rings', s)
      BY DEF Data, Kept
    <2>7. (<<>> \o <<>>) \o <<>> = <<>>
      OBVIOUS
    <2> QED BY <2>2, <2>3, <2>5, <2>6, <2>7
  <1>16. DataIsWhole'
    <2>1. Whole(<<>>) /\ Ascends(<<>>, clock')
      BY DEF Whole, Ascends
    <2>2. \A s \in Opened' : Whole(Data(s)') /\ Ascends(Data(s)', clock')
      BY <1>15, <2>1
    <2> QED BY <1>15, <2>2 DEF DataIsWhole, Whole, Ascends
  <1>17. OneTakeEach'
    <2> SUFFICES ASSUME NEW f \in DOMAIN files', NEW g \in DOMAIN files', f.dir = g.dir
                 PROVE  /\ files'[f].start = files'[g].start
                        /\ \A i \in DOMAIN files'[f].frames : \A j \in DOMAIN files'[f].frames :
                            i < j => files'[f].frames[i] < files'[f].frames[j]
                        /\ /\ files'[f].frames # <<>> /\ files'[g].frames # <<>>
                           /\ StreamsOf(files'[f]) \cap cut_short' = {}
                           => Head(files'[f].frames) = Head(files'[g].frames)
                        /\ /\ files'[f].frames # <<>>
                           /\ StreamsOf(files'[f]) \cap Lossy' = {}
                           => WholeFrames(files'[f], Head(files'[f].frames))
      BY <1>2 DEF OneTakeEach, WholeFrames, StreamsOf, Lossy
    <2>1. CASE f \in DOMAIN files
      <3>1. g \in DOMAIN files
        BY <1>5, <1>6, <1>7, <2>1
      <3>2. files'[f] = files[f] /\ files'[g] = files[g]
        BY <1>7, <2>1, <3>1
      <3>3. cut_short' = cut_short /\ Lossy' = Lossy
        BY <1>2 DEF Lossy
      <3> QED BY <1>1, <2>1, <3>1, <3>2, <3>3 DEF OneTakeEach, Lossy
    <2>2. CASE f \notin DOMAIN files
      <3>1. f \in Range(names) /\ g \in Range(names)
        BY <1>5, <1>6, <1>7, <2>2
      <3>2. files'[f].frames = <<>> /\ files'[f].start = files'[g].start
        BY <1>7, <3>1
      <3>3. DOMAIN files'[f].frames = {}
        BY <3>2
      <3> QED BY <3>2, <3>3
    <2> QED BY <2>1, <2>2
  <1> QED BY <1>11, <1>12, <1>13, <1>14, <1>16, <1>17 DEF TakesInv

LEMMA StartRecordingKeeps ==
    ASSUME TakesInv, TakesAssumption, NEW opened \in SUBSET channels, StartRecording(opened)
    PROVE  TakesInv'
  <1>1. CASE CreateDirectory /\ OpenFiles(opened)
    BY <1>1, OpenFilesKeeps
  <1>2. CASE NothingOpened /\ dirs \subseteq dirs'
    BY <1>2, NothingOpenedKeeps
  <1>3. \/ CreateDirectory /\ (NothingOpened \/ OpenFiles(opened))
        \/ UNCHANGED dirs /\ NothingOpened
    BY DEF StartRecording
  <1>4. CreateDirectory => dirs \subseteq dirs'
    BY DEF CreateDirectory
  <1> QED BY <1>1, <1>2, <1>3, <1>4

-----------------------------------------------------------------------------
(* The invariant holds, and what it says of the takes. *)

LEMMA TakesBegin == TakesInit => TakesInv
  <1> SUFFICES ASSUME TakesInit PROVE TakesInv
    OBVIOUS
  <1>1. /\ DOMAIN rings = {} /\ DOMAIN recorder_streams = {} /\ Opened = {}
        /\ Range(recorder_streams) = {} /\ DOMAIN files = {}
    BY DEF TakesInit, NoFunction, Opened, Range
  <1>2. /\ DOMAIN call = {"do", "left", "got", "asked"} /\ call.do = "idle"
        /\ call.left = {} /\ DOMAIN call.got = {} /\ call.asked = 0
    BY DEF TakesInit, NoCall, NoFunction
  <1>3. /\ channels = Channel /\ m_engine = "none" /\ recorders = {} /\ clock = 0
        /\ starts = 0
    BY DEF TakesInit
  <1>4. recording \in BOOLEAN
    BY DEF TakesInit
  <1>5. TakesTypeOK
    BY <1>1, <1>2, <1>3, <1>4 DEF TakesTypeOK
  <1>6. TakeIsOpen
    BY <1>1 DEF TakeIsOpen
  <1>7. EngineIsOfTake
    BY <1>1, <1>3 DEF EngineIsOfTake
  <1>8. CallIsOfTake
    BY <1>1, <1>2, <1>3 DEF CallIsOfTake
  <1>9. DataIsWhole
    BY <1>1 DEF DataIsWhole
  <1>10. OneTakeEach
    BY <1>1 DEF OneTakeEach
  <1> QED BY <1>5, <1>6, <1>7, <1>8, <1>9, <1>10 DEF TakesInv

LEMMA TakesContinue ==
    ASSUME TakesInv, TakesAssumption, [TakesNext]_takeVars
    PROVE  TakesInv'
  <1>0. CallIsOfTake
    BY DEF TakesInv
  <1>1. CASE Cycle
    BY <1>1, CycleKeeps
  <1>2. CASE DeviceFails
    BY <1>2, DeviceFailsKeeps
  <1>3. ASSUME NEW opened \in SUBSET channels, StartRecording(opened)
        PROVE  TakesInv'
    BY <1>3, StartRecordingKeeps
  <1>4. CASE UpdateRecorderStreams
    BY <1>4, RequestStreamsKeeps DEF UpdateRecorderStreams
  <1>5. CASE UpdateEnds
    <2>1. /\ DOMAIN call.got = {}
          /\ UNCHANGED <<stateVars, diskVars, engineVars, clock, starts>>
      BY <1>5 DEF UpdateEnds, Collected, NoFunction
    <2>2. /\ DOMAIN call' = {"do", "left", "got", "asked"} /\ call'.do = "idle"
          /\ call'.left = {} /\ DOMAIN call'.got = {} /\ call'.asked = 0
      BY <1>5 DEF UpdateEnds, NoCall, NoFunction
    <2> QED BY <2>1, <2>2, CallEndsKeeps
  <1>6. ASSUME NEW s \in call.left, GetStream(s)
        PROVE  TakesInv'
    BY <1>6, GetStreamKeeps
  <1>7. CASE UpdateStreams
    BY <1>7, UpdateStreamsKeeps
  <1>8. CASE Stop
    BY <1>8, RequestStreamsKeeps DEF Stop, StopRecording
  <1>9. CASE ChangeDevice
    <2>1. CASE recording
      BY <1>9, <2>1, RequestStreamsKeeps DEF ChangeDevice, StopRecording
    <2>2. CASE ~recording
      <3>1. DOMAIN call.got = {}
        BY <1>0, <1>9 DEF ChangeDevice, CallIsOfTake
      <3>2. UNCHANGED <<stateVars, diskVars, engineVars, clock, starts>>
        BY <1>9 DEF ChangeDevice
      <3>3. /\ DOMAIN call' = {"do", "left", "got", "asked"} /\ call'.do = "reopen"
            /\ call'.left = {} /\ DOMAIN call'.got = {} /\ call'.asked = 0
        BY <1>9, <2>2 DEF ChangeDevice, NoCall, NoFunction
      <3> QED BY <2>2, <3>1, <3>2, <3>3, CallEndsKeeps
    <2> QED BY <2>1, <2>2
  <1>10. CASE EndTake
    BY <1>10, EndTakeKeeps
  <1>11. CASE Reopen
    BY <1>11, ReopenKeeps
  <1>12. ASSUME NEW c \in Channel, DeleteChannel(c)
         PROVE  TakesInv'
    BY <1>12, DeleteChannelKeeps
  <1>13. CASE Quit
    BY <1>13, StartedKeeps DEF Quit
  <1>14. CASE Crash
    BY <1>14, StartedKeeps DEF Crash
  <1>15. CASE UNCHANGED takeVars
    <2> USE <1>15 DEF takeVars, stateVars, diskVars, engineVars
    <2>1. /\ TakesTypeOK /\ TakeIsOpen /\ EngineIsOfTake /\ CallIsOfTake /\ DataIsWhole
          /\ OneTakeEach
      BY DEF TakesInv
    <2>2. TakesTypeOK'
      BY <2>1 DEF TakesTypeOK
    <2>3. TakeIsOpen'
      BY <2>1, TakeStays
    <2>4. EngineIsOfTake'
      BY <2>1 DEF EngineIsOfTake
    <2>5. CallIsOfTake'
      BY <2>1 DEF CallIsOfTake, Opened
    <2>6. DataIsWhole'
      BY <2>1, DataStays DEF Data, Kept, Opened
    <2>7. OneTakeEach'
      BY <2>1, FilesStay
    <2> QED BY <2>2, <2>3, <2>4, <2>5, <2>6, <2>7 DEF TakesInv
  <1> QED BY <1>1, <1>2, <1>3, <1>4, <1>5, <1>6, <1>7, <1>8, <1>9, <1>10, <1>11, <1>12,
             <1>13, <1>14, <1>15 DEF TakesNext

LEMMA StopIsComplete ==
    ASSUME TakesInv
    PROVE  StopKeepsAll
  <1>1. TakesTypeOK /\ TakeIsOpen /\ CallIsOfTake /\ DataIsWhole
    BY DEF TakesInv
  <1> SUFFICES ASSUME call.do \in {"stop", "device"}, Collected, NEW s \in Opened
      PROVE  /\ s \in DOMAIN rings => \A i \in DOMAIN rings[s] : rings[s][i] > call.asked
             /\ s \in recorders \ Lossy /\ files[open_streams[s]].frames # <<>> =>
                Last(files[open_streams[s]].frames) >= call.asked
    BY DEF StopKeepsAll, Opened, Lossy
  <1>2. call.left = {} /\ Kept(call.got, s) = <<>>
    BY DEF Collected, NoFunction, Kept
  <1>3. s \in DOMAIN rings => \A i \in DOMAIN rings[s] : rings[s][i] > call.asked
    BY <1>1, <1>2 DEF CallIsOfTake
  <1>4. ASSUME s \in recorders \ Lossy, files[open_streams[s]].frames # <<>>
        PROVE  Last(files[open_streams[s]].frames) >= call.asked
    <2> DEFINE f == files[open_streams[s]].frames
               r == Kept(rings, s)
    <2>1. f \in Seq(Nat) /\ r \in Seq(Nat) /\ f # <<>>
      BY <1>1, <1>4, DataIsSeq
    <2>2. Data(s) = f \o r
      <3>1. f \o <<>> = f
        BY <2>1, ConcatEmptySeq
      <3> QED BY <1>2, <3>1 DEF Data
    <2>3. \A i \in 1 .. Len(r) : r[i] > call.asked
      <3>1. CASE s \in DOMAIN rings
        <4>1. r = rings[s] /\ DOMAIN r = 1 .. Len(r)
          BY <2>1, <3>1 DEF Kept
        <4> QED BY <1>3, <3>1, <4>1
      <3>2. CASE s \notin DOMAIN rings
        <4>1. r = <<>> /\ Len(<<>>) = 0
          BY <3>2 DEF Kept
        <4> QED BY <4>1
      <3> QED BY <3>1, <3>2
    <2>4. call.asked \in Nat /\ clock \in Nat /\ call.asked <= clock
      BY <1>1 DEF TakesTypeOK, CallIsOfTake
    <2> HIDE DEF f, r
    <2>5. f \o r # <<>>
      BY <2>1, FileBegins
    <2>6. Whole(f \o r) /\ (f \o r)[Len(f \o r)] = clock
      BY <1>1, <1>4, <2>2, <2>5 DEF DataIsWhole
    <2>7. f[Len(f)] >= call.asked
      BY <2>1, <2>3, <2>4, <2>6, FileReachesAsked
    <2> QED BY <2>7 DEF Last, f
  <1> QED BY <1>3, <1>4

\* Takes are whole, for any channels, rings of any size and any number of takes
\* and restarts: in the files of a directory is one take, with nothing twice or
\* out of order; it begins for all of them with the same frame unless a write
\* has lost frames, has no gap unless that has happened or a ring has overflowed,
\* and ends no sooner than the stop that was asked for; of recorder_middleware,
\* audio_engine_middleware and make_recorder_processors.
THEOREM SpecTakesAreWhole == TakesSpec => []TakesAreWhole
  <1>1. TakesInit => TakesInv
    BY TakesBegin
  <1>2. TakesInv /\ [TakesNext]_takeVars => TakesInv'
    BY TakesContinue, TakesAssumption
  <1>3. TakesInv => TakesAreWhole
    BY StopIsComplete DEF TakesInv, TakesAreWhole
  <1> QED BY <1>1, <1>2, <1>3, PTL DEF TakesSpec

-----------------------------------------------------------------------------
(***************************************************************************)
(* Spectra.  A window that chunks are shifted into one after another is    *)
(* the one that all of them are shifted into at once; so the windows of    *)
(* the streams that are on hold the same frames as long as the generators  *)
(* are made anew together.  The magnitude is a sum that is defined by      *)
(* recursion: what holds of it is shown by looking at the least place      *)
(* where it would not.                                                     *)
(***************************************************************************)
\* The frames that a window holds, of frames without a value at first.
Sample == [frame : Int, value : Int]
Window == {w \in Seq(Sample) : Len(w) = Len(Hann)}
FramesOf(w) == [n \in DOMAIN Hann |-> w[n].frame]
NoFrames == [n \in DOMAIN Hann |-> 0]

SpectrumTypeOK ==
    /\ busType \in {"mono", "stereo"}
    /\ view \in [active : [Stream -> BOOLEAN], channel : [Stream -> StereoChannel],
                 gain : [Stream -> Int], freeze : BOOLEAN]
    /\ told \in [Stream -> [active : BOOLEAN, channel : StereoChannel]]
    /\ buffer \in [Stream -> Window]
    /\ level \in [Stream -> Int] /\ peak \in [Stream -> Int]
    /\ DOMAIN shown = Stream
    /\ frame \in Nat /\ seen \in Seq(Int)

\* A stream that is off keeps the window of its last moment until it is made
\* anew with the others, and that is before it is on again.
ToldAsChosen(s) ==
    /\ told[s].active = view.active[s]
    /\ told[s].channel = view.channel[s] \/ NotTold(s)

WindowIsRecent(s) ==
    told[s].active => FramesOf(buffer[s]) = ShiftPushBack(NoFrames, seen)

LevelIsBetween(s) == Magnitude(buffer[s]) <= level[s] /\ level[s] <= peak[s]

ShownIsLevel(s) == shown[s] # Nothing => told[s].active /\ shown[s] = level[s]

SpectrumInv ==
    /\ SpectrumTypeOK
    /\ \A s \in Stream :
        ToldAsChosen(s) /\ WindowIsRecent(s) /\ LevelIsBetween(s) /\ ShownIsLevel(s)
-----------------------------------------------------------------------------
\* Of some numbers one is the least.
LEMMA LeastIsThere ==
    ASSUME NEW values \in SUBSET Nat, values # {}
    PROVE  \E x \in values : \A y \in values : x <= y
  <1>1. PICK x \in values : \A y \in values : ~(<<y, x>> \in OpToRel(<, Nat))
    <2>1. IsWellFoundedOn(OpToRel(<, Nat), Nat)
      BY NatLessThanWellFounded
    <2> QED BY <2>1, WFMin
  <1>2. \A y \in values : x <= y
    <2> SUFFICES ASSUME NEW y \in values PROVE x <= y
      OBVIOUS
    <2>1. x \in Nat /\ y \in Nat
      OBVIOUS
    <2>2. ~(y < x)
      BY <1>1, <2>1 DEF OpToRel
    <2> QED BY <2>1, <2>2
  <1> QED BY <1>2

LEMMA SmallerOfTwo ==
    ASSUME NEW a \in Nat, NEW b \in Nat
    PROVE  /\ a <= b => Min({a, b}) = a
           /\ b <= a => Min({a, b}) = b
  BY DEF Min

LEMMA LargerOfTwo ==
    ASSUME NEW a \in Int, NEW b \in Int
    PROVE  Max({a, b}) \in Int /\ a <= Max({a, b}) /\ b <= Max({a, b})
  <1>1. \E x \in {a, b} : \A y \in {a, b} : x >= y
    OBVIOUS
  <1>2. Max({a, b}) \in {a, b} /\ \A y \in {a, b} : Max({a, b}) >= y
    BY <1>1 DEF Max
  <1> HIDE DEF Max
  <1> QED BY <1>2

\* What shifting does at each place of the window.
LEMMA ShiftedAt ==
    ASSUME NEW S, NEW t \in Seq(S), NEW s \in Seq(S)
    PROVE  /\ ShiftPushBack(t, s) \in Seq(S)
           /\ Len(ShiftPushBack(t, s)) = Len(t)
           /\ \A i \in 1 .. Len(t) :
                /\ i + Len(s) <= Len(t) => ShiftPushBack(t, s)[i] = t[i + Len(s)]
                /\ i + Len(s) > Len(t) => ShiftPushBack(t, s)[i] = s[i + Len(s) - Len(t)]
  <1> DEFINE m == Len(s)
             n == Len(t)
             c == Min({m, n})
             a == SubSeq(t, c + 1, n)
             b == SubSeq(s, m - c + 1, m)
  <1>1. m \in Nat /\ n \in Nat
    OBVIOUS
  <1>2. c \in Nat /\ c <= m /\ c <= n /\ (c = m \/ c = n)
    BY <1>1, SmallerOfTwo
  <1>3. ShiftPushBack(t, s) = a \o b
    BY DEF ShiftPushBack
  <1> HIDE DEF c
  <1>4. a \in Seq(S) /\ Len(a) = n - c /\ \A i \in 1 .. n - c : a[i] = t[c + i]
    BY <1>1, <1>2
  <1>5. b \in Seq(S) /\ Len(b) = c /\ \A i \in 1 .. c : b[i] = s[m - c + i]
    BY <1>1, <1>2
  <1> HIDE DEF a, b
  <1>6. a \o b \in Seq(S) /\ Len(a \o b) = n
    <2>0. a \in Seq(S) /\ b \in Seq(S)
      BY <1>4, <1>5
    <2>1. a \o b \in Seq(S) /\ Len(a \o b) = Len(a) + Len(b)
      BY <2>0, ConcatProperties
    <2> QED BY <1>1, <1>2, <1>4, <1>5, <2>1
  <1>8. /\ \A i \in 1 .. n - c : (a \o b)[i] = a[i]
        /\ \A i \in 1 .. n : i > n - c => (a \o b)[i] = b[i - (n - c)]
    <2>1. \A i \in 1 .. Len(a) + Len(b) :
            (a \o b)[i] = IF i <= Len(a) THEN a[i] ELSE b[i - Len(a)]
      <3>1. a \in Seq(S) /\ b \in Seq(S)
        BY <1>4, <1>5
      <3> QED BY <3>1, ConcatProperties
    <2>2. Len(a) + Len(b) = n
      BY <1>1, <1>2, <1>4, <1>5
    <2> QED BY <1>1, <1>2, <1>4, <2>1, <2>2
  <1>7. ASSUME NEW i \in 1 .. n
        PROVE  /\ i + m <= n => (a \o b)[i] = t[i + m]
               /\ i + m > n => (a \o b)[i] = s[i + m - n]
    <2>1. CASE i <= n - c
      <3>1. (a \o b)[i] = a[i]
        <4>1. i \in 1 .. n - c
          BY <1>1, <1>2, <2>1
        <4> QED BY <1>8, <4>1
      <3>2. a[i] = t[c + i]
        BY <1>1, <1>2, <1>4, <2>1
      <3>3. c = m /\ i + m <= n
        BY <1>1, <1>2, <2>1
      <3> QED BY <1>1, <3>1, <3>2, <3>3
    <2>2. CASE i > n - c
      <3>1. (a \o b)[i] = b[i - (n - c)]
        BY <1>8, <2>2
      <3>2. b[i - (n - c)] = s[m - c + (i - (n - c))]
        BY <1>1, <1>2, <1>5, <2>2
      <3>3. m - c + (i - (n - c)) = i + m - n /\ i + m > n
        BY <1>1, <1>2, <2>2
      <3> QED BY <1>1, <3>1, <3>2, <3>3
    <2> QED
      <3>1. i <= n - c \/ i > n - c
        BY <1>1, <1>2
      <3> QED BY <2>1, <2>2, <3>1
  <1> QED BY <1>1, <1>3, <1>6, <1>7

LEMMA ShiftedIsSeq ==
    ASSUME NEW S, NEW t \in Seq(S), NEW s \in Seq(S), NEW n, Len(t) = n
    PROVE  ShiftPushBack(t, s) \in Seq(S) /\ Len(ShiftPushBack(t, s)) = n
  BY ShiftedAt

\* The same, of windows and chunks of some size.
MovedFrom(v, t, s, n, m, i) ==
    /\ i + m <= n => v[i] = t[i + m]
    /\ i + m > n => v[i] = s[i + m - n]

LEMMA ShiftedFrom ==
    ASSUME NEW S, NEW t \in Seq(S), NEW s \in Seq(S), NEW n, Len(t) = n,
           NEW m, Len(s) = m, NEW i \in 1 .. n
    PROVE  MovedFrom(ShiftPushBack(t, s), t, s, n, m, i)
  <1>1. \A j \in 1 .. Len(t) : MovedFrom(ShiftPushBack(t, s), t, s, Len(t), Len(s), j)
    BY ShiftedAt DEF MovedFrom
  <1> QED BY <1>1

\* Shifting in what came first and then the rest is shifting in all of it.
LEMMA ShiftedTwice ==
    ASSUME NEW S, NEW t \in Seq(S), NEW s \in Seq(S), NEW u \in Seq(S)
    PROVE  ShiftPushBack(ShiftPushBack(t, s), u) = ShiftPushBack(t, s \o u)
  <1> DEFINE n == Len(t)
             p == Len(s)
             q == Len(u)
             v == ShiftPushBack(t, s)
             x == ShiftPushBack(v, u)
             y == ShiftPushBack(t, s \o u)
  <1>1. n \in Nat /\ p \in Nat /\ q \in Nat
    OBVIOUS
  <1>2. /\ s \o u \in Seq(S) /\ Len(s \o u) = p + q
        /\ \A i \in 1 .. p : (s \o u)[i] = s[i]
        /\ \A i \in p + 1 .. p + q : (s \o u)[i] = u[i - p]
    BY <1>1
  <1>3. v \in Seq(S) /\ Len(v) = n
    BY <1>1, ShiftedIsSeq
  <1>4. s \o u \in Seq(S) /\ Len(s \o u) = p + q
    BY <1>2
  <1>5. \A i \in 1 .. n : MovedFrom(v, t, s, n, p, i)
    BY ShiftedFrom
  <1> HIDE DEF v
  <1>6. x \in Seq(S) /\ Len(x) = n
    BY <1>1, <1>3, ShiftedIsSeq
  <1>8. \A i \in 1 .. n : MovedFrom(x, v, u, n, q, i)
    BY <1>3, ShiftedFrom
  <1>9. y \in Seq(S) /\ Len(y) = n
    BY <1>1, <1>4, ShiftedIsSeq
  <1>11. \A i \in 1 .. n : MovedFrom(y, t, s \o u, n, p + q, i)
    BY <1>4, ShiftedFrom
  <1> DEFINE su == s \o u
  <1>12. \A i \in 1 .. p : su[i] = s[i]
    BY <1>2
  <1>13. \A i \in p + 1 .. p + q : su[i] = u[i - p]
    BY <1>2
  <1>14. \A i \in 1 .. n : MovedFrom(y, t, su, n, p + q, i)
    BY <1>11
  <1> HIDE DEF x, y, n, p, q, su
  <1>15. ASSUME NEW i \in 1 .. n
         PROVE  x[i] = y[i]
    <2>1. CASE i + q > n
      <3>1. x[i] = u[i + q - n]
        BY <1>1, <1>8, <2>1 DEF MovedFrom
      <3>2. y[i] = su[i + (p + q) - n]
        BY <1>1, <1>14, <2>1 DEF MovedFrom
      <3>3. i + (p + q) - n \in p + 1 .. p + q
        BY <1>1, <2>1
      <3>4. \A j \in p + 1 .. p + q : su[j] = u[j - p]
        BY <1>13
      <3>6. su[i + (p + q) - n] = u[i + (p + q) - n - p]
        <4>1. PICK k \in p + 1 .. p + q : k = i + (p + q) - n
          BY <3>3
        <4>2. su[k] = u[k - p]
          BY <3>4
        <4> QED BY <1>1, <4>1, <4>2
      <3>5. i + (p + q) - n - p = i + q - n
        BY <1>1
      <3> QED BY <3>1, <3>2, <3>5, <3>6
    <2>2. CASE i + q <= n /\ i + q + p > n
      <3>1. i + q \in 1 .. n
        BY <1>1, <2>2
      <3>2. x[i] = s[i + q + p - n]
        BY <1>1, <1>5, <1>8, <2>2, <3>1 DEF MovedFrom
      <3>3. y[i] = su[i + (p + q) - n]
        BY <1>1, <1>14, <2>2 DEF MovedFrom
      <3>4. i + (p + q) - n = i + q + p - n /\ i + q + p - n \in 1 .. p
        BY <1>1, <2>2
      <3> QED BY <1>12, <3>2, <3>3, <3>4
    <2>3. CASE i + q + p <= n
      <3>1. i + q \in 1 .. n /\ i + q <= n
        BY <1>1, <2>3
      <3>2. x[i] = t[i + q + p]
        BY <1>1, <1>5, <1>8, <2>3, <3>1 DEF MovedFrom
      <3>3. i + (p + q) = i + q + p
        BY <1>1
      <3>4. y[i] = t[i + q + p]
        BY <1>1, <1>14, <2>3, <3>3 DEF MovedFrom
      <3> QED BY <3>2, <3>4
    <2> QED BY <1>1, <2>1, <2>2, <2>3
  <1>16. x = y
    BY <1>6, <1>9, <1>15, SeqEqual
  <1> QED BY <1>16 DEF x, y, v

\* The frames of a window move with it.
LEMMA FramesMove ==
    ASSUME NEW w \in Window, NEW a \in Seq(Sample)
    PROVE  /\ ShiftPushBack(w, a) \in Window
           /\ FramesOf(ShiftPushBack(w, a)) =
                ShiftPushBack(FramesOf(w), [k \in 1 .. Len(a) |-> a[k].frame])
  <1> DEFINE n == Len(Hann)
             m == Len(a)
             f == FramesOf(w)
             g == [k \in 1 .. m |-> a[k].frame]
             v == ShiftPushBack(w, a)
             r == ShiftPushBack(f, g)
  <1>1. n \in Nat /\ m \in Nat /\ DOMAIN Hann = 1 .. n
    BY SpectrumAssumption
  <1>2. w \in Seq(Sample) /\ Len(w) = n
    BY DEF Window
  <1>3. f \in Seq(Int) /\ Len(f) = n /\ \A i \in 1 .. n : f[i] = w[i].frame
    <2>1. \A i \in 1 .. n : w[i] \in Sample
      BY <1>1, <1>2
    <2>2. \A i \in 1 .. n : w[i].frame \in Int
      BY <2>1 DEF Sample
    <2>3. f = [i \in 1 .. n |-> w[i].frame]
      BY <1>1 DEF FramesOf
    <2>4. f \in [1 .. n -> Int]
      BY <2>2, <2>3
    <2> HIDE DEF f
    <2> QED BY <1>1, <2>3, <2>4
  <1>4. g \in Seq(Int) /\ Len(g) = m /\ \A k \in 1 .. m : g[k] = a[k].frame
    <2>1. \A i \in 1 .. m : a[i] \in Sample
      OBVIOUS
    <2>2. \A i \in 1 .. m : a[i].frame \in Int
      BY <2>1 DEF Sample
    <2>4. g \in [1 .. m -> Int]
      BY <2>2
    <2> QED BY <1>1, <2>4
  <1> HIDE DEF f, g
  <1>5. v \in Seq(Sample) /\ Len(v) = n
    BY <1>1, <1>2, ShiftedIsSeq
  <1>7. \A i \in 1 .. n : MovedFrom(v, w, a, n, m, i)
    BY <1>2, ShiftedFrom
  <1>8. r \in Seq(Int) /\ Len(r) = n
    BY <1>1, <1>3, <1>4, ShiftedIsSeq
  <1>10. \A i \in 1 .. n : MovedFrom(r, f, g, n, m, i)
    BY <1>3, <1>4, ShiftedFrom
  <1> HIDE DEF v, r, n, m
  <1>11. ASSUME NEW i \in 1 .. n
         PROVE  r[i] = v[i].frame
    <2>1. CASE i + m <= n
      <3>1. i + m \in 1 .. n
        BY <1>1, <2>1
      <3>2. r[i] = f[i + m] /\ v[i] = w[i + m]
        BY <1>1, <1>7, <1>10, <2>1 DEF MovedFrom
      <3> QED BY <1>3, <3>1, <3>2
    <2>2. CASE i + m > n
      <3>1. i + m - n \in 1 .. m
        BY <1>1, <2>2
      <3>2. r[i] = g[i + m - n] /\ v[i] = a[i + m - n]
        BY <1>1, <1>7, <1>10, <2>2 DEF MovedFrom
      <3> QED BY <1>4, <3>1, <3>2
    <2>3. i + m <= n \/ i + m > n
      BY <1>1
    <2> QED BY <2>1, <2>2, <2>3
  <1> DEFINE h == FramesOf(v)
  <1>12. h = [i \in 1 .. n |-> v[i].frame]
    BY <1>1 DEF FramesOf
  <1>13. h = r
    <2>1. r = [i \in 1 .. n |-> r[i]]
      BY <1>1, <1>8
    <2> HIDE DEF h
    <2> QED BY <1>11, <1>12, <2>1
  <1>14. v \in Window
    BY <1>5 DEF Window, n
  <1> QED BY <1>13, <1>14 DEF v, r, f, g, m

\* The sum of some products.
IsSum(sum, p, n) ==
    sum = [k \in 0 .. n |-> IF k = 0 THEN 0 ELSE sum[k - 1] + p[k]]

LEMMA SumIsThere ==
    ASSUME NEW n \in Nat, NEW p \in [1 .. n -> Int]
    PROVE  \E sum : IsSum(sum, p, n)
  <1> DEFINE Lacking == {k \in 0 .. n : ~\E sum \in [0 .. k -> Int] : IsSum(sum, p, k)}
  <1>1. CASE Lacking = {}
    <2>1. n \notin Lacking
      BY <1>1
    <2> QED BY <2>1
  <1>2. CASE Lacking # {}
    <2>1. PICK k \in Lacking : \A j \in Lacking : k <= j
      <3>1. Lacking \in SUBSET Nat
        OBVIOUS
      <3> HIDE DEF Lacking
      <3> QED BY <1>2, <3>1, LeastIsThere
    <2>2. k \in 0 .. n /\ k \in Nat
      OBVIOUS
    <2>3. k # 0
      <3> DEFINE z == [i \in 0 .. 0 |-> 0]
      <3>1. z \in [0 .. 0 -> Int]
        OBVIOUS
      <3>2. z = [i \in 0 .. 0 |-> IF i = 0 THEN 0 ELSE z[i - 1] + p[i]]
        OBVIOUS
      <3>3. 0 \notin Lacking
        <4> HIDE DEF z
        <4> QED BY <3>1, <3>2 DEF IsSum
      <3> QED BY <3>3
    <2>4. k - 1 \notin Lacking
      <3> HIDE DEF Lacking
      <3> QED BY <2>1, <2>2
    <2>5. PICK sum \in [0 .. k - 1 -> Int] : IsSum(sum, p, k - 1)
      BY <2>2, <2>3, <2>4
    <2> DEFINE more == [i \in 0 .. k |-> IF i = k THEN sum[k - 1] + p[k] ELSE sum[i]]
    <2>6. p[k] \in Int /\ sum[k - 1] \in Int
      BY <2>2, <2>3
    <2>7. more \in [0 .. k -> Int]
      BY <2>2, <2>3, <2>6
    <2>8. ASSUME NEW i \in 0 .. k
          PROVE  more[i] = IF i = 0 THEN 0 ELSE more[i - 1] + p[i]
      <3>1. CASE i = k
        <4>1. more[k] = sum[k - 1] + p[k]
          BY <2>2
        <4>2. more[k - 1] = sum[k - 1]
          BY <2>2, <2>3
        <4> QED BY <2>3, <3>1, <4>1, <4>2
      <3>2. CASE i # k
        <4>1. i \in 0 .. k - 1 /\ more[i] = sum[i]
          BY <2>2, <3>2
        <4>2. i # 0 => more[i - 1] = sum[i - 1]
          BY <2>2, <3>2
        <4>3. sum[i] = IF i = 0 THEN 0 ELSE sum[i - 1] + p[i]
          BY <2>5, <4>1 DEF IsSum
        <4> QED BY <4>1, <4>2, <4>3
      <3> QED BY <3>1, <3>2
    <2>9. IsSum(more, p, k)
      <3>1. more = [i \in 0 .. k |-> more[i]]
        OBVIOUS
      <3> HIDE DEF more
      <3> QED BY <2>8, <3>1 DEF IsSum
    <2>10. k \notin Lacking
      <3> HIDE DEF more
      <3> QED BY <2>7, <2>9
    <2> QED BY <2>10
  <1> QED BY <1>1, <1>2

\* What holds of nothing and is kept by each product holds of the sum.
LEMMA SumStaysIn ==
    ASSUME NEW n \in Nat, NEW p, NEW sum, IsSum(sum, p, n),
           NEW T, 0 \in T, \A x \in T : \A k \in 1 .. n : x + p[k] \in T
    PROVE  sum[n] \in T
  <1> DEFINE Lacking == {k \in 0 .. n : sum[k] \notin T}
  <1>1. CASE Lacking # {}
    <2>1. PICK k \in Lacking : \A j \in Lacking : k <= j
      <3>1. Lacking \in SUBSET Nat
        OBVIOUS
      <3> HIDE DEF Lacking
      <3> QED BY <1>1, <3>1, LeastIsThere
    <2>2. k \in 0 .. n /\ sum[k] \notin T
      OBVIOUS
    <2>3. sum[k] = IF k = 0 THEN 0 ELSE sum[k - 1] + p[k]
      BY <2>2 DEF IsSum
    <2>4. k # 0
      BY <2>2, <2>3
    <2>5. k - 1 \notin Lacking
      <3> HIDE DEF Lacking
      <3> QED BY <2>1, <2>2
    <2>6. sum[k - 1] \in T
      BY <2>2, <2>4, <2>5
    <2>7. k \in 1 .. n
      BY <2>2, <2>4
    <2> QED BY <2>2, <2>3, <2>4, <2>6, <2>7
  <1>2. CASE Lacking = {}
    <2>1. n \notin Lacking
      BY <1>2
    <2> QED BY <2>1
  <1> QED BY <1>1, <1>2

\* The magnitude of a window is a number, and that of silence is 0.
LEMMA MagnitudeOfWindow ==
    ASSUME NEW w \in Window
    PROVE  /\ Magnitude(w) \in Int
           /\ (\A n \in DOMAIN Hann : w[n].value = 0) => Magnitude(w) = 0
  <1> DEFINE n == Len(Hann)
             p == [k \in 1 .. n |-> Hann[k] * w[k].value]
             S(sum) == sum = [k \in 0 .. n |->
                                IF k = 0 THEN 0 ELSE sum[k - 1] + Hann[k] * w[k].value]
             s == CHOOSE sum : S(sum)
  <1>1. Magnitude(w) = Abs(s[n])
    BY DEF Magnitude
  <1>2. n \in Nat /\ DOMAIN Hann = 1 .. n /\ \A k \in 1 .. n : Hann[k] \in Int
    BY SpectrumAssumption
  <1>3. \A k \in 1 .. n : w[k].value \in Int
    <2>1. w \in Seq(Sample) /\ Len(w) = n
      BY DEF Window
    <2>2. \A k \in 1 .. n : w[k] \in Sample
      BY <1>2, <2>1
    <2> QED BY <2>2 DEF Sample
  <1>4. p \in [1 .. n -> Int]
    BY <1>2, <1>3
  <1>5. ASSUME NEW sum
        PROVE  S(sum) <=> IsSum(sum, p, n)
    <2>1. \A k \in 0 .. n : k # 0 => p[k] = Hann[k] * w[k].value
      BY <1>2
    <2> DEFINE a == [k \in 0 .. n |-> IF k = 0 THEN 0 ELSE sum[k - 1] + Hann[k] * w[k].value]
               b == [k \in 0 .. n |-> IF k = 0 THEN 0 ELSE sum[k - 1] + p[k]]
    <2>2. \A k \in 0 .. n : a[k] = b[k]
      <3> HIDE DEF p
      <3> QED BY <2>1
    <2>3. a = b
      <3>1. a = [k \in 0 .. n |-> a[k]] /\ b = [k \in 0 .. n |-> b[k]]
        OBVIOUS
      <3> HIDE DEF a, b
      <3> QED BY <2>2, <3>1
    <2> QED BY <2>3 DEF IsSum
  <1>6. \E sum : S(sum)
    <2> HIDE DEF p, S
    <2> QED BY <1>2, <1>4, <1>5, SumIsThere
  <1>7. S(s)
    <2> HIDE DEF S
    <2> QED BY <1>6
  <1>8. IsSum(s, p, n)
    <2> HIDE DEF S, p, s
    <2> QED BY <1>5, <1>7
  <1>9. s[n] \in Int
    <2>1. \A x \in Int : \A k \in 1 .. n : x + p[k] \in Int
      <3> HIDE DEF p
      <3> QED BY <1>4
    <2> HIDE DEF s, p
    <2>2. PICK T : T = Int
      OBVIOUS
    <2>3. 0 \in T /\ \A x \in T : \A k \in 1 .. n : x + p[k] \in T
      BY <2>1, <2>2
    <2>4. s[n] \in T
      BY <1>2, <1>8, <2>3, SumStaysIn
    <2> QED BY <2>2, <2>4
  <1>10. ASSUME \A k \in DOMAIN Hann : w[k].value = 0
         PROVE  s[n] \in {0}
    <2>1. \A k \in 1 .. n : p[k] = 0
      BY <1>2, <1>10
    <2>2. \A x \in {0} : \A k \in 1 .. n : x + p[k] \in {0}
      <3> HIDE DEF p
      <3> QED BY <2>1
    <2> HIDE DEF s, p
    <2> QED BY <1>2, <1>8, <2>2, SumStaysIn
  <1> HIDE DEF s
  <1> QED BY <1>1, <1>9, <1>10 DEF Abs

-----------------------------------------------------------------------------
\* What is played is a number, whatever a stream draws.
LEMMA PlayedIsNumber ==
    ASSUME NEW w \in Seq(Int) \ {<<>>}, NEW f \in Nat
    PROVE  w[1 + (f % Len(w))] \in Int
  <1>1. Len(w) \in Nat /\ Len(w) # 0
    OBVIOUS
  <1>2. f % Len(w) \in 0 .. Len(w) - 1
    <2> DEFINE n == Len(w)
    <2>1. n \in Nat \ {0}
      BY <1>1
    <2> HIDE DEF n
    <2>2. f % n \in 0 .. n - 1
      BY <2>1
    <2> QED BY <2>2 DEF n
  <1>3. 1 + (f % Len(w)) \in 1 .. Len(w)
    BY <1>1, <1>2
  <1> QED BY <1>3

LEMMA AmplifiedIsSample ==
    ASSUME SpectrumTypeOK, NEW s \in Stream, NEW f \in Nat
    PROVE  Amplified(s, f) \in Sample /\ Amplified(s, f).frame = f
  <1>1. Played("left", f) \in Int /\ Played("right", f) \in Int
    BY SpectrumAssumption, PlayedIsNumber DEF Played
  <1>2. DrawnChannel(s) \in StereoChannel
    BY DEF DrawnChannel, SpectrumTypeOK, StereoChannel
  <1>3. FrameValue(DrawnChannel(s), f) \in Int
    <2> HIDE DEF DrawnChannel
    <2> QED BY <1>1, <1>2 DEF FrameValue, StereoChannel
  <1>4. view.gain[s] \in Int
    BY DEF SpectrumTypeOK
  <1>5. view.gain[s] * FrameValue(DrawnChannel(s), f) \in Int
    BY <1>3, <1>4
  <1> QED BY <1>5 DEF Amplified, Sample

LEMMA SilenceIsWindow ==
    Silence \in Window /\ FramesOf(Silence) = NoFrames /\ Magnitude(Silence) = 0
  <1>1. Len(Hann) \in Nat /\ DOMAIN Hann = 1 .. Len(Hann)
    BY SpectrumAssumption
  <1>2. Silence \in Window
    <2>1. Silence \in [1 .. Len(Hann) -> Sample]
      BY <1>1 DEF Silence, Sample
    <2> QED BY <1>1, <2>1 DEF Window
  <1>3. FramesOf(Silence) = NoFrames
    BY DEF FramesOf, NoFrames, Silence
  <1>4. \A n \in DOMAIN Hann : Silence[n].value = 0
    BY DEF Silence
  <1> QED BY <1>2, <1>3, <1>4, MagnitudeOfWindow

\* The generators that have seen nothing show nothing but silence.
LEMMA NothingSeen ==
    NoFrames \in Seq(Int) /\ NoFrames = ShiftPushBack(NoFrames, <<>>)
  <1> DEFINE n == Len(Hann)
             v == ShiftPushBack(NoFrames, <<>>)
  <1>1. n \in Nat /\ DOMAIN Hann = 1 .. n
    BY SpectrumAssumption
  <1>2. NoFrames \in Seq(Int) /\ Len(NoFrames) = n
    <2>1. NoFrames \in [1 .. n -> Int]
      BY <1>1 DEF NoFrames
    <2> QED BY <1>1, <2>1
  <1>3. <<>> \in Seq(Int) /\ Len(<<>>) = 0
    OBVIOUS
  <1>4. v \in Seq(Int) /\ Len(v) = n
    BY <1>1, <1>2, <1>3, ShiftedIsSeq
  <1>6. \A i \in 1 .. n : v[i] = NoFrames[i]
    <2> HIDE DEF n
    <2>1. \A i \in 1 .. n : MovedFrom(v, NoFrames, <<>>, n, 0, i)
      BY <1>2, <1>3, ShiftedFrom
    <2> HIDE DEF v
    <2> QED BY <1>1, <2>1 DEF MovedFrom
  <1> HIDE DEF n, v
  <1>7. v = NoFrames
    BY <1>2, <1>4, <1>6, SeqEqual
  <1> QED BY <1>2, <1>7 DEF v

LEMMA SpectrumBegins == SpectrumInit => SpectrumInv
  <1> SUFFICES ASSUME SpectrumInit PROVE SpectrumInv
    OBVIOUS
  <1>1. busType \in {"mono", "stereo"} /\ Stream \in SUBSET {"A", "B"}
    BY DEF SpectrumInit, Stream
  <1>2. PICK r \in Restored :
          view = [Default EXCEPT !.active = [s \in Stream |-> r[s].active],
                                 !.channel = [s \in Stream |-> r[s].channel]]
    BY DEF SpectrumInit
  <1>3. \A s \in Stream : r[s].active \in BOOLEAN /\ r[s].channel \in StereoChannel
    <2>1. r \in [{"A", "B"} -> [active : BOOLEAN, channel : StereoChannel]]
      BY SpectrumAssumption
    <2> QED BY <1>1, <2>1
  <1>4. view = [active |-> [s \in Stream |-> r[s].active],
                channel |-> [s \in Stream |-> r[s].channel],
                gain |-> Of(1), freeze |-> FALSE]
    <2> DEFINE a == [s \in Stream |-> r[s].active]
               c == [s \in Stream |-> r[s].channel]
               e == [s \in Stream |-> s = "A"]
               b == [s \in Stream |-> IF s = "A" THEN "left" ELSE "right"]
    <2>1. Default = [active |-> e, channel |-> b, gain |-> Of(1), freeze |-> FALSE]
      BY DEF Default
    <2>2. view = [[Default EXCEPT !.active = a] EXCEPT !.channel = c]
      BY <1>2
    <2> HIDE DEF a, b, c, e
    <2>3. view = [active |-> a, channel |-> c, gain |-> Of(1), freeze |-> FALSE]
      BY <2>1, <2>2
    <2> QED BY <2>3 DEF a, c
  <1>5. \A s \in Stream : view.active[s] \in BOOLEAN /\ view.channel[s] \in StereoChannel
    BY <1>3, <1>4
  <1>6. view \in [active : [Stream -> BOOLEAN], channel : [Stream -> StereoChannel],
                  gain : [Stream -> Int], freeze : BOOLEAN]
    BY <1>3, <1>4 DEF Of
  <1>7. \A s \in Stream :
          /\ told[s].active = view.active[s]
          /\ told[s].channel = IF view.channel[s] = "left"
                               THEN Default.channel[s] ELSE view.channel[s]
    BY DEF SpectrumInit
  <1>8. \A s \in Stream : Default.channel[s] = IF s = "A" THEN "left" ELSE "right"
    BY DEF Default
  <1>9. told \in [Stream -> [active : BOOLEAN, channel : StereoChannel]]
    <2>1. \A s \in Stream : told[s].channel \in StereoChannel
      BY <1>5, <1>7, <1>8 DEF StereoChannel
    <2>2. DOMAIN told = Stream
          /\ \A s \in Stream : told[s] = [active |-> told[s].active, channel |-> told[s].channel]
      BY DEF SpectrumInit
    <2>3. told = [s \in Stream |-> told[s]]
      BY DEF SpectrumInit
    <2> QED BY <1>5, <1>7, <2>1, <2>2, <2>3
  <1>10. SpectrumTypeOK
    <2>1. buffer \in [Stream -> Window]
      BY SilenceIsWindow DEF SpectrumInit, Of
    <2>2. level \in [Stream -> Int] /\ peak \in [Stream -> Int] /\ DOMAIN shown = Stream
      BY DEF SpectrumInit, Of
    <2>3. frame \in Nat /\ seen \in Seq(Int)
      BY DEF SpectrumInit
    <2> QED BY <1>1, <1>6, <1>9, <2>1, <2>2, <2>3 DEF SpectrumTypeOK
  <1>11. ASSUME NEW s \in Stream
         PROVE  ToldAsChosen(s) /\ WindowIsRecent(s) /\ LevelIsBetween(s) /\ ShownIsLevel(s)
    <2>1. ToldAsChosen(s)
      BY <1>1, <1>7, <1>8 DEF ToldAsChosen, NotTold
    <2>2. buffer[s] = Silence /\ level[s] = 0 /\ peak[s] = 0 /\ shown[s] = Nothing
      BY DEF SpectrumInit, Of
    <2>3. seen = <<>>
      BY DEF SpectrumInit
    <2> QED BY <2>1, <2>2, <2>3, SilenceIsWindow, NothingSeen
               DEF WindowIsRecent, LevelIsBetween, ShownIsLevel
  <1> QED BY <1>10, <1>11 DEF SpectrumInv

-----------------------------------------------------------------------------
\* The envelope falls, but not below what comes in.
LEMMA EnvelopeFalls ==
    ASSUME NEW prev \in Int, NEW in \in Int
    PROVE  /\ Envelope(prev, in) \in Int /\ in <= Envelope(prev, in)
           /\ Envelope(prev, in) <= prev \/ Envelope(prev, in) = in
  <1>1. CASE in > prev
    BY <1>1 DEF Envelope
  <1>2. CASE ~(in > prev)
    <2>1. PICK d \in Nat : d = prev - in
      BY <1>2
    <2>2. (17 * d) \div 20 \in Int /\ 0 <= (17 * d) \div 20 /\ (17 * d) \div 20 <= d
      BY <2>1
    <2>3. Envelope(prev, in) = in + (17 * d) \div 20
      BY <1>2, <2>1 DEF Envelope
    <2> QED BY <2>1, <2>2, <2>3
  <1> QED BY <1>1, <1>2

\* Frames that came do to each stream that is on what the generators do.
LEMMA WindowsMove ==
    ASSUME SpectrumInv, NEW n \in Nat, NEW s \in Stream, NEW a,
           a = [k \in 1 .. n |-> Amplified(s, frame + k)]
    PROVE  /\ ShiftPushBack(buffer[s], a) \in Window
           /\ told[s].active =>
                FramesOf(ShiftPushBack(buffer[s], a)) =
                    ShiftPushBack(NoFrames, seen \o [k \in 1 .. n |-> frame + k])
  <1> DEFINE new == [k \in 1 .. n |-> frame + k]
  <1>1. frame \in Nat /\ seen \in Seq(Int) /\ buffer[s] \in Window
    BY DEF SpectrumInv, SpectrumTypeOK
  <1>2. \A k \in 1 .. n : frame + k \in Nat
    BY <1>1
  <1>3. \A k \in 1 .. n : a[k] \in Sample /\ a[k].frame = frame + k
    BY <1>2, AmplifiedIsSample DEF SpectrumInv
  <1>4. a \in Seq(Sample) /\ Len(a) = n
    <2>1. a \in [1 .. n -> Sample]
      BY <1>3
    <2> QED BY <2>1
  <1>5. new \in Seq(Int)
    <2>1. new \in [1 .. n -> Int]
      BY <1>2
    <2> QED BY <2>1
  <1>6. [k \in 1 .. Len(a) |-> a[k].frame] = new
    BY <1>3, <1>4
  <1> HIDE DEF new
  <1>7. FramesOf(ShiftPushBack(buffer[s], a)) = ShiftPushBack(FramesOf(buffer[s]), new)
    BY <1>1, <1>4, <1>6, FramesMove
  <1>8. ShiftPushBack(buffer[s], a) \in Window
    BY <1>1, <1>4, FramesMove
  <1>9. ShiftPushBack(ShiftPushBack(NoFrames, seen), new) = ShiftPushBack(NoFrames, seen \o new)
    BY <1>1, <1>5, NothingSeen, ShiftedTwice
  <1>10. ASSUME told[s].active
         PROVE  FramesOf(buffer[s]) = ShiftPushBack(NoFrames, seen)
    BY <1>10 DEF SpectrumInv, WindowIsRecent
  <1> QED BY <1>7, <1>8, <1>9, <1>10 DEF new

LEMMA CapturedKeeps ==
    ASSUME SpectrumInv, NEW n \in Chunks, Captured(n)
    PROVE  SpectrumInv'
  <1>1. n \in Nat
    BY SpectrumAssumption
  <1>2. UNCHANGED <<busType, view, told>> /\ frame' = frame + n
    BY DEF Captured
  <1>3. Stream' = Stream
    BY <1>2 DEF Stream
  <1>4. frame' \in Nat
    BY <1>1, <1>2 DEF SpectrumInv, SpectrumTypeOK
  <1>5. \A s \in Stream : ToldAsChosen(s)'
    BY <1>2 DEF SpectrumInv, ToldAsChosen, NotTold
  <1>6. CASE view.freeze
    <2>1. UNCHANGED <<buffer, level, seen, peak, shown>>
      BY <1>6 DEF Captured, generatorVars
    <2>2. SpectrumTypeOK'
      BY <1>2, <1>3, <1>4, <2>1 DEF SpectrumInv, SpectrumTypeOK
    <2>3. \A s \in Stream : (WindowIsRecent(s) /\ LevelIsBetween(s) /\ ShownIsLevel(s))'
      BY <1>2, <2>1 DEF SpectrumInv, WindowIsRecent, LevelIsBetween, ShownIsLevel
    <2> QED BY <1>3, <1>5, <2>2, <2>3 DEF SpectrumInv
  <1>7. CASE ~view.freeze
    <2> DEFINE frames == [k \in 1 .. n |-> frame + k]
               on == {s \in Stream : told[s].active}
               a(s) == [k \in 1 .. n |-> Amplified(s, frames[k])]
    <2>1. /\ buffer' = [s \in Stream |->
                IF s \in on THEN ShiftPushBack(buffer[s], a(s)) ELSE buffer[s]]
          /\ level' = [s \in Stream |->
                IF s \in on THEN Envelope(level[s], Magnitude(buffer'[s])) ELSE level[s]]
          /\ shown' = [s \in Stream |-> IF s \in on THEN level'[s] ELSE Nothing]
          /\ seen' = seen \o frames
          /\ peak' = [s \in Stream |-> Max({peak[s], Magnitude(buffer'[s])})]
      BY <1>7 DEF Captured
    <2>2. \A s \in Stream : a(s) = [k \in 1 .. n |-> Amplified(s, frame + k)]
      OBVIOUS
    <2>3. frames = [k \in 1 .. n |-> frame + k]
      OBVIOUS
    <2>4. frames \in Seq(Int)
      <3>1. frames \in [1 .. n -> Int]
        BY <1>1 DEF SpectrumInv, SpectrumTypeOK
      <3> HIDE DEF frames
      <3> QED BY <1>1, <3>1
    <2>5. seen' \in Seq(Int)
      <3>1. seen \in Seq(Int)
        BY DEF SpectrumInv, SpectrumTypeOK
      <3> HIDE DEF frames
      <3> QED BY <2>1, <2>4, <3>1
    <2> HIDE DEF frames, a
    <2>6. ASSUME NEW s \in Stream
          PROVE  /\ buffer'[s] \in Window
                 /\ told[s].active =>
                        FramesOf(buffer'[s]) = ShiftPushBack(NoFrames, seen')
      <3>1. CASE s \in on
        <4>1. buffer'[s] = ShiftPushBack(buffer[s], a(s))
          BY <2>1, <3>1
        <4> QED BY <1>1, <2>1, <2>2, <2>3, <4>1, WindowsMove
      <3>2. CASE s \notin on
        <4>1. buffer'[s] = buffer[s] /\ ~told[s].active
          BY <2>1, <3>2
        <4> QED BY <4>1 DEF SpectrumInv, SpectrumTypeOK
      <3> QED BY <3>1, <3>2
    <2>7. ASSUME NEW s \in Stream
          PROVE  /\ level'[s] \in Int /\ peak'[s] \in Int
                 /\ Magnitude(buffer'[s]) <= level'[s] /\ level'[s] <= peak'[s]
      <3> DEFINE m == Magnitude(buffer'[s])
      <3>1. m \in Int
        BY <2>6, MagnitudeOfWindow
      <3>2. level[s] \in Int /\ peak[s] \in Int /\ level[s] <= peak[s]
        BY DEF SpectrumInv, SpectrumTypeOK, LevelIsBetween
      <3>3. peak'[s] = Max({peak[s], m})
        BY <2>1
      <3> HIDE DEF m
      <3>4. peak'[s] \in Int /\ peak[s] <= peak'[s] /\ m <= peak'[s]
        BY <3>1, <3>2, <3>3, LargerOfTwo
      <3>5. CASE s \in on
        <4>1. level'[s] = Envelope(level[s], m)
          BY <2>1, <3>5 DEF m
        <4>2. level'[s] \in Int /\ m <= level'[s] /\ (level'[s] <= level[s] \/ level'[s] = m)
          BY <3>1, <3>2, <4>1, EnvelopeFalls
        <4>3. level'[s] <= peak'[s]
          BY <3>1, <3>2, <3>4, <4>2
        <4> QED BY <3>4, <4>2, <4>3 DEF m
      <3>6. CASE s \notin on
        <4>1. level'[s] = level[s] /\ buffer'[s] = buffer[s]
          BY <2>1, <3>6
        <4>2. m <= level[s]
          BY <4>1 DEF SpectrumInv, LevelIsBetween, m
        <4>3. level'[s] <= peak'[s]
          BY <3>2, <3>4, <4>1
        <4> QED BY <3>2, <3>4, <4>1, <4>2, <4>3 DEF m
      <3> QED BY <3>5, <3>6
    <2>8. SpectrumTypeOK'
      <3>1. buffer' \in [Stream -> Window]
        <4> SUFFICES \A s \in Stream : buffer'[s] \in Window
          BY <2>1
        <4> QED BY <2>6
      <3>2. level' \in [Stream -> Int]
        <4> SUFFICES \A s \in Stream : level'[s] \in Int
          BY <2>1
        <4> QED BY <2>7
      <3>3. peak' \in [Stream -> Int]
        <4> SUFFICES \A s \in Stream : peak'[s] \in Int
          BY <2>1
        <4> QED BY <2>7
      <3>4. DOMAIN shown' = Stream
        BY <2>1
      <3> QED BY <1>2, <1>3, <1>4, <2>5, <3>1, <3>2, <3>3, <3>4 DEF SpectrumInv, SpectrumTypeOK
    <2>9. ASSUME NEW s \in Stream
          PROVE  (WindowIsRecent(s) /\ LevelIsBetween(s) /\ ShownIsLevel(s))'
      <3>1. WindowIsRecent(s)'
        BY <1>2, <2>6 DEF WindowIsRecent, FramesOf, NoFrames
      <3>2. LevelIsBetween(s)'
        BY <2>7 DEF LevelIsBetween
      <3>3. ShownIsLevel(s)'
        BY <1>2, <2>1 DEF ShownIsLevel
      <3> QED BY <3>1, <3>2, <3>3
    <2> QED BY <1>3, <1>5, <2>8, <2>9 DEF SpectrumInv
  <1> QED BY <1>6, <1>7

\* A change that the generators are told of makes them anew, or is none for them.
LEMMA UpdatePropertyKeeps ==
    ASSUME SpectrumInv, NEW s \in Stream,
           NEW new \in [active : BOOLEAN, channel : StereoChannel],
           UpdateProperty(s, new), Clear, UNCHANGED <<busType, frame>>,
           view' \in [active : [Stream -> BOOLEAN], channel : [Stream -> StereoChannel],
                      gain : [Stream -> Int], freeze : BOOLEAN],
           \A t \in Stream : ToldAsChosen(t)'
    PROVE  SpectrumInv'
  <1>1. Stream' = Stream
    BY DEF Stream
  <1>2. told' = [told EXCEPT ![s] = new]
    BY DEF UpdateProperty
  <1>3. told' \in [Stream -> [active : BOOLEAN, channel : StereoChannel]]
    BY <1>2 DEF SpectrumInv, SpectrumTypeOK
  <1>4. DOMAIN shown' = Stream /\ \A t \in Stream : shown'[t] = Nothing
    BY DEF Clear, Of
  <1>5. CASE told' = told
    <2>1. UNCHANGED <<buffer, level, seen, peak>>
      BY <1>5 DEF UpdateProperty, generatorVars
    <2>2. SpectrumTypeOK'
      BY <1>1, <1>3, <1>4, <2>1 DEF SpectrumInv, SpectrumTypeOK
    <2>3. ASSUME NEW t \in Stream
          PROVE  (WindowIsRecent(t) /\ LevelIsBetween(t) /\ ShownIsLevel(t))'
      BY <1>4, <1>5, <2>1 DEF SpectrumInv, WindowIsRecent, LevelIsBetween, ShownIsLevel
    <2> QED BY <1>1, <2>2, <2>3 DEF SpectrumInv
  <1>6. CASE told' # told
    <2>1. buffer' = Of(Silence) /\ level' = Of(0) /\ seen' = <<>> /\ peak' = Of(0)
      BY <1>6 DEF UpdateProperty
    <2>2. \A t \in Stream : buffer'[t] = Silence /\ level'[t] = 0 /\ peak'[t] = 0
      BY <2>1 DEF Of
    <2>3. SpectrumTypeOK'
      <3>1. buffer' \in [Stream -> Window]
        BY <2>1, SilenceIsWindow DEF Of
      <3>2. level' \in [Stream -> Int] /\ peak' \in [Stream -> Int] /\ seen' \in Seq(Int)
        BY <2>1 DEF Of
      <3> QED BY <1>1, <1>3, <1>4, <3>1, <3>2 DEF SpectrumInv, SpectrumTypeOK
    <2>4. ASSUME NEW t \in Stream
          PROVE  (WindowIsRecent(t) /\ LevelIsBetween(t) /\ ShownIsLevel(t))'
      <3>1. WindowIsRecent(t)'
        <4>1. FramesOf(buffer'[t]) = ShiftPushBack(NoFrames, seen')
          BY <2>1, <2>2, SilenceIsWindow, NothingSeen
        <4> QED BY <4>1 DEF WindowIsRecent, FramesOf, NoFrames
      <3>2. LevelIsBetween(t)'
        <4>1. Magnitude(buffer'[t]) <= level'[t] /\ level'[t] <= peak'[t]
          BY <2>2, SilenceIsWindow
        <4> QED BY <4>1 DEF LevelIsBetween
      <3>3. ShownIsLevel(t)'
        BY <1>4 DEF ShownIsLevel, Nothing
      <3> QED BY <3>1, <3>2, <3>3
    <2> QED BY <1>1, <2>3, <2>4 DEF SpectrumInv
  <1> QED BY <1>5, <1>6

ParametersType ==
    [active : [Stream -> BOOLEAN], channel : [Stream -> StereoChannel],
     gain : [Stream -> Int], freeze : BOOLEAN]

LEMMA OnActiveChangedKeeps ==
    ASSUME SpectrumInv, NEW s \in Stream, NEW on \in BOOLEAN, OnActiveChanged(s, on)
    PROVE  SpectrumInv'
  <1> DEFINE active == [view.active EXCEPT ![s] = on]
             new == [told[s] EXCEPT !.active = on]
  <1>1. view' = [view EXCEPT !["active"] = active] /\ UNCHANGED <<busType, frame>>
    BY DEF OnActiveChanged, Change
  <1>2. told' = [told EXCEPT ![s] = new] /\ UpdateProperty(s, new) /\ Clear
    BY DEF OnActiveChanged, UpdateProperty
  <1>3. view \in ParametersType /\ told \in [Stream -> [active : BOOLEAN, channel : StereoChannel]]
    BY DEF SpectrumInv, SpectrumTypeOK, ParametersType
  <1>4. active \in [Stream -> BOOLEAN]
    BY <1>3 DEF ParametersType
  <1>5. new \in [active : BOOLEAN, channel : StereoChannel]
    BY <1>3
  <1>6. view' \in ParametersType
    <2> HIDE DEF active
    <2> QED BY <1>1, <1>3, <1>4 DEF ParametersType
  <1>7. view'.active = active /\ view'.channel = view.channel
    <2> HIDE DEF active
    <2> QED BY <1>1, <1>3 DEF ParametersType
  <1>8. new.active = on /\ new.channel = told[s].channel
    BY <1>3
  <1>9. ASSUME NEW t \in Stream
        PROVE  ToldAsChosen(t)'
    <2>0. ToldAsChosen(t)
      BY DEF SpectrumInv
    <2>1. CASE t = s
      <3>1. told'[t] = new /\ view'.active[t] = on
        BY <1>2, <1>3, <1>7, <2>1 DEF ParametersType
      <3> HIDE DEF new, active
      <3> QED BY <1>7, <1>8, <2>0, <2>1, <3>1 DEF ToldAsChosen, NotTold
    <2>2. CASE t # s
      <3>1. told'[t] = told[t] /\ view'.active[t] = view.active[t]
        BY <1>2, <1>3, <1>7, <2>2 DEF ParametersType
      <3> HIDE DEF new, active
      <3> QED BY <1>7, <2>0, <3>1 DEF ToldAsChosen, NotTold
    <2> QED BY <2>1, <2>2
  <1> HIDE DEF new, active
  <1> QED BY <1>1, <1>2, <1>5, <1>6, <1>9, UpdatePropertyKeeps DEF ParametersType

LEMMA OnChannelChangedKeeps ==
    ASSUME SpectrumInv, NEW s \in Stream, NEW c \in StereoChannel, OnChannelChanged(s, c)
    PROVE  SpectrumInv'
  <1> DEFINE channel == [view.channel EXCEPT ![s] = c]
             new == [told[s] EXCEPT !.channel = c]
  <1>1. view' = [view EXCEPT !["channel"] = channel] /\ UNCHANGED <<busType, frame>>
    BY DEF OnChannelChanged, Change
  <1>2. told' = [told EXCEPT ![s] = new] /\ UpdateProperty(s, new) /\ Clear
    BY DEF OnChannelChanged, UpdateProperty
  <1>3. view \in ParametersType /\ told \in [Stream -> [active : BOOLEAN, channel : StereoChannel]]
    BY DEF SpectrumInv, SpectrumTypeOK, ParametersType
  <1>4. channel \in [Stream -> StereoChannel]
    BY <1>3 DEF ParametersType
  <1>5. new \in [active : BOOLEAN, channel : StereoChannel]
    BY <1>3
  <1>6. view' \in ParametersType
    <2> HIDE DEF channel
    <2> QED BY <1>1, <1>3, <1>4 DEF ParametersType
  <1>7. view'.active = view.active /\ view'.channel = channel
    <2> HIDE DEF channel
    <2> QED BY <1>1, <1>3 DEF ParametersType
  <1>8. new.active = told[s].active /\ new.channel = c
    BY <1>3
  <1>9. ASSUME NEW t \in Stream
        PROVE  ToldAsChosen(t)'
    <2>0. ToldAsChosen(t)
      BY DEF SpectrumInv
    <2>1. CASE t = s
      <3>1. told'[t] = new /\ view'.channel[t] = c
        BY <1>2, <1>3, <1>7, <2>1 DEF ParametersType
      <3> HIDE DEF new, channel
      <3> QED BY <1>7, <1>8, <2>0, <2>1, <3>1 DEF ToldAsChosen
    <2>2. CASE t # s
      <3>1. told'[t] = told[t] /\ view'.channel[t] = view.channel[t]
        BY <1>2, <1>3, <1>7, <2>2 DEF ParametersType
      <3> HIDE DEF new, channel
      <3> QED BY <1>7, <2>0, <3>1 DEF ToldAsChosen, NotTold
    <2> QED BY <2>1, <2>2
  <1> HIDE DEF new, channel
  <1> QED BY <1>1, <1>2, <1>5, <1>6, <1>9, UpdatePropertyKeeps DEF ParametersType

\* What the generators are not told of.
LEMMA GeneratorsRest ==
    ASSUME SpectrumInv, UNCHANGED <<busType, frame, told, generatorVars>>,
           shown' = shown \/ Clear,
           view' \in ParametersType, view'.active = view.active, view'.channel = view.channel
    PROVE  SpectrumInv'
  <1>1. Stream' = Stream
    BY DEF Stream
  <1>2. UNCHANGED <<buffer, level, seen, peak>>
    BY DEF generatorVars
  <1>3. DOMAIN shown' = Stream /\ \A s \in Stream : shown'[s] \in {shown[s], Nothing}
    BY DEF SpectrumInv, SpectrumTypeOK, Clear, Of
  <1>4. SpectrumTypeOK'
    BY <1>1, <1>2, <1>3 DEF SpectrumInv, SpectrumTypeOK, ParametersType
  <1>5. ASSUME NEW s \in Stream
        PROVE  (ToldAsChosen(s) /\ WindowIsRecent(s) /\ LevelIsBetween(s) /\ ShownIsLevel(s))'
    <2>1. ToldAsChosen(s)'
      BY DEF SpectrumInv, ToldAsChosen, NotTold
    <2>2. (WindowIsRecent(s) /\ LevelIsBetween(s))'
      BY <1>2 DEF SpectrumInv, WindowIsRecent, LevelIsBetween
    <2>3. ShownIsLevel(s)'
      BY <1>2, <1>3 DEF SpectrumInv, ShownIsLevel, Nothing
    <2> QED BY <2>1, <2>2, <2>3
  <1> QED BY <1>1, <1>4, <1>5 DEF SpectrumInv

LEMMA SpectrumContinues == SpectrumInv /\ [SpectrumNext]_spectrumVars => SpectrumInv'
  <1> SUFFICES ASSUME SpectrumInv, [SpectrumNext]_spectrumVars PROVE SpectrumInv'
    OBVIOUS
  <1>0. view \in ParametersType
    BY DEF SpectrumInv, SpectrumTypeOK, ParametersType
  <1>1. ASSUME NEW n \in Chunks, Captured(n) PROVE SpectrumInv'
    BY <1>1, CapturedKeeps
  <1>2. ASSUME NEW s \in Stream, NEW on \in BOOLEAN, OnActiveChanged(s, on) PROVE SpectrumInv'
    BY <1>2, OnActiveChangedKeeps
  <1>3. ASSUME NEW s \in Stream, NEW c \in StereoChannel, OnChannelChanged(s, c)
        PROVE  SpectrumInv'
    BY <1>3, OnChannelChangedKeeps
  <1>4. ASSUME NEW s \in Stream, NEW gain \in Gains, OnGainChanged(s, gain)
        PROVE  SpectrumInv'
    <2> DEFINE gains == [view.gain EXCEPT ![s] = gain]
    <2>1. gain \in Int
      BY SpectrumAssumption
    <2>2. gains \in [Stream -> Int]
      BY <1>0, <2>1 DEF ParametersType
    <2>3. view' = [view EXCEPT !["gain"] = gains] /\ UNCHANGED <<busType, frame>>
      BY <1>4 DEF OnGainChanged, Change
    <2> HIDE DEF gains
    <2>4. view' \in ParametersType /\ view'.active = view.active /\ view'.channel = view.channel
      BY <1>0, <2>2, <2>3 DEF ParametersType
    <2>5. UNCHANGED <<told, generatorVars, shown>>
      BY <1>4 DEF OnGainChanged
    <2> QED BY <2>3, <2>4, <2>5, GeneratorsRest
  <1>5. ASSUME NEW freeze \in BOOLEAN, OnFreezeChanged(freeze) PROVE SpectrumInv'
    <2>1. view' = [view EXCEPT !["freeze"] = freeze] /\ UNCHANGED <<busType, frame>>
      BY <1>5 DEF OnFreezeChanged, Change
    <2>2. view' \in ParametersType /\ view'.active = view.active /\ view'.channel = view.channel
      BY <1>0, <2>1 DEF ParametersType
    <2>3. UNCHANGED <<told, generatorVars, shown>>
      BY <1>5 DEF OnFreezeChanged
    <2> QED BY <2>1, <2>2, <2>3, GeneratorsRest
  <1>6. ASSUME OnBypassed PROVE SpectrumInv'
    <2>1. UNCHANGED <<busType, frame, told, generatorVars, view>> /\ Clear
      BY <1>6 DEF OnBypassed
    <2> QED BY <1>0, <2>1, GeneratorsRest
  <1>7. ASSUME UNCHANGED spectrumVars PROVE SpectrumInv'
    <2>1. UNCHANGED <<busType, frame, told, generatorVars, view, shown>>
      BY <1>7 DEF spectrumVars
    <2> QED BY <1>0, <2>1, GeneratorsRest
  <1> QED BY <1>1, <1>2, <1>3, <1>4, <1>5, <1>6, <1>7 DEF SpectrumNext, OnParameterChanged

\* All streams of a spectrum that are on show the same moment, for any window
\* function and waves, chunks of any size and any number of changes: their
\* windows hold the frames that came last since the generators exist, the level
\* that is drawn lies between that of the window and the highest since then, and
\* nothing is drawn of a stream that is off; of FxSpectrum, StreamProcessor and
\* SpectrumDataGenerator.
THEOREM SpecSpectraShowOneMoment == SpectrumSpec => []SpectraShowOneMoment
  <1>1. SpectrumInv => SpectraShowOneMoment
    BY DEF SpectrumInv, SpectraShowOneMoment, ToldAsChosen, WindowIsRecent, LevelIsBetween,
           ShownIsLevel, FramesOf, NoFrames
  <1> QED BY <1>1, SpectrumBegins, SpectrumContinues, PTL DEF SpectrumSpec
=============================================================================
