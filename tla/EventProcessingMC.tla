------------------------- MODULE EventProcessingMC -------------------------
(***************************************************************************)
(* EventProcessing for periods of three frames and a smoother of two       *)
(* steps: up to two events of the volume and one of the balance in each of *)
(* two cycles, at any frame, so that a ramp is cut, restarted, or crosses  *)
(* a period.                                                               *)
(***************************************************************************)
EXTENDS Integers, Sequences

VARIABLES
    ev_last, ev_smoother, ev_lm, ev_bufs, ev_audio, ev_other, ev_gain, ev_out,
    ev_before, ev_quiet, ev_cycles

eventVars == <<ev_last, ev_smoother, ev_lm, ev_bufs, ev_audio, ev_other,
               ev_gain, ev_out, ev_before, ev_quiet, ev_cycles>>

EvOne == 64

EvAt(offsets, value) == {[offset |-> o, value |-> value] : o \in offsets}

\* One event that doubles the volume is enough: it clips.
EvVolumes ==
    {<<>>} \cup {<<e>> : e \in EvAt(0 .. 2, EvOne) \cup EvAt({1}, 2 * EvOne)} \cup
    {<<e, f>> : e \in EvAt({1}, EvOne), f \in EvAt({1, 2}, 0)}

EvBalances == {<<>>} \cup {<<e>> : e \in EvAt(0 .. 2, -EvOne) \cup EvAt({1}, EvOne \div 2)}

EvSignals ==
    {[constant |-> -EvOne], [frames |-> <<EvOne, -EvOne, 3 * EvOne>>]}

EV == INSTANCE EventProcessing WITH
    m_last <- ev_last, m_smoother <- ev_smoother, m_lm <- ev_lm, bufs <- ev_bufs,
    audio <- ev_audio, other <- ev_other, gain <- ev_gain, out <- ev_out,
    before <- ev_before, quiet <- ev_quiet, cycles <- ev_cycles,
    Buffers <- [volume : EvVolumes, balance : EvBalances],
    Signals <- EvSignals, buffer_size <- 3, smooth_length <- 2,
    window <- 4, One <- EvOne, MaxCycles <- 2

\* The gain of a side at a frame lies between the one before and what volume
\* and balance say at that frame, which it is after smooth_length steps without
\* an event; what comes out is, frame by frame, the audio times the gain and
\* what is mixed to it, clipped, however the slices were cut and whatever is
\* constant; and the sum of the meter is that of the squares it remembers.
SignalFollowsParameters == EV!SignalFollowsParameters
=============================================================================
