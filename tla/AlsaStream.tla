----------------------------- MODULE AlsaStream -----------------------------
(***************************************************************************)
(* The audio thread on its ALSA devices: process_step with the transfers   *)
(* of its reader and its writer, the process_thread that repeats it, and   *)
(* pcm_io, which starts and stops it.  Each ioctl is a step, and between   *)
(* any two of them the hardware may capture and play a frame.              *)
(*                                                                         *)
(* The kernel's side is external, and modelled from the parameters that    *)
(* open_pcm sets: two linked streams start together when the start         *)
(* threshold is queued, and stop with an xrun as soon as stop_threshold    *)
(* frames wait for the reader, or are missing from the writer.             *)
(*                                                                         *)
(* A frame is the number of the tick that captured it and of the start     *)
(* before it; the engine hands every frame on.  All channels of a frame    *)
(* move together, through readers and writers that convert the samples one *)
(* by one.  The devices are interleaved and of a known format: those that  *)
(* are not have no converters, as many of which the engine asserts as      *)
(* there are channels.                                                     *)
(***************************************************************************)
EXTENDS Integers, Sequences, SequencesExt

CONSTANTS
    period_size, period_count,  \* the configuration of the process
    MaxTicks,                   \* bound on the ticks after one start
    MaxStarts,                  \* bound on the starts of the streams
    Silence                     \* the frame of a cleared buffer

ASSUME StreamAssumption ==
    period_size \in Nat \ {0} /\ period_count \in Nat \ {0}

VARIABLES
    fds,                \* the devices that are open: "in", "out"
    thread_running,     \* the flag of the process_thread
    m_error,            \* what ended the thread: "", "xrun", "lost"
    pcm_pc,             \* the place of the thread in process_step
    m_starting, m_xruns,
    m_read_buffer, m_write_buffer,
    frames_transferred, \* by the transfer that is under way
    filled,             \* periods of silence written by this start
    stream,             \* the kernel: "setup", "prepared", "running", "xrun", "lost"
    captured, queued,   \* the frames in the buffers of the kernel
    start, tick,        \* the starts so far, the ticks since the last one
    heard               \* the frame that the last tick played

stepVars == <<m_error, m_starting, m_xruns, m_read_buffer, m_write_buffer>>
kernelVars == <<stream, captured, queued, start, tick, heard>>
streamVars == <<fds, thread_running, pcm_pc, frames_transferred, filled, stepVars, kernelVars>>

buffer_size == period_size * period_count
Silent(n) == [i \in 1 .. n |-> Silence]

\* The software parameters of open_pcm.
start_threshold == buffer_size
stop_threshold == buffer_size

\* make_reader and make_writer: a device that is not open has a dummy.
Reads == "in" \in fds
Writes == "out" \in fds

\* transferi goes on until the period has been transferred.
Transferred(n) == (frames_transferred + n) % period_size

\* pcm_io has opened its devices, and linked them.
Opened ==
    /\ fds \in {{"in", "out"}, {"in"}, {"out"}}
    /\ stream = "setup" /\ captured = <<>> /\ queued = <<>>
    /\ start = 0 /\ tick = 0 /\ heard = Silence

MadeStep ==
    /\ m_starting = TRUE /\ m_xruns = 0
    /\ m_read_buffer = Silent(period_size)
    /\ m_write_buffer = Silent(period_size)
    /\ frames_transferred = 0 /\ filled = 0

\* pcm_io::start makes the thread and its step.
StreamInit == Opened /\ MadeStep /\ thread_running = TRUE /\ m_error = "" /\ pcm_pc = "step"

-----------------------------------------------------------------------------
\* The hardware.

Tick ==
    /\ stream = "running" /\ tick < MaxTicks
    /\ tick' = tick + 1
    /\ captured' = IF Reads THEN Append(captured, <<start, tick'>>) ELSE captured
    /\ heard' = IF Writes THEN Head(queued) ELSE heard
    /\ queued' = IF Writes THEN Tail(queued) ELSE queued
    /\ stream' = IF \/ Len(captured') >= stop_threshold
                    \/ Writes /\ buffer_size - Len(queued') >= stop_threshold
                 THEN "xrun" ELSE stream
    /\ UNCHANGED <<fds, thread_running, pcm_pc, frames_transferred, filled, stepVars, start>>

\* The devices are unplugged.
Lose ==
    /\ stream # "lost" /\ stream' = "lost"
    /\ UNCHANGED <<fds, thread_running, pcm_pc, frames_transferred, filled, stepVars,
                   captured, queued, start, tick, heard>>

-----------------------------------------------------------------------------
\* The thread.

\* An error of an ioctl: a broken pipe after the start is an xrun, which the
\* next step repairs; every other error ends the thread.
Fail ==
    /\ \/ stream = "lost" /\ pcm_pc = "prepare"
       \/ stream \in {"xrun", "lost"} /\ pcm_pc \in {"fill", "start", "write"}
       \/ stream \in {"xrun", "lost"} /\ pcm_pc = "read" /\ Reads
    /\ IF stream = "xrun" /\ pcm_pc \in {"read", "write"}
       THEN /\ m_starting' = TRUE /\ m_xruns' = m_xruns + 1
            /\ pcm_pc' = "step" /\ UNCHANGED <<m_error, thread_running>>
       ELSE /\ m_error' = stream /\ thread_running' = FALSE
            /\ pcm_pc' = "ended" /\ UNCHANGED <<m_starting, m_xruns>>
    /\ frames_transferred' = 0
    /\ UNCHANGED <<fds, filled, m_read_buffer, m_write_buffer, kernelVars>>

\* process_thread tests its flag between two steps.
Step ==
    /\ pcm_pc = "step"
    /\ pcm_pc' = IF ~thread_running THEN "ended" ELSE IF m_starting THEN "prepare" ELSE "read"
    /\ UNCHANGED <<fds, thread_running, frames_transferred, filled, stepVars, kernelVars>>

\* SNDRV_PCM_IOCTL_PREPARE empties the buffers of both linked streams.
PrepareWith(write_buffer) ==
    /\ pcm_pc = "prepare" /\ stream # "lost" /\ start < MaxStarts
    /\ stream' = "prepared" /\ captured' = <<>> /\ queued' = <<>>
    /\ filled' = 0
    /\ m_write_buffer' = IF Writes THEN write_buffer ELSE m_write_buffer
    /\ pcm_pc' = IF Writes THEN "fill" ELSE "start"
    /\ UNCHANGED <<fds, thread_running, frames_transferred, m_error, m_starting, m_xruns,
                   m_read_buffer, start, tick, heard>>

\* Mutant: the writer is not cleared.
PrepareUncleared == PrepareWith(m_write_buffer)

Prepare == PrepareWith(Silent(period_size))

\* The stream starts to run.
Started(running) ==
    /\ stream' = IF running THEN "running" ELSE stream
    /\ start' = IF running THEN start + 1 ELSE start
    /\ tick' = IF running THEN 0 ELSE tick

\* SNDRV_PCM_IOCTL_START, which only a capture stream alone needs.
StartInput ==
    /\ pcm_pc = "start" /\ stream = "prepared"
    /\ Started(TRUE)
    /\ m_read_buffer' = Silent(period_size)
    /\ m_starting' = FALSE /\ pcm_pc' = "read"
    /\ UNCHANGED <<fds, thread_running, frames_transferred, filled, m_error, m_xruns,
                   m_write_buffer, captured, queued, heard>>

\* SNDRV_PCM_IOCTL_WRITEI_FRAMES: some of the frames that are left.
WriteFrames(n) ==
    /\ stream \in {"prepared", "running"}
    /\ n <= period_size - frames_transferred
    /\ Len(queued) + n <= buffer_size
    /\ queued' = queued \o SubSeq(m_write_buffer, frames_transferred + 1, frames_transferred + n)
    /\ Started(stream = "prepared" /\ Len(queued') >= start_threshold)
    /\ frames_transferred' = Transferred(n)
    /\ UNCHANGED <<captured, heard>>

\* The periods of silence that fill the buffer; the last one starts both streams.
Fill(n) ==
    /\ pcm_pc = "fill" /\ WriteFrames(n)
    /\ IF frames_transferred' # 0
       THEN UNCHANGED <<pcm_pc, filled, m_starting, m_read_buffer>>
       ELSE /\ filled' = filled + 1
            /\ IF filled' < period_count
               THEN UNCHANGED <<pcm_pc, m_starting, m_read_buffer>>
               ELSE /\ m_read_buffer' = Silent(period_size)
                    /\ m_starting' = FALSE /\ pcm_pc' = "read"
    /\ UNCHANGED <<fds, thread_running, m_error, m_xruns, m_write_buffer>>

\* m_process_function: the engine hands the period on.
Processed == m_write_buffer' = IF Writes THEN m_read_buffer' ELSE m_write_buffer

\* SNDRV_PCM_IOCTL_READI_FRAMES: some of the frames that are left; after the
\* last one the period is processed.
Read(n) ==
    /\ pcm_pc = "read" /\ Reads
    /\ stream = "running"
    /\ n <= period_size - frames_transferred /\ n <= Len(captured)
    /\ m_read_buffer' =
        [i \in 1 .. period_size |-> IF i \in frames_transferred + 1 .. frames_transferred + n
                                    THEN captured[i - frames_transferred]
                                    ELSE m_read_buffer[i]]
    /\ captured' = SubSeq(captured, n + 1, Len(captured))
    /\ frames_transferred' = Transferred(n)
    /\ IF frames_transferred' = 0
       THEN /\ Processed
            /\ pcm_pc' = IF Writes THEN "write" ELSE "step"
       ELSE UNCHANGED <<m_write_buffer, pcm_pc>>
    /\ UNCHANGED <<fds, thread_running, filled, m_error, m_starting, m_xruns,
                   stream, queued, start, tick, heard>>

\* A dummy_reader has nothing to transfer.
ReadNothing ==
    /\ pcm_pc = "read" /\ ~Reads
    /\ m_read_buffer' = m_read_buffer /\ Processed
    /\ pcm_pc' = "write"
    /\ UNCHANGED <<fds, thread_running, frames_transferred, filled, m_error, m_starting, m_xruns,
                   kernelVars>>

Write(n) ==
    /\ pcm_pc = "write" /\ WriteFrames(n)
    /\ pcm_pc' = IF frames_transferred' = 0 THEN "step" ELSE pcm_pc
    /\ UNCHANGED <<fds, thread_running, filled, stepVars>>

\* pcm_io::stop joins the thread and drops the streams.
Stop ==
    /\ thread_running /\ thread_running' = FALSE
    /\ UNCHANGED <<fds, pcm_pc, frames_transferred, filled, stepVars, kernelVars>>

Drop ==
    /\ ~thread_running /\ pcm_pc = "ended" /\ stream \notin {"setup", "lost"}
    /\ stream' = "setup" /\ captured' = <<>> /\ queued' = <<>>
    /\ UNCHANGED <<fds, thread_running, pcm_pc, frames_transferred, filled, stepVars,
                   start, tick, heard>>

StreamNext ==
    \/ Tick \/ Lose
    \/ Step \/ Prepare \/ StartInput \/ ReadNothing
    \/ Fail
    \/ \E n \in 1 .. period_size : Fill(n) \/ Read(n) \/ Write(n)
    \/ Stop \/ Drop

StreamSpec == StreamInit /\ [][StreamNext]_streamVars
-----------------------------------------------------------------------------
\* What is heard is what was captured buffer_size ticks before, after the same
\* start, and silence before that: no frame is lost, repeated or late between
\* two xruns, and none survives one, in process_step and its transfers.  And
\* only the loss of the devices ends the thread with an error: an xrun is
\* repaired, also one that comes while the streams are being started again.
LatencySurvivesXruns ==
    /\ m_error # "xrun"
    /\ fds = {"in", "out"} /\ tick > 0 =>
        heard = IF tick <= buffer_size THEN Silence ELSE <<start, tick - buffer_size>>
=============================================================================
