-------------------------- MODULE EngineRebuildMC --------------------------
(***************************************************************************)
(* Model checking of EngineRebuild: four rebuilds spread over two engines, *)
(* with a stream that can be captured, dropped and captured again, and an  *)
(* effect and a solo that come into use, leave it and come back with a     *)
(* MIDI control or without; and an engine can follow one whose device      *)
(* failed.  And, as other subjects of the run, AlsaStream, which is the    *)
(* device that executes the engine, and DeviceSelection, which opens it.   *)
(***************************************************************************)
EXTENDS EngineRebuild, AlsaStream, DeviceSelection

-----------------------------------------------------------------------------
(***************************************************************************)
(* Model checking of AlsaStream with periods of two frames, two of which   *)
(* fill the buffer, three starts and enough ticks after each that the      *)
(* buffer passes around more than once.                                    *)
(***************************************************************************)
MCSilence == <<0, 0>>

\* No device is open.
StreamParked ==
    /\ fds = {} /\ thread_running = FALSE /\ m_error = "" /\ pcm_pc = "ended"
    /\ m_starting = FALSE /\ m_xruns = 0 /\ m_read_buffer = <<>> /\ m_write_buffer = <<>>
    /\ frames_transferred = 0 /\ filled = 0 /\ stream = "setup"
    /\ captured = <<>> /\ queued = <<>> /\ start = 0 /\ tick = 0 /\ heard = Silence

-----------------------------------------------------------------------------
(***************************************************************************)
(* Model checking of DeviceSelection: an input and an output whose period  *)
(* sizes and counts depend on what is chosen before them, and an input of  *)
(* one channel that has no rate in common with the output.                 *)
(***************************************************************************)
MCSupported ==
    [i1 |-> {<<1, 1, 2>>, <<1, 2, 2>>, <<1, 2, 3>>, <<2, 1, 3>>, <<2, 2, 2>>},
     i2 |-> {<<3, 1, 2>>, <<3, 2, 2>>},
     o1 |-> {<<1, 1, 2>>, <<1, 1, 3>>, <<1, 2, 3>>, <<2, 1, 2>>, <<2, 1, 3>>}]

MCNumChannels == [i1 |-> 2, i2 |-> 1, o1 |-> 2]

MCBus(type, left, right) == [type |-> type, left |-> left, right |-> right]

\* A file of the devices that are there, and one of an input that is not.
MCConfs ==
    {[device_name |-> [in |-> name, out |-> "o1"], config |-> <<2, 1, 2>>,
      buses |-> [in |-> <<MCBus("mono", 1, 1)>>, out |-> <<MCBus("stereo", 0, 1)>>]] :
        name \in {"i1", "i2", "gone"}}

\* No device has been listed.
DevicesParked ==
    /\ plugged = {} /\ started = FALSE /\ pcm_devices = <<>> /\ selected = <<>>
    /\ pcm_config = <<>> /\ buses = [in |-> <<>>, out |-> <<>>]
    /\ m_device = Closed /\ terminated = FALSE /\ plugs = 0

-----------------------------------------------------------------------------
VARIABLE subject    \* which of them is run; the others rest

mcVars == <<subject, vars, streamVars, deviceVars>>

MCInit ==
    /\ Init
    /\ \/ subject = "rebuild" /\ StreamParked /\ DevicesParked
       \/ subject = "stream" /\ StreamInit /\ DevicesParked
       \/ subject = "devices" /\ DevicesInit /\ StreamParked

MCNext(RebuildNext) ==
    /\ UNCHANGED subject
    /\ \/ subject = "rebuild" /\ RebuildNext /\ UNCHANGED <<streamVars, deviceVars>>
       \/ subject = "stream" /\ StreamNext /\ UNCHANGED <<vars, deviceVars>>
       \/ subject = "devices" /\ DevicesNext /\ UNCHANGED <<vars, streamVars>>

MCFairTimelySpec == MCInit /\ [][MCNext(TimelyNext)]_mcVars /\ Fairness

\* The rebuild alone, with an audio thread that answers in time ...
MCTimelySpec == MCInit /\ subject = "rebuild" /\ [][MCNext(TimelyNext)]_mcVars

\* ... and without the assumption on it.
MCSpec == MCInit /\ subject = "rebuild" /\ [][MCNext(Next)]_mcVars
=============================================================================
