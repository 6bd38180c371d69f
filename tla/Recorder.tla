------------------------------ MODULE Recorder ------------------------------
(***************************************************************************)
(* Takes: recorder_middleware with its files, audio_engine_middleware,     *)
(* which collects the streams and rebuilds the engine around it, and the   *)
(* stream processors of the engine that runs.  StreamRingBuffer shows that *)
(* a stream is a bounded queue, and EngineRebuild what a rebuild may fail  *)
(* of; here a rebuild of an engine whose device runs succeeds.             *)
(*                                                                         *)
(* A frame stands for the frames of a period, and is the number of the     *)
(* cycle that recorded it.                                                 *)
(***************************************************************************)
EXTENDS Integers, Sequences, FiniteSets, Functions, SequencesExt

CONSTANTS
    Channel, MainChannel,   \* the channels; the main one is never deleted
    Capacity,           \* frames that the ring of a stream holds
    MaxCycles, MaxStarts, MaxRestarts,  \* the bounds
    MaxCutShort         \* bound on the streams of which writes lose frames

ASSUME TakesAssumption == Capacity \in Nat

VARIABLES
    channels,           \* the channels of the state
    recording, recorder_streams, rec_session, rec_take,     \* of the state
    open_streams,       \* the file of each open stream
    dirs, files,        \* the disk: directories, and what the files hold
    config,             \* the number of the next session in the file, or none
    m_engine,           \* "none", "running", or "failed" with its device
    rings,              \* the frames that each stream processor holds
    recorders,          \* the streams that the executor records
    call,               \* the action that is being processed
    clock, starts, restarts, \* the bounded counters
    overflowed,         \* streams that dropped frames for want of room in the ring
    cut_short           \* streams of which a write to the file lost frames

stateVars == <<channels, recording, recorder_streams, rec_session, rec_take>>
diskVars == <<open_streams, dirs, files, config, cut_short>>
engineVars == <<m_engine, rings, recorders, overflowed>>
takeVars == <<stateVars, diskVars, engineVars, call, clock, starts, restarts>>

NoFunction == [x \in {} |-> x]
NoCall == [do |-> "idle", left |-> {}, got |-> NoFunction, asked |-> 0]

\* The program starts, with what an earlier run has left on the disk.
Started(session) ==
    /\ channels' = Channel
    /\ recording' = FALSE /\ recorder_streams' = NoFunction
    /\ rec_session' = session /\ rec_take' = 0
    /\ open_streams' = NoFunction
    /\ m_engine' = "none" /\ rings' = NoFunction /\ recorders' = {}
    /\ call' = NoCall

TakesInit ==
    /\ channels = Channel
    /\ recording = FALSE /\ recorder_streams = NoFunction
    /\ rec_session = 0 /\ rec_take = 0
    /\ open_streams = NoFunction /\ dirs = {} /\ files = NoFunction /\ config = 0
    /\ cut_short = {}
    /\ m_engine = "none" /\ rings = NoFunction /\ recorders = {} /\ overflowed = {}
    /\ call = NoCall /\ clock = 0 /\ starts = 0 /\ restarts = 0

-----------------------------------------------------------------------------
(* The engine. *)

\* make_recorder_processors: a stream keeps the processor that is found.
RecorderProcessors(streams, chans) ==
    [s \in {streams[c] : c \in {d \in DOMAIN streams : d \in chans \/ streams[d] \in DOMAIN rings}} |->
        IF s \in DOMAIN rings THEN rings[s] ELSE <<>>]

\* The engine is rebuilt for the next state, unless its device does not run;
\* a processor is wired behind its channel.
RebuildEngine ==
    IF m_engine = "running"
    THEN LET streams == IF recording' THEN recorder_streams' ELSE NoFunction
         IN  /\ rings' = RecorderProcessors(streams, channels')
             /\ recorders' = {streams[c] : c \in DOMAIN streams \cap channels'}
    ELSE UNCHANGED <<rings, recorders>>

\* A cycle of the audio thread: what does not fit into a ring is dropped.  The
\* cycles that record nothing are not counted.
Cycle ==
    /\ m_engine = "running" /\ recorders # {} /\ clock < MaxCycles
    /\ clock' = clock + 1
    /\ rings' = [s \in DOMAIN rings |->
                    IF s \in recorders /\ Len(rings[s]) < Capacity
                    THEN Append(rings[s], clock') ELSE rings[s]]
    /\ overflowed' = overflowed \cup {s \in recorders : Len(rings[s]) = Capacity}
    /\ UNCHANGED <<stateVars, diskVars, m_engine, recorders, call, starts, restarts>>

DeviceFails ==
    /\ m_engine = "running" /\ m_engine' = "failed"
    /\ UNCHANGED <<stateVars, diskVars, rings, recorders, overflowed, call, clock, starts, restarts>>

-----------------------------------------------------------------------------
(* The main thread. *)

Dir == <<rec_session, rec_take>>

\* make_unique_filename, of channels that all have the same name: the files
\* of the directory are counted.
FileNames(chans) ==
    LET taken == Cardinality({f \in DOMAIN files : f.dir = Dir})
    IN  Injection(chans, {[dir |-> Dir, num |-> n] : n \in taken .. taken + Cardinality(chans) - 1})

\* create_directories says false of a directory that exists, too.
\* Mutant: then the files are put there.
CreateDirectoryAny == dirs' = dirs \cup {Dir}

CreateDirectory == Dir \notin dirs /\ dirs' = dirs \cup {Dir}

\* The files of the channels that are to be recorded, of which those are
\* opened that can be.
OpenFiles(opened) ==
    \E names \in FileNames(opened) :
        /\ recorder_streams' = [c \in opened |-> <<starts', c>>]
        /\ open_streams' = [s \in {<<starts', c>> : c \in opened} |-> names[s[2]]]
        /\ files' = [f \in DOMAIN files \cup Range(names) |->
                        IF f \in DOMAIN files THEN files[f]
                        ELSE [frames |-> <<>>, start |-> starts']]
        /\ recording' = TRUE

NothingOpened == UNCHANGED <<recording, recorder_streams, open_streams, files>>

\* start_recording, which the user interface offers while nothing is recorded.
StartRecording(opened) ==
    /\ call.do = "idle" /\ ~recording /\ starts < MaxStarts
    /\ starts' = starts + 1
    /\ UNCHANGED channels
    /\ \/ CreateDirectory /\ IF opened = {} THEN NothingOpened ELSE OpenFiles(opened)
       \/ UNCHANGED dirs /\ NothingOpened
    /\ RebuildEngine
    /\ UNCHANGED <<rec_session, rec_take, config, m_engine, overflowed, cut_short, call, clock,
                   restarts>>

\* request_streams_update of the streams of the take, before what is to be
\* done next; without an engine, or a take, that is all.
RequestStreams(do) ==
    call' = [do |-> do, asked |-> clock, got |-> NoFunction,
             left |-> IF m_engine # "none" THEN Range(recorder_streams) ELSE {}]

\* request_recorder_streams_update, of the timer.
UpdateRecorderStreams ==
    /\ call.do = "idle" /\ recording
    /\ RequestStreams("update")
    /\ UNCHANGED <<stateVars, diskVars, engineVars, clock, starts, restarts>>

\* get_stream: what the ring holds is taken out.
GetStream(s) ==
    /\ s \in call.left
    /\ call' = [call EXCEPT !.left = @ \ {s},
                            !.got = [t \in DOMAIN call.got \cup {s} |->
                                IF t # s THEN call.got[t]
                                ELSE IF s \in DOMAIN rings THEN rings[s] ELSE <<>>]]
    /\ rings' = [t \in DOMAIN rings |-> IF t = s THEN <<>> ELSE rings[t]]
    /\ UNCHANGED <<stateVars, diskVars, m_engine, recorders, overflowed, clock, starts, restarts>>

\* update_streams writes it to the files that are open; what writef does not
\* take, on a disk that is full, is lost.
UpdateStreams ==
    LET writable == DOMAIN open_streams \cap DOMAIN call.got
        stream(f) == CHOOSE s \in writable : open_streams[s] = f
    IN
    /\ call.do # "idle" /\ call.left = {} /\ DOMAIN call.got # {}
    /\ \E written \in [writable -> 0 .. Capacity] :
        /\ \A s \in writable : written[s] <= Len(call.got[s])
        /\ files' = [f \in DOMAIN files |->
                [files[f] EXCEPT !.frames =
                    IF \E s \in writable : open_streams[s] = f
                    THEN @ \o SubSeq(call.got[stream(f)], 1, written[stream(f)])
                    ELSE @]]
        /\ cut_short' = cut_short \cup {s \in writable : written[s] < Len(call.got[s])}
        /\ Cardinality(cut_short') <= MaxCutShort
    /\ call' = [call EXCEPT !.got = NoFunction]
    /\ UNCHANGED <<stateVars, open_streams, dirs, config, engineVars, clock, starts, restarts>>

Collected == call.left = {} /\ call.got = NoFunction

UpdateEnds ==
    /\ call.do = "update" /\ Collected /\ call' = NoCall
    /\ UNCHANGED <<stateVars, diskVars, engineVars, clock, starts, restarts>>

\* stop_recording collects the streams first.
StopRecording(do) == RequestStreams(do)

\* The user stops; or changes the devices, which stops a recording, too.
Stop ==
    /\ call.do = "idle" /\ recording
    /\ StopRecording("stop")
    /\ UNCHANGED <<stateVars, diskVars, engineVars, clock, starts, restarts>>

ChangeDevice ==
    /\ call.do = "idle"
    /\ IF recording THEN StopRecording("device") ELSE call' = [NoCall EXCEPT !.do = "reopen"]
    /\ UNCHANGED <<stateVars, diskVars, engineVars, clock, starts, restarts>>

\* The files are closed, the take is over, and the engine is rebuilt.
EndTake ==
    /\ call.do \in {"stop", "device"} /\ Collected
    /\ open_streams' = NoFunction
    /\ recording' = FALSE /\ rec_take' = rec_take + 1 /\ recorder_streams' = NoFunction
    /\ UNCHANGED channels
    /\ RebuildEngine
    /\ call' = IF call.do = "device" THEN [NoCall EXCEPT !.do = "reopen"] ELSE NoCall
    /\ UNCHANGED <<rec_session, dirs, files, config, m_engine, overflowed, cut_short, clock,
                   starts, restarts>>

\* The device and the engine are closed; the device that is opened may fail.
Reopen ==
    /\ call.do = "reopen" /\ call' = NoCall
    /\ m_engine' \in {"none", "running"}
    /\ rings' = NoFunction /\ recorders' = {}
    /\ UNCHANGED <<stateVars, diskVars, overflowed, clock, starts, restarts>>

\* Every change of the mixer rebuilds the engine, also while it records.
DeleteChannel(c) ==
    /\ call.do = "idle" /\ c \in channels \ {MainChannel}
    /\ channels' = channels \ {c}
    /\ UNCHANGED <<recording, recorder_streams>>
    /\ RebuildEngine
    /\ UNCHANGED <<rec_session, rec_take, diskVars, m_engine, overflowed, call, clock, starts, restarts>>

\* The program quits, and writes the number of the next session.
Quit ==
    /\ call.do = "idle" /\ restarts < MaxRestarts
    /\ config' = rec_session + 1
    /\ Started(config')
    /\ restarts' = restarts + 1
    /\ UNCHANGED <<dirs, files, overflowed, cut_short, clock, starts>>

\* It ends in some other way, and does not.
Crash ==
    /\ restarts < MaxRestarts
    /\ Started(config)
    /\ restarts' = restarts + 1
    /\ UNCHANGED <<dirs, files, config, overflowed, cut_short, clock, starts>>

TakesNext ==
    \/ Cycle \/ DeviceFails
    \/ \E opened \in SUBSET channels : StartRecording(opened)
    \/ UpdateRecorderStreams \/ UpdateEnds
    \/ \E s \in call.left : GetStream(s)
    \/ UpdateStreams
    \/ Stop \/ ChangeDevice \/ EndTake \/ Reopen
    \/ \E c \in Channel : DeleteChannel(c)
    \/ Quit \/ Crash

TakesSpec == TakesInit /\ [][TakesNext]_takeVars
-----------------------------------------------------------------------------
WholeFrames(file, first) ==
    file.frames = [i \in DOMAIN file.frames |-> first + i - 1]

StreamsOf(file) == {<<file.start, c>> : c \in Channel}

\* The files of a directory are of one take, whatever has ended the program
\* before, and nothing is in them twice or out of order; they start together
\* unless the disk took less than it was given, and what a file holds has no
\* gap unless that has happened, or a ring has overflowed: through rebuilds,
\* deleted channels and devices that fail; of recorder_middleware and
\* make_recorder_processors.
OneTakeEach ==
    \A f \in DOMAIN files : \A g \in DOMAIN files :
        f.dir = g.dir =>
            /\ files[f].start = files[g].start
            /\ \A i \in DOMAIN files[f].frames : \A j \in DOMAIN files[f].frames :
                i < j => files[f].frames[i] < files[f].frames[j]
            /\ files[f].frames # <<>> /\ files[g].frames # <<>>
               /\ StreamsOf(files[f]) \cap cut_short = {} =>
                Head(files[f].frames) = Head(files[g].frames)
            /\ files[f].frames # <<>>
               /\ StreamsOf(files[f]) \cap (overflowed \cup cut_short) = {} =>
                WholeFrames(files[f], Head(files[f].frames))

\* A take that is stopped, by the user or by a change of devices, holds all
\* that was played until then, of every channel that is still there and of
\* which no frames were lost; and what is still in the rings came later: of
\* stop_recording in audio_engine_middleware.
StopKeepsAll ==
    call.do \in {"stop", "device"} /\ Collected =>
        \A s \in DOMAIN open_streams :
            /\ s \in DOMAIN rings => \A i \in DOMAIN rings[s] : rings[s][i] > call.asked
            /\ s \in recorders \ (overflowed \cup cut_short)
               /\ files[open_streams[s]].frames # <<>> =>
                Last(files[open_streams[s]].frames) >= call.asked

\* What is recorded is whole, in its directory and to its end.
TakesAreWhole == OneTakeEach /\ StopKeepsAll
=============================================================================
