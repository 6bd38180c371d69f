--------------------------- MODULE EngineRebuild ---------------------------
(***************************************************************************)
(* How a new processing graph reaches the audio thread.  The middleware    *)
(* (main thread) builds processors and an executor, process::swap_executor *)
(* offers the executor to the audio thread in m_next_executor and waits at *)
(* most 200 ms on a future for the previous one; audio_engine::rebuild     *)
(* keeps the new processors when it is told that the swap succeeded, and   *)
(* drops them otherwise.  The audio thread is a process_thread that calls  *)
(* process::operator() until it is stopped or its device fails.            *)
(*                                                                         *)
(* Builds are numbered; executor k is that of build k, executor 0 is the   *)
(* dummy of a new process and needs no processors.  A processor is known   *)
(* by what it is of and by the build that made it.  Those of an effect (a  *)
(* channel's are like them, and always in use) are taken over from one     *)
(* build to the next, those of the solo switches are made anew by each, as *)
(* are the rest: the mixers and clips of one graph.  The factories         *)
(* register, without owning it, the processor of each parameter and of     *)
(* each audio stream that is captured.                                     *)
(***************************************************************************)
EXTENDS Naturals, FiniteSets

CONSTANTS
    Stream,         \* the ids of the audio streams
    Parameter,      \* those of effects and solos, which MIDI can control
    Solo,           \* those of solos
    Rest,           \* what else a graph is made of
    MaxBuilds,      \* bound on the rebuilds
    MaxEngines,     \* bound on the engines, one per opened device
    Nothing         \* no executor: a null pointer, a promise without value

ASSUME BoundsAssumption ==
    /\ MaxBuilds \in Nat /\ MaxEngines \in Nat /\ Nothing \notin Nat
    /\ Solo \subseteq Parameter /\ Rest \notin Parameter

VARIABLES
    main,           \* where the main thread is
    engine,         \* number of engines made; the last one exists unless
                    \* main is "closed"
    builds,         \* number of the newest build
    wanted,         \* streams that the state says to capture
    needed,         \* parameters of effects and solo groups that are in use
    assigned,       \* parameters with a MIDI control
    committed,      \* build whose processors the engine keeps
    held,           \* streams captured by it
    comps,          \* the processors that the engine keeps,
    new_comps,      \* and those of the rebuild under way
    m_procs,        \* stream ids registered in the stream_processor_factory
    m_param_procs,  \* build of the processor that is registered for each
                    \* parameter, or 0
    m_next_executor,
    m_prev_executor,    \* value of the current promise
    parts,          \* of each executor, the components it executes,
    wired,          \* and the processors that its MIDI wires lead to
    audio,          \* where the audio thread is
    m_running,      \* flag of the process_thread
    m_executor,     \* executor the audio thread runs
    replaced        \* executor the audio thread took out and has not returned

stateVars == <<wanted, needed, assigned>>
keptVars == <<committed, held, comps>>
procVars == <<m_procs, m_param_procs>>
executorVars == <<parts, wired>>
mainVars == <<main, engine, builds, stateVars, keptVars, new_comps, procVars, executorVars>>
audioVars == <<audio, m_executor, replaced>>
sharedVars == <<m_next_executor, m_prev_executor, m_running>>
vars == <<mainVars, audioVars, sharedVars>>

Executor == 0 .. MaxBuilds

Init ==
    /\ main = "closed"
    /\ engine = 0
    /\ builds = 0
    /\ wanted = {} /\ needed = {} /\ assigned = {}
    /\ committed = 0 /\ held = {} /\ comps = {} /\ new_comps = {}
    /\ m_procs = {}
    /\ m_param_procs = [p \in Parameter |-> 0]
    /\ parts = [k \in Executor |-> {}]
    /\ wired = [k \in Executor |-> {}]
    /\ m_next_executor = Nothing
    /\ m_prev_executor = Nothing
    /\ audio = "exited"
    /\ m_running = FALSE
    /\ m_executor = 0
    /\ replaced = Nothing

-----------------------------------------------------------------------------
\* start_engine: a new engine, with a new process, on a new audio thread; it
\* ends with a rebuild.
StartEngine ==
    /\ main = "closed"
    /\ engine < MaxEngines
    /\ builds < MaxBuilds
    /\ engine' = engine + 1
    /\ main' = "rebuild"
    /\ m_next_executor' = Nothing /\ m_prev_executor' = Nothing
    /\ m_executor' = 0 /\ replaced' = Nothing
    /\ m_running' = TRUE
    /\ audio' = "loop"
    /\ UNCHANGED <<builds, stateVars, keptVars, new_comps, procVars, executorVars>>

\* An engine action changes the state, and then rebuilds.  A bypassed effect,
\* or the solo of a channel that leaves its group, keeps its MIDI control.
EngineAction ==
    /\ main = "idle"
    /\ builds < MaxBuilds
    /\ wanted' \in SUBSET Stream
    /\ needed' \in SUBSET Parameter
    /\ assigned' \in SUBSET Parameter
    /\ main' = "rebuild"
    /\ UNCHANGED <<engine, builds, keptVars, new_comps, procVars, executorVars,
                   audioVars, sharedVars>>

\* rebuild does nothing unless the device is running.
SkipRebuild ==
    /\ main = "rebuild"
    /\ ~m_running
    /\ main' = "idle"
    /\ UNCHANGED <<engine, builds, stateVars, keptVars, new_comps, procVars,
                   executorVars, audioVars, sharedVars>>

\* The processors of the effects that the engine has are taken over.
TakenOver == {c \in comps : c[1] \in needed \ Solo}

MakeComponents(build) ==
    TakenOver \union
    {<<x, build>> : x \in (needed \union {Rest}) \ {c[1] : c \in TakenOver}}

\* The assignments connected before the components of this build are made.
ConnectMidiEarly == {<<p, m_param_procs[p]>> : p \in assigned} \intersect comps

\* connect_midi: find_processor finds what is registered and still has an
\* owner, which the engine that is replaced is, too.
ConnectMidi ==
    {<<p, m_param_procs'[p]>> : p \in assigned} \intersect (comps \union new_comps')

BuildGraph ==
    /\ main = "rebuild"
    /\ m_running
    /\ builds' = builds + 1
    /\ new_comps' = MakeComponents(builds')
    /\ m_param_procs' = [p \in Parameter |->
            IF <<p, builds'>> \in new_comps' THEN builds' ELSE m_param_procs[p]]
    /\ parts' = [parts EXCEPT ![builds'] = new_comps']
    /\ wired' = [wired EXCEPT ![builds'] = ConnectMidi]
    /\ main' = "register"
    /\ UNCHANGED <<engine, stateVars, keptVars, m_procs, audioVars, sharedVars>>

\* Streams that the kept processors do not capture get new processors.
NewStreams == wanted \ held

RegisterStreams ==
    /\ main = "register"
    /\ m_procs' = m_procs \union NewStreams
    /\ main' = "renew"
    /\ UNCHANGED <<engine, builds, stateVars, keptVars, new_comps, m_param_procs,
                   executorVars, audioVars, sharedVars>>

\* A swap that goes on with the promise of the last one.
ReusePromise ==
    /\ main = "renew"
    /\ main' = "offer"
    /\ UNCHANGED <<engine, builds, stateVars, keptVars, new_comps, procVars,
                   executorVars, audioVars, sharedVars>>

\* swap_executor: a new promise ...
RenewPromise ==
    /\ main = "renew"
    /\ m_prev_executor' = Nothing
    /\ main' = "offer"
    /\ UNCHANGED <<engine, builds, stateVars, keptVars, new_comps, procVars,
                   executorVars, audioVars, m_next_executor, m_running>>

\* ... the offer ...
OfferExecutor ==
    /\ main = "offer"
    /\ m_next_executor' = builds
    /\ main' = "wait"
    /\ UNCHANGED <<engine, builds, stateVars, keptVars, new_comps, procVars,
                   executorVars, audioVars, m_prev_executor, m_running>>

DestroyExecutor(k) ==
    /\ parts' = [parts EXCEPT ![k] = {}]
    /\ wired' = [wired EXCEPT ![k] = {}]

\* ... the previous executor comes back in time, and is destroyed; rebuild
\* keeps the new processors, which destroys those that only the last build
\* had, and forgets what has expired ...
SwapSucceeded ==
    /\ main = "wait"
    /\ m_prev_executor # Nothing
    /\ DestroyExecutor(m_prev_executor)
    /\ committed' = builds
    /\ held' = wanted
    /\ comps' = new_comps /\ new_comps' = {}
    /\ m_procs' = wanted
    /\ m_param_procs' = [p \in Parameter |->
            IF <<p, m_param_procs[p]>> \in comps' THEN m_param_procs[p] ELSE 0]
    /\ main' = "idle"
    /\ UNCHANGED <<engine, builds, stateVars, audioVars, sharedVars>>

\* A wait without a time-out.
WaitForever ==
    /\ main = "wait"
    /\ UNCHANGED vars

\* ... or 200 ms have passed: the wait ends first, then whatever is left in
\* m_next_executor is deleted and rebuild drops the new processors.
SwapTimesOut ==
    /\ main = "wait"
    /\ m_prev_executor = Nothing
    /\ main' = "withdraw"
    /\ UNCHANGED <<engine, builds, stateVars, keptVars, new_comps, procVars,
                   executorVars, audioVars, sharedVars>>

WithdrawOffer ==
    /\ main = "withdraw"
    /\ IF m_next_executor = Nothing THEN UNCHANGED executorVars
       ELSE DestroyExecutor(m_next_executor)
    /\ m_next_executor' = Nothing
    /\ new_comps' = {}
    /\ main' = "idle"
    /\ UNCHANGED <<engine, builds, stateVars, keptVars, procVars,
                   audioVars, m_prev_executor, m_running>>

\* close_device: the device's destructor stops the thread, joins it, and then
\* the engine is destroyed with its process.
StopThread ==
    /\ main = "idle"
    /\ m_running' = FALSE
    /\ main' = "join"
    /\ UNCHANGED <<engine, builds, stateVars, keptVars, new_comps, procVars,
                   executorVars, audioVars, m_next_executor, m_prev_executor>>

DestroyAll ==
    /\ committed' = 0 /\ held' = {} /\ comps' = {}
    /\ m_procs' = {} /\ m_param_procs' = [p \in Parameter |-> 0]
    /\ parts' = [k \in Executor |-> {}] /\ wired' = [k \in Executor |-> {}]
    /\ UNCHANGED <<engine, builds, stateVars, new_comps, audioVars, sharedVars>>

\* A close that does not wait for the audio thread.
DestroyEngineNoJoin == main = "join" /\ main' = "closed" /\ DestroyAll

DestroyEngine ==
    /\ main = "join"
    /\ audio = "exited"
    /\ main' = "closed"
    /\ DestroyAll

-----------------------------------------------------------------------------
\* The audio thread: process_thread's loop around process::operator().

LoopTest ==
    /\ audio = "loop"
    /\ audio' = IF m_running THEN "exchange" ELSE "exited"
    /\ UNCHANGED <<m_executor, replaced, mainVars, sharedVars>>

TakeNext ==
    /\ audio = "exchange"
    /\ m_next_executor' = Nothing
    /\ IF m_next_executor = Nothing
       THEN /\ audio' = "execute"
            /\ UNCHANGED <<m_executor, replaced>>
       ELSE /\ audio' = "return"
            /\ m_executor' = m_next_executor
            /\ replaced' = m_executor
    /\ UNCHANGED <<m_prev_executor, m_running, mainVars>>

\* set_value on a promise that has its value throws out of a noexcept function.
ReturnPrevious ==
    /\ audio = "return"
    /\ replaced' = Nothing
    /\ IF m_prev_executor = Nothing
       THEN /\ m_prev_executor' = replaced
            /\ audio' = "execute"
       ELSE /\ audio' = "terminated"
            /\ UNCHANGED m_prev_executor
    /\ UNCHANGED <<m_executor, m_next_executor, m_running, mainVars>>

\* One period ran.
Execute ==
    /\ audio = "execute"
    /\ audio' = "loop"
    /\ UNCHANGED <<m_executor, replaced, mainVars, sharedVars>>

\* The device fails: fprocess returns an error, and the loop ends.
DeviceFails ==
    /\ audio = "loop"
    /\ m_running
    /\ m_running' = FALSE
    /\ audio' = "exited"
    /\ UNCHANGED <<m_executor, replaced, m_next_executor, m_prev_executor,
                   mainVars>>

-----------------------------------------------------------------------------
Rebuild ==
    \/ EngineAction \/ SkipRebuild \/ BuildGraph
    \/ RegisterStreams \/ RenewPromise \/ OfferExecutor
    \/ SwapSucceeded \/ SwapTimesOut \/ WithdrawOffer

Device == StartEngine \/ StopThread \/ DestroyEngine

AudioThread ==
    LoopTest \/ TakeNext \/ ReturnPrevious \/ Execute \/ DeviceFails

Next == Rebuild \/ Device \/ AudioThread

Fairness ==
    /\ WF_vars(main \notin {"idle", "closed"} /\ (Rebuild \/ Device))
    /\ WF_vars(AudioThread)

Spec == Init /\ [][Next]_vars
FairSpec == Spec /\ Fairness

\* The assumption under which the swap is correct, and which the code does not
\* enforce: an audio thread that still runs answers within the 200 ms.
TimelyNext == Next /\ (main = "wait" /\ main' = "withdraw" => audio = "exited")
FairTimelySpec == Init /\ [][TimelyNext]_vars /\ Fairness

-----------------------------------------------------------------------------
\* The processors that exist: those the engine keeps, and those a rebuild under
\* way has made.
Alive == comps \union new_comps

\* The executor that the audio thread runs only uses processors that exist, as
\* find_processor means to see to by asking whether the processor has an owner.
ExecutedProcessorsExist ==
    audio # "exited" =>
        main # "closed" /\ parts[m_executor] \union wired[m_executor] \subseteq Alive

\* The components that it executes all exist, in particular a swap that is
\* reported as failed was not taken; and what MIDI wires lead to is that of the
\* component that is executed, where the parameter has one.  So nothing but a
\* wire to a parameter that the graph has no component of leads to a processor
\* that is gone.
OnlyMidiWiresDangle ==
    audio # "exited" =>
        /\ main # "closed"
        /\ parts[m_executor] \subseteq Alive
        /\ \A w \in wired[m_executor] :
                w[1] \in {c[1] : c \in parts[m_executor]} => w \in parts[m_executor]

\* Between two actions a running engine executes the newest build, so it
\* shows the state the store holds, and its MIDI wires lead to every parameter in
\* use that has a control; and of the streams exactly those in use are
\* registered, so that the id of one that needs a processor is free (the
\* BOOST_VERIFY in stream_processor_factory::make_processor).
EngineFollowsState ==
    /\ main = "idle" /\ m_running =>
        /\ committed = builds
        /\ m_executor = builds
        /\ held = wanted
        /\ m_procs = held
        /\ needed \intersect assigned \subseteq {w[1] : w \in wired[m_executor]}
    /\ main = "register" => NewStreams \cap m_procs = {}

\* A rebuild and a close of the device end, whatever the audio thread and the
\* device do: the main thread waits for both.
RebuildsAndClosesEnd ==
    /\ (main = "rebuild") ~> (main = "idle")
    /\ (main = "join") ~> (main = "closed")
=============================================================================
