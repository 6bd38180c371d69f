------------------------- MODULE EngineRebuildProofs -------------------------
(***************************************************************************)
(* The engine's executors, the stream of its device and the choice of the  *)
(* device, each for every value of its constants.                          *)
(*                                                                         *)
(* For every number of rebuilds and engines and every set of streams and   *)
(* parameters: as long as an audio thread that runs answers in time, the   *)
(* components it executes exist, a MIDI wire that does not lead to one of  *)
(* them is of a parameter that has none, and what it executes follows the  *)
(* state.                                                                  *)
(*                                                                         *)
(* The two threads share no lock.  The argument is where the executor of   *)
(* the newest build is: nowhere yet, offered, taken while the one before   *)
(* it is on its way back, or returned for; that an audio thread that ended *)
(* has taken its last one; and what the engine that is kept and the one    *)
(* being built have of components, registrations and wires.                *)
(*                                                                         *)
(* The arguments for the stream and for the choice stand before their own  *)
(* invariants below.                                                       *)
(***************************************************************************)
EXTENDS EngineRebuild, AlsaStream, DeviceSelection, SequenceTheorems,
    FiniteSetTheorems, WellFoundedInduction, TLAPS

\* A rebuild has made its graph, and the swap is not over.
Building == main \in {"register", "renew", "offer", "wait"}

\* Processors of parameters and others, by the build that made them.
Component == (Parameter \cup {Rest}) \X Nat

NamesOf(components) == {c[1] : c \in components}

\* Positions, numbers and components.
TypeOK ==
    /\ main \in {"closed", "rebuild", "register", "renew", "offer", "wait", "withdraw",
                 "idle", "join"}
    /\ audio \in {"loop", "exchange", "return", "execute", "exited"}
    /\ builds \in Nat /\ committed \in Nat
    /\ m_running \in BOOLEAN
    /\ needed \subseteq Parameter /\ assigned \subseteq Parameter
    /\ comps \subseteq Component /\ new_comps \subseteq Component
    /\ m_param_procs \in [Parameter -> Nat]
    /\ parts \in [Executor -> SUBSET Component]
    /\ wired \in [Executor -> SUBSET Component]

\* The newest build has a number, and the one that is kept is older while the
\* newest is on its way; what exists was made by one of the builds.
BuildsAreCounted ==
    /\ builds <= MaxBuilds /\ committed <= builds
    /\ main = "rebuild" => builds < MaxBuilds
    /\ Building => committed < builds
    /\ \A c \in comps \cup new_comps : c[2] <= builds

\* The MIDI wires of an executor lead to its own components where they can.
WiresFit(k) == \A w \in wired[k] : w[1] \in NamesOf(parts[k]) => w \in parts[k]

\* The factory finds these processors by their parameters.
Registered(components) ==
    \A c \in components : c[1] \in Parameter => m_param_procs[c[1]] = c[2]

\* The MIDI wires lead to every parameter in use that has a control.
ControlsAreWired(k) == needed \cap assigned \subseteq NamesOf(wired[k])

\* The executor of the kept build executes what the engine keeps.
KeptFits ==
    /\ main = "closed" =>
            comps = {} /\ \A k \in Executor : parts[k] = {} /\ wired[k] = {}
    /\ audio # "exited" => parts[committed] \subseteq comps /\ WiresFit(committed)
    /\ main \in {"idle", "rebuild"} /\ m_running => Registered(comps)
    /\ main = "idle" /\ m_running => ControlsAreWired(committed)

\* The executor of the newest build executes what the rebuild has made.
NewFits ==
    Building =>
        /\ parts[builds] = new_comps
        /\ WiresFit(builds)
        /\ Registered(new_comps)
        /\ ControlsAreWired(builds)

\* No executor is on its way.
Settled ==
    /\ m_next_executor = Nothing
    /\ m_executor = committed
    /\ audio # "return"

\* The audio thread has not seen the offer yet.
OnOffer ==
    /\ m_next_executor = builds
    /\ m_prev_executor = Nothing
    /\ m_executor = committed
    /\ audio # "return"

\* It took the new executor and holds the old one.
Taken ==
    /\ m_next_executor = Nothing
    /\ m_prev_executor = Nothing
    /\ m_executor = builds
    /\ audio = "return"
    /\ replaced = committed

\* It handed the old one back.
Returned ==
    /\ m_next_executor = Nothing
    /\ m_prev_executor = committed
    /\ m_executor = builds
    /\ audio # "return"

\* Where the executors are while the audio thread runs.
ExecutorsHavePlaces ==
    audio # "exited" =>
        /\ main \notin {"closed", "withdraw"}
        /\ main = "wait" => OnOffer \/ Taken \/ Returned
        /\ main # "wait" => Settled

\* The promise is new when the executor is offered.
PromiseIsNew == main = "offer" => m_prev_executor = Nothing

\* The device runs on its thread, and not on one that was told to stop.
RunningIsTrue == m_running => audio # "exited" /\ main \notin {"closed", "join"}

\* What is registered is what the kept processors capture; a failed rebuild
\* leaves more, but only of an engine that runs no more.
StreamsAreHeld ==
    /\ main \in {"idle", "rebuild"} /\ m_running => m_procs = held
    /\ main \in {"register", "closed"} => m_procs = held
    /\ main = "closed" => committed = 0
    /\ main = "idle" /\ m_running => committed = builds /\ held = wanted

IInv ==
    /\ TypeOK
    /\ ExecutorsHavePlaces
    /\ PromiseIsNew
    /\ RunningIsTrue
    /\ StreamsAreHeld
    /\ BuildsAreCounted
    /\ KeptFits
    /\ NewFits

-----------------------------------------------------------------------------
\* The number of a build is not the null pointer.
LEMMA BuildsAreNotNothing == Nothing \notin Nat
BY BoundsAssumption

\* Before the first engine there is nothing to keep.
LEMMA InitIInv == Init => IInv
<1> SUFFICES ASSUME Init PROVE IInv
  OBVIOUS
<1>1. TypeOK
  BY DEF Init, TypeOK
<1>2. ExecutorsHavePlaces /\ PromiseIsNew /\ RunningIsTrue /\ StreamsAreHeld
  BY DEF Init, ExecutorsHavePlaces, PromiseIsNew, RunningIsTrue, StreamsAreHeld
<1>3. BuildsAreCounted /\ KeptFits /\ NewFits
  BY BoundsAssumption DEF Init, BuildsAreCounted, Building, KeptFits, NewFits, Executor
<1> QED
  BY <1>1, <1>2, <1>3 DEF IInv

\* What is taken over keeps its registration, and what is made gets one; so the
\* wires of the new graph lead to its own components where there are any, and
\* to every parameter in use that has a control.
LEMMA BuildGraphIInv ==
    ASSUME IInv, BuildGraph
    PROVE  TypeOK' /\ BuildsAreCounted' /\ KeptFits' /\ NewFits'
<1> DEFINE build == builds + 1
           made == {<<x, build>> : x \in (needed \cup {Rest}) \ NamesOf(TakenOver)}
<1> USE DEF IInv
<1>1. /\ main = "rebuild" /\ m_running /\ main' = "register" /\ builds' = build
      /\ new_comps' = TakenOver \cup made
      /\ \A p \in Parameter : m_param_procs'[p] =
            IF <<p, build>> \in new_comps' THEN build ELSE m_param_procs[p]
      /\ parts' = [parts EXCEPT ![build] = new_comps']
      /\ wired' = [wired EXCEPT ![build] = ConnectMidi]
      /\ UNCHANGED <<committed, held, comps, needed, assigned, audio, m_running>>
  BY DEF BuildGraph, MakeComponents, NamesOf, stateVars, keptVars, audioVars, sharedVars
<1>2. /\ builds \in Nat /\ committed \in Nat /\ build \in Nat
      /\ builds < MaxBuilds /\ committed <= builds /\ build \in Executor
      /\ committed \in Executor /\ committed # build
      /\ needed \subseteq Parameter /\ assigned \subseteq Parameter
      /\ comps \subseteq Component
  BY <1>1, BoundsAssumption DEF TypeOK, BuildsAreCounted, Executor
<1>3. TakenOver \subseteq comps /\ \A c \in TakenOver : c[1] \in needed \ Solo
  BY DEF TakenOver
<1>4. made \subseteq Component
  BY <1>2 DEF Component
<1>5. new_comps' \subseteq Component
  BY <1>1, <1>2, <1>3, <1>4
<1>6. \A c \in comps : c[2] <= builds
  BY DEF BuildsAreCounted
<1>7. \A c \in Component : c = <<c[1], c[2]>> /\ c[2] \in Nat
  BY DEF Component
<1>8. Registered(comps)
  BY <1>1 DEF KeptFits
<1>9. \A c \in new_comps' : c[1] \in Parameter => m_param_procs'[c[1]] = c[2]
  <2> SUFFICES ASSUME NEW c \in new_comps', c[1] \in Parameter
               PROVE  m_param_procs'[c[1]] = c[2]
    OBVIOUS
  <2>1. CASE c \in TakenOver
    <3>1. c \in comps /\ c \in Component /\ c[2] # build
      BY <1>2, <1>3, <1>6, <1>7, <2>1
    <3>2. m_param_procs[c[1]] = c[2]
      BY <1>8, <3>1 DEF Registered
    <3>3. c[1] \in NamesOf(TakenOver)
      BY <2>1 DEF NamesOf
    <3>4. <<c[1], build>> \notin made
      BY <3>3
    <3>5. <<c[1], build>> \notin TakenOver
      <4>1. <<c[1], build>>[2] = build /\ ~(build <= builds)
        BY <1>2
      <4> QED
        BY <1>3, <1>6, <4>1
    <3> QED
      BY <1>1, <3>2, <3>4, <3>5
  <2>2. CASE c \in made
    <3>1. c[2] = build /\ c = <<c[1], build>>
      BY <2>2
    <3> QED
      BY <1>1, <3>1
  <2> QED
    BY <1>1, <2>1, <2>2
<1>10. ConnectMidi \subseteq Component
  BY <1>2, <1>5 DEF ConnectMidi
<1>11. m_param_procs' \in [Parameter -> Nat]
  BY <1>2 DEF BuildGraph, TypeOK
<1>12. /\ parts' \in [Executor -> SUBSET Component]
       /\ wired' \in [Executor -> SUBSET Component]
  BY <1>1, <1>2, <1>5, <1>10 DEF TypeOK
<1>13. /\ parts'[build] = new_comps' /\ wired'[build] = ConnectMidi
       /\ parts'[committed] = parts[committed] /\ wired'[committed] = wired[committed]
  BY <1>1, <1>2 DEF TypeOK
<1>14. TypeOK'
  BY <1>1, <1>2, <1>5, <1>11, <1>12 DEF TypeOK
<1>15. BuildsAreCounted'
  <2>1. \A c \in made : c[2] = build
    OBVIOUS
  <2>2. \A c \in comps : c[2] <= build
    <3> SUFFICES ASSUME NEW c \in comps PROVE c[2] <= build
      OBVIOUS
    <3>1. c[2] <= builds /\ c[2] \in Nat
      BY <1>2, <1>6, <1>7
    <3> QED
      BY <1>2, <3>1
  <2>3. \A c \in comps' \cup new_comps' : c[2] <= builds'
    BY <1>1, <1>2, <1>3, <2>1, <2>2
  <2>4. build <= MaxBuilds /\ committed < build /\ committed <= build
    BY <1>2, BoundsAssumption
  <2>5. builds' = build /\ committed' = committed /\ main' = "register"
    BY <1>1
  <2> HIDE DEF build
  <2> QED
    BY <2>3, <2>4, <2>5 DEF BuildsAreCounted
<1>16. KeptFits'
  BY <1>1, <1>13 DEF KeptFits, WiresFit
<1>17. NewFits'
  <2>1. WiresFit(builds)'
    <3> SUFFICES ASSUME NEW w \in ConnectMidi, w[1] \in NamesOf(new_comps')
                 PROVE  w \in new_comps'
      BY <1>1, <1>13 DEF WiresFit, NamesOf
    <3>1. PICK p \in assigned : w = <<p, m_param_procs'[p]>>
      BY DEF ConnectMidi
    <3>2. PICK c \in new_comps' : c[1] = p
      BY <3>1 DEF NamesOf
    <3>3. m_param_procs'[p] = c[2]
      BY <1>2, <1>9, <3>2
    <3> QED
      BY <1>5, <1>7, <3>1, <3>2, <3>3
  <2>2. ControlsAreWired(builds)'
    <3> SUFFICES ASSUME NEW p \in needed \cap assigned
                 PROVE  p \in NamesOf(ConnectMidi)
      BY <1>1, <1>13 DEF ControlsAreWired, NamesOf
    <3>1. PICK c \in new_comps' : c[1] = p
      <4>1. CASE p \in NamesOf(TakenOver)
        BY <1>1, <4>1 DEF NamesOf
      <4>2. CASE p \notin NamesOf(TakenOver)
        <5>1. <<p, build>> \in made
          BY <4>2
        <5>2. <<p, build>> \in new_comps' /\ <<p, build>>[1] = p
          BY <1>1, <5>1
        <5> QED
          BY <5>2
      <4> QED
        BY <4>1, <4>2
    <3>2. m_param_procs'[p] = c[2] /\ c = <<p, c[2]>>
      BY <1>2, <1>5, <1>7, <1>9, <3>1
    <3>3. c \in ConnectMidi
      BY <3>1, <3>2 DEF ConnectMidi
    <3> QED
      BY <3>1, <3>3 DEF NamesOf
  <2>3. Registered(new_comps)'
    BY <1>9 DEF Registered
  <2> QED
    BY <1>1, <1>13, <2>1, <2>2, <2>3 DEF NewFits
<1> QED
  BY <1>14, <1>15, <1>16, <1>17

\* The executor that came back is the one before, so what it was made of may go;
\* what was registered for the components that are kept stays registered.
LEMMA SwapSucceededIInv ==
    ASSUME IInv, SwapSucceeded
    PROVE  TypeOK' /\ BuildsAreCounted' /\ KeptFits' /\ NewFits'
<1> USE DEF IInv
<1>1. /\ main = "wait" /\ main' = "idle" /\ m_prev_executor # Nothing
      /\ parts' = [parts EXCEPT ![m_prev_executor] = {}]
      /\ wired' = [wired EXCEPT ![m_prev_executor] = {}]
      /\ committed' = builds /\ comps' = new_comps /\ new_comps' = {}
      /\ m_param_procs' = [p \in Parameter |->
            IF <<p, m_param_procs[p]>> \in comps' THEN m_param_procs[p] ELSE 0]
      /\ UNCHANGED <<builds, needed, assigned, audio, m_executor, m_running>>
  BY DEF SwapSucceeded, DestroyExecutor, stateVars, audioVars, sharedVars
<1>2. /\ builds \in Nat /\ committed \in Nat /\ committed < builds /\ builds \in Executor
  BY <1>1, BoundsAssumption DEF TypeOK, BuildsAreCounted, Building, Executor
<1>3. /\ parts[builds] = new_comps /\ WiresFit(builds) /\ Registered(new_comps)
      /\ ControlsAreWired(builds)
  BY <1>1 DEF NewFits, Building
<1>4. TypeOK'
  BY <1>1, <1>2 DEF TypeOK
<1>5. BuildsAreCounted'
  BY <1>1, <1>2 DEF BuildsAreCounted, Building
<1>6. audio # "exited" =>
        parts'[builds] = parts[builds] /\ wired'[builds] = wired[builds]
  <2> SUFFICES ASSUME audio # "exited"
               PROVE  parts'[builds] = parts[builds] /\ wired'[builds] = wired[builds]
    OBVIOUS
  <2>1. m_prev_executor = committed
    BY <1>1 DEF ExecutorsHavePlaces, OnOffer, Taken, Returned
  <2> QED
    BY <1>1, <1>2, <2>1 DEF TypeOK
<1>7. Registered(comps)'
  <2> SUFFICES ASSUME NEW c \in new_comps, c[1] \in Parameter
               PROVE  m_param_procs'[c[1]] = c[2]
    BY <1>1 DEF Registered
  <2>1. m_param_procs[c[1]] = c[2] /\ c = <<c[1], c[2]>>
    BY <1>3 DEF Registered, TypeOK, Component
  <2> QED
    BY <1>1, <2>1
<1>8. KeptFits'
  <2>1. m_running => audio # "exited"
    BY DEF RunningIsTrue
  <2>2. audio' # "exited" => parts'[committed'] \subseteq comps' /\ WiresFit(committed)'
    BY <1>1, <1>3, <1>6 DEF WiresFit, NamesOf
  <2>3. m_running' => ControlsAreWired(committed)'
    BY <1>1, <1>3, <1>6, <2>1 DEF ControlsAreWired, NamesOf
  <2> QED
    BY <1>1, <1>7, <2>2, <2>3 DEF KeptFits
<1>9. NewFits'
  BY <1>1 DEF NewFits, Building
<1> QED
  BY <1>4, <1>5, <1>8, <1>9

\* A timely step keeps the invariant: what the main thread does while it waits for
\* the previous executor depends on whether the audio thread still runs.
LEMMA StepIInv == IInv /\ [TimelyNext]_vars => IInv'
<1> SUFFICES ASSUME IInv, [TimelyNext]_vars PROVE IInv'
  OBVIOUS
<1> USE BuildsAreNotNothing
<1> USE DEF IInv, vars, mainVars, audioVars, sharedVars, stateVars, keptVars, procVars,
            executorVars
<1>0. main = "wait" /\ main' = "withdraw" => audio = "exited"
  <2>1. CASE TimelyNext
    BY <2>1 DEF TimelyNext
  <2>2. CASE UNCHANGED vars
    BY <2>2
  <2> QED
    BY <2>1, <2>2
<1>1. CASE StartEngine
  <2>1. TypeOK' /\ PromiseIsNew' /\ RunningIsTrue'
    BY <1>1 DEF StartEngine, TypeOK, PromiseIsNew, RunningIsTrue
  <2>2. ExecutorsHavePlaces'
    BY <1>1 DEF StartEngine, StreamsAreHeld, ExecutorsHavePlaces, Settled
  <2>3. StreamsAreHeld'
    BY <1>1 DEF StartEngine, StreamsAreHeld
  <2>4. BuildsAreCounted' /\ NewFits'
    BY <1>1 DEF StartEngine, BuildsAreCounted, Building, NewFits
  <2>5. KeptFits'
    <3>1. committed = 0 /\ committed \in Executor /\ comps = {}
          /\ \A k \in Executor : parts[k] = {} /\ wired[k] = {}
      BY <1>1, BoundsAssumption DEF StartEngine, StreamsAreHeld, KeptFits, Executor
    <3> QED
      BY <1>1, <3>1 DEF StartEngine, KeptFits, WiresFit, Registered
  <2> QED
    BY <2>1, <2>2, <2>3, <2>4, <2>5
<1>2. CASE EngineAction
  <2>1. TypeOK' /\ PromiseIsNew' /\ RunningIsTrue'
    BY <1>2 DEF EngineAction, TypeOK, PromiseIsNew, RunningIsTrue
  <2>2. ExecutorsHavePlaces'
    BY <1>2 DEF EngineAction, ExecutorsHavePlaces, Settled
  <2>3. StreamsAreHeld'
    BY <1>2 DEF EngineAction, StreamsAreHeld
  <2>4. BuildsAreCounted'
    BY <1>2 DEF EngineAction, BuildsAreCounted, Building
  <2>5. KeptFits'
    BY <1>2 DEF EngineAction, KeptFits, WiresFit, Registered, ControlsAreWired, NamesOf
  <2>6. NewFits'
    BY <1>2
       DEF EngineAction, NewFits, Building, WiresFit, Registered, ControlsAreWired,
           NamesOf
  <2> QED
    BY <2>1, <2>2, <2>3, <2>4, <2>5, <2>6
<1>3. CASE SkipRebuild
  <2>1. TypeOK' /\ PromiseIsNew' /\ RunningIsTrue'
    BY <1>3 DEF SkipRebuild, TypeOK, PromiseIsNew, RunningIsTrue
  <2>2. ExecutorsHavePlaces'
    BY <1>3 DEF SkipRebuild, ExecutorsHavePlaces, Settled
  <2>3. StreamsAreHeld'
    BY <1>3 DEF SkipRebuild, StreamsAreHeld
  <2>4. BuildsAreCounted'
    BY <1>3 DEF SkipRebuild, BuildsAreCounted, Building
  <2>5. KeptFits'
    BY <1>3 DEF SkipRebuild, KeptFits, WiresFit, Registered, ControlsAreWired, NamesOf
  <2>6. NewFits'
    BY <1>3
       DEF SkipRebuild, NewFits, Building, WiresFit, Registered, ControlsAreWired,
           NamesOf
  <2> QED
    BY <2>1, <2>2, <2>3, <2>4, <2>5, <2>6
<1>4. CASE BuildGraph
  <2>1. TypeOK' /\ BuildsAreCounted' /\ KeptFits' /\ NewFits'
    BY <1>4, BuildGraphIInv
  <2>2. PromiseIsNew' /\ RunningIsTrue'
    BY <1>4 DEF BuildGraph, PromiseIsNew, RunningIsTrue
  <2>3. ExecutorsHavePlaces'
    BY <1>4 DEF BuildGraph, ExecutorsHavePlaces, Settled
  <2>4. StreamsAreHeld'
    BY <1>4 DEF BuildGraph, StreamsAreHeld
  <2> QED
    BY <2>1, <2>2, <2>3, <2>4
<1>5. CASE RegisterStreams
  <2>1. TypeOK' /\ PromiseIsNew' /\ RunningIsTrue'
    BY <1>5 DEF RegisterStreams, TypeOK, PromiseIsNew, RunningIsTrue
  <2>2. ExecutorsHavePlaces'
    BY <1>5 DEF RegisterStreams, ExecutorsHavePlaces, Settled
  <2>3. StreamsAreHeld'
    BY <1>5 DEF RegisterStreams, StreamsAreHeld
  <2>4. BuildsAreCounted'
    BY <1>5 DEF RegisterStreams, BuildsAreCounted, Building
  <2>5. KeptFits'
    BY <1>5
       DEF RegisterStreams, KeptFits, WiresFit, Registered, ControlsAreWired, NamesOf
  <2>6. NewFits'
    BY <1>5
       DEF RegisterStreams, NewFits, Building, WiresFit, Registered, ControlsAreWired,
           NamesOf
  <2> QED
    BY <2>1, <2>2, <2>3, <2>4, <2>5, <2>6
<1>6. CASE RenewPromise
  <2>1. TypeOK' /\ PromiseIsNew' /\ RunningIsTrue'
    BY <1>6 DEF RenewPromise, TypeOK, PromiseIsNew, RunningIsTrue
  <2>2. ExecutorsHavePlaces'
    BY <1>6 DEF RenewPromise, ExecutorsHavePlaces, Settled
  <2>3. StreamsAreHeld'
    BY <1>6 DEF RenewPromise, StreamsAreHeld
  <2>4. BuildsAreCounted'
    BY <1>6 DEF RenewPromise, BuildsAreCounted, Building
  <2>5. KeptFits'
    BY <1>6 DEF RenewPromise, KeptFits, WiresFit, Registered, ControlsAreWired, NamesOf
  <2>6. NewFits'
    BY <1>6
       DEF RenewPromise, NewFits, Building, WiresFit, Registered, ControlsAreWired,
           NamesOf
  <2> QED
    BY <2>1, <2>2, <2>3, <2>4, <2>5, <2>6
<1>7. CASE OfferExecutor
  <2>1. TypeOK' /\ PromiseIsNew' /\ RunningIsTrue'
    BY <1>7 DEF OfferExecutor, TypeOK, PromiseIsNew, RunningIsTrue
  <2>2. ExecutorsHavePlaces'
    BY <1>7 DEF OfferExecutor, PromiseIsNew, ExecutorsHavePlaces, Settled, OnOffer
  <2>3. StreamsAreHeld'
    BY <1>7 DEF OfferExecutor, StreamsAreHeld
  <2>4. BuildsAreCounted'
    BY <1>7 DEF OfferExecutor, BuildsAreCounted, Building
  <2>5. KeptFits'
    BY <1>7 DEF OfferExecutor, KeptFits, WiresFit, Registered, ControlsAreWired, NamesOf
  <2>6. NewFits'
    BY <1>7
       DEF OfferExecutor, NewFits, Building, WiresFit, Registered, ControlsAreWired,
           NamesOf
  <2> QED
    BY <2>1, <2>2, <2>3, <2>4, <2>5, <2>6
<1>8. CASE SwapSucceeded
  <2>1. TypeOK' /\ BuildsAreCounted' /\ KeptFits' /\ NewFits'
    BY <1>8, SwapSucceededIInv
  <2>2. PromiseIsNew' /\ RunningIsTrue'
    BY <1>8 DEF SwapSucceeded, PromiseIsNew, RunningIsTrue
  <2>3. ExecutorsHavePlaces'
    BY <1>8
       DEF SwapSucceeded, TypeOK, ExecutorsHavePlaces, Settled, OnOffer, Taken, Returned
  <2>4. StreamsAreHeld'
    BY <1>8 DEF SwapSucceeded, StreamsAreHeld
  <2> QED
    BY <2>1, <2>2, <2>3, <2>4
<1>9. CASE SwapTimesOut
  <2>1. TypeOK' /\ PromiseIsNew' /\ RunningIsTrue'
    BY <1>9 DEF SwapTimesOut, TypeOK, PromiseIsNew, RunningIsTrue
  <2>2. ExecutorsHavePlaces'
    BY <1>9, <1>0 DEF SwapTimesOut, ExecutorsHavePlaces
  <2>3. StreamsAreHeld'
    BY <1>9 DEF SwapTimesOut, StreamsAreHeld
  <2>4. BuildsAreCounted'
    BY <1>9 DEF SwapTimesOut, BuildsAreCounted, Building
  <2>5. KeptFits'
    BY <1>9 DEF SwapTimesOut, KeptFits, WiresFit, Registered, ControlsAreWired, NamesOf
  <2>6. NewFits'
    BY <1>9
       DEF SwapTimesOut, NewFits, Building, WiresFit, Registered, ControlsAreWired,
           NamesOf
  <2> QED
    BY <2>1, <2>2, <2>3, <2>4, <2>5, <2>6
<1>10. CASE WithdrawOffer
  <2>1. TypeOK' /\ PromiseIsNew' /\ RunningIsTrue'
    BY <1>10 DEF WithdrawOffer, DestroyExecutor, TypeOK, PromiseIsNew, RunningIsTrue
  <2>2. ExecutorsHavePlaces'
    BY <1>10 DEF WithdrawOffer, ExecutorsHavePlaces
  <2>3. StreamsAreHeld'
    BY <1>10
       DEF WithdrawOffer, DestroyExecutor, StreamsAreHeld, RunningIsTrue,
           ExecutorsHavePlaces
  <2>4. BuildsAreCounted' /\ NewFits'
    BY <1>10 DEF WithdrawOffer, BuildsAreCounted, Building, NewFits
  <2>5. KeptFits'
    BY <1>10 DEF WithdrawOffer, ExecutorsHavePlaces, RunningIsTrue, KeptFits
  <2> QED
    BY <2>1, <2>2, <2>3, <2>4, <2>5
<1>11. CASE StopThread
  <2>1. TypeOK' /\ PromiseIsNew' /\ RunningIsTrue'
    BY <1>11 DEF StopThread, TypeOK, PromiseIsNew, RunningIsTrue
  <2>2. ExecutorsHavePlaces'
    BY <1>11 DEF StopThread, ExecutorsHavePlaces, Settled
  <2>3. StreamsAreHeld'
    BY <1>11 DEF StopThread, StreamsAreHeld
  <2>4. BuildsAreCounted'
    BY <1>11 DEF StopThread, BuildsAreCounted, Building
  <2>5. KeptFits'
    BY <1>11 DEF StopThread, KeptFits, WiresFit, Registered, ControlsAreWired, NamesOf
  <2>6. NewFits'
    BY <1>11
       DEF StopThread, NewFits, Building, WiresFit, Registered, ControlsAreWired,
           NamesOf
  <2> QED
    BY <2>1, <2>2, <2>3, <2>4, <2>5, <2>6
<1>12. CASE DestroyEngine
  <2>1. TypeOK' /\ PromiseIsNew' /\ RunningIsTrue'
    BY <1>12 DEF DestroyEngine, DestroyAll, TypeOK, PromiseIsNew, RunningIsTrue
  <2>2. ExecutorsHavePlaces'
    BY <1>12 DEF DestroyEngine, DestroyAll, ExecutorsHavePlaces
  <2>3. StreamsAreHeld'
    BY <1>12 DEF DestroyEngine, DestroyAll, StreamsAreHeld
  <2>4. BuildsAreCounted' /\ KeptFits' /\ NewFits'
    BY <1>12
       DEF DestroyEngine, DestroyAll, BuildsAreCounted, Building, KeptFits, NewFits,
                TypeOK, RunningIsTrue
  <2> QED
    BY <2>1, <2>2, <2>3, <2>4
<1>13. CASE LoopTest
  <2>1. TypeOK' /\ PromiseIsNew' /\ RunningIsTrue'
    BY <1>13 DEF LoopTest, TypeOK, PromiseIsNew, RunningIsTrue
  <2>2. ExecutorsHavePlaces'
    BY <1>13 DEF LoopTest, ExecutorsHavePlaces, Settled, OnOffer, Taken, Returned
  <2>3. StreamsAreHeld'
    BY <1>13 DEF LoopTest, StreamsAreHeld
  <2>4. BuildsAreCounted'
    BY <1>13 DEF LoopTest, BuildsAreCounted, Building
  <2>5. KeptFits'
    BY <1>13 DEF LoopTest, KeptFits, WiresFit, Registered, ControlsAreWired, NamesOf
  <2>6. NewFits'
    BY <1>13
       DEF LoopTest, NewFits, Building, WiresFit, Registered, ControlsAreWired, NamesOf
  <2> QED
    BY <2>1, <2>2, <2>3, <2>4, <2>5, <2>6
<1>14. CASE TakeNext
  <2>1. TypeOK' /\ PromiseIsNew' /\ RunningIsTrue'
    BY <1>14 DEF TakeNext, TypeOK, PromiseIsNew, RunningIsTrue
  <2>2. ExecutorsHavePlaces'
    BY <1>14
       DEF TakeNext, TypeOK, ExecutorsHavePlaces, Settled, OnOffer, Taken, Returned
  <2>3. StreamsAreHeld'
    BY <1>14 DEF TakeNext, StreamsAreHeld
  <2>4. BuildsAreCounted'
    BY <1>14 DEF TakeNext, BuildsAreCounted, Building
  <2>5. KeptFits'
    BY <1>14 DEF TakeNext, KeptFits, WiresFit, Registered, ControlsAreWired, NamesOf
  <2>6. NewFits'
    BY <1>14
       DEF TakeNext, NewFits, Building, WiresFit, Registered, ControlsAreWired, NamesOf
  <2> QED
    BY <2>1, <2>2, <2>3, <2>4, <2>5, <2>6
<1>15. CASE ReturnPrevious
  <2>1. TypeOK' /\ PromiseIsNew' /\ RunningIsTrue'
    BY <1>15
       DEF ReturnPrevious, TypeOK, PromiseIsNew, RunningIsTrue, ExecutorsHavePlaces,
           Settled, OnOffer, Taken,
           Returned
  <2>2. ExecutorsHavePlaces'
    BY <1>15
       DEF ReturnPrevious, TypeOK, ExecutorsHavePlaces, Settled, OnOffer, Taken,
           Returned
  <2>3. StreamsAreHeld'
    BY <1>15 DEF ReturnPrevious, StreamsAreHeld
  <2>4. BuildsAreCounted'
    BY <1>15 DEF ReturnPrevious, BuildsAreCounted, Building
  <2>5. KeptFits'
    BY <1>15
       DEF ReturnPrevious, KeptFits, WiresFit, Registered, ControlsAreWired, NamesOf
  <2>6. NewFits'
    BY <1>15
       DEF ReturnPrevious, NewFits, Building, WiresFit, Registered, ControlsAreWired,
           NamesOf
  <2> QED
    BY <2>1, <2>2, <2>3, <2>4, <2>5, <2>6
<1>16. CASE Execute
  <2>1. TypeOK' /\ PromiseIsNew' /\ RunningIsTrue'
    BY <1>16 DEF Execute, TypeOK, PromiseIsNew, RunningIsTrue
  <2>2. ExecutorsHavePlaces'
    BY <1>16 DEF Execute, ExecutorsHavePlaces, Settled, OnOffer, Taken, Returned
  <2>3. StreamsAreHeld'
    BY <1>16 DEF Execute, StreamsAreHeld
  <2>4. BuildsAreCounted'
    BY <1>16 DEF Execute, BuildsAreCounted, Building
  <2>5. KeptFits'
    BY <1>16 DEF Execute, KeptFits, WiresFit, Registered, ControlsAreWired, NamesOf
  <2>6. NewFits'
    BY <1>16
       DEF Execute, NewFits, Building, WiresFit, Registered, ControlsAreWired, NamesOf
  <2> QED
    BY <2>1, <2>2, <2>3, <2>4, <2>5, <2>6
<1>17. CASE DeviceFails
  <2>1. TypeOK' /\ PromiseIsNew' /\ RunningIsTrue'
    BY <1>17 DEF DeviceFails, TypeOK, PromiseIsNew, RunningIsTrue
  <2>2. ExecutorsHavePlaces'
    BY <1>17 DEF DeviceFails, ExecutorsHavePlaces
  <2>3. StreamsAreHeld'
    BY <1>17 DEF DeviceFails, StreamsAreHeld
  <2>4. BuildsAreCounted'
    BY <1>17 DEF DeviceFails, BuildsAreCounted, Building
  <2>5. KeptFits'
    BY <1>17 DEF DeviceFails, KeptFits, WiresFit, Registered, ControlsAreWired, NamesOf
  <2>6. NewFits'
    BY <1>17
       DEF DeviceFails, NewFits, Building, WiresFit, Registered, ControlsAreWired,
           NamesOf
  <2> QED
    BY <2>1, <2>2, <2>3, <2>4, <2>5, <2>6
<1>18. CASE UNCHANGED vars
  <2>1. TypeOK' /\ ExecutorsHavePlaces' /\ PromiseIsNew' /\ RunningIsTrue' /\ StreamsAreHeld'
    BY <1>18
       DEF TypeOK, ExecutorsHavePlaces, Settled, OnOffer, Taken, Returned, PromiseIsNew,
           RunningIsTrue, StreamsAreHeld
  <2>2. BuildsAreCounted' /\ KeptFits' /\ NewFits'
    BY <1>18
       DEF BuildsAreCounted, KeptFits, NewFits, Building, WiresFit, Registered,
           ControlsAreWired, NamesOf
  <2> QED
    BY <2>1, <2>2
<1> QED
  BY <1>1, <1>2, <1>3, <1>4, <1>5, <1>6, <1>7, <1>8, <1>9, <1>10, <1>11, <1>12, <1>13,
     <1>14, <1>15, <1>16, <1>17, <1>18
     DEF TimelyNext, Next, Rebuild, Device, AudioThread

\* While timely steps are taken, the invariant holds.
LEMMA TimelyIInv == Init /\ [][TimelyNext]_vars => []IInv
<1>1. Init => IInv
  BY InitIInv
<1>2. IInv /\ [TimelyNext]_vars => IInv'
  BY StepIInv
<1> QED
  BY <1>1, <1>2, PTL

-----------------------------------------------------------------------------
\* The components that the audio thread executes exist: an executor that the
\* rebuild is told was not taken is not taken, and one that is handed back is no
\* longer used; and a MIDI wire leads to one of them, unless it is of a parameter
\* that has none.  For every number of rebuilds and engines, and all streams and
\* parameters, used and controlled in whatever order.
THEOREM SpecOnlyMidiWiresDangle == FairTimelySpec => []OnlyMidiWiresDangle
<1>1. IInv => OnlyMidiWiresDangle
  <2> SUFFICES ASSUME IInv, audio # "exited" PROVE OnlyMidiWiresDangle
    BY DEF OnlyMidiWiresDangle
  <2>1. main # "closed"
    BY DEF IInv, ExecutorsHavePlaces
  <2>2. \/ m_executor = committed
        \/ Building /\ m_executor = builds
    BY DEF IInv, ExecutorsHavePlaces, Settled, OnOffer, Taken, Returned, Building
  <2>3. CASE m_executor = committed
    BY <2>1, <2>3 DEF IInv, KeptFits, WiresFit, NamesOf, OnlyMidiWiresDangle, Alive
  <2>4. CASE Building /\ m_executor = builds
    BY <2>1, <2>4 DEF IInv, NewFits, WiresFit, NamesOf, OnlyMidiWiresDangle, Alive
  <2> QED
    BY <2>2, <2>3, <2>4
<1> QED
  BY <1>1, TimelyIInv, PTL DEF FairTimelySpec

\* Between two actions a running engine executes the newest build, made of the
\* state as it is, its MIDI wires lead to every parameter in use that has a
\* control, and the streams that are registered are those that it uses.
THEOREM SpecEngineFollowsState == FairTimelySpec => []EngineFollowsState
<1>1. IInv => EngineFollowsState
  BY DEF IInv, TypeOK, ExecutorsHavePlaces, Settled, RunningIsTrue, StreamsAreHeld,
         KeptFits, ControlsAreWired, NamesOf, EngineFollowsState, NewStreams
<1> QED
  BY <1>1, TimelyIInv, PTL DEF FairTimelySpec

-----------------------------------------------------------------------------
(***************************************************************************)
(* The stream of AlsaStream, for every size and number of periods.         *)
(*                                                                         *)
(* While both streams run, every frame is in one place: it waits for the   *)
(* reader, is in the buffer of the transfer, or waits to be played.  The   *)
(* three add up to buffer_size, and along them the ticks that captured the *)
(* frames ascend without a gap; so the frame that a tick plays is older by *)
(* buffer_size.  The invariant says so frame by frame, and of the silence  *)
(* that is queued before the streams are started again.                    *)
(***************************************************************************)
\* A frame is silent, or captured by a tick after a start.
Frame == {Silence} \cup (Nat \X Nat)

\* Numbers, frames and places.
StreamTypeOK ==
    /\ fds \in {{"in", "out"}, {"in"}, {"out"}}
    /\ pcm_pc \in {"step", "prepare", "fill", "start", "read", "write", "ended"}
    /\ stream \in {"setup", "prepared", "running", "xrun", "lost"}
    /\ m_read_buffer \in [1 .. period_size -> Frame]
    /\ m_write_buffer \in [1 .. period_size -> Frame]
    /\ frames_transferred \in 0 .. period_size - 1 /\ filled \in Nat
    /\ captured \in Seq(Frame) /\ queued \in Seq(Frame)
    /\ start \in Nat /\ tick \in Nat /\ heard \in Frame

\* Where the thread is when the kernel's streams are in these states.
StreamPlaces ==
    /\ m_error # "xrun"
    /\ pcm_pc \in {"step", "prepare", "start", "ended"} => frames_transferred = 0
    /\ pcm_pc \in {"fill", "start"} => stream \in {"prepared", "lost"}
    /\ stream = "prepared" => pcm_pc \in {"fill", "start"} /\ captured = <<>>
    /\ pcm_pc = "start" => ~Writes
    /\ stream = "running" /\ Writes => queued # <<>>

\* What the writer has queued of the silence before the streams start.
SilenceFills ==
    pcm_pc = "fill" =>
        /\ Writes /\ filled < period_count
        /\ m_write_buffer = Silent(period_size)
        /\ Len(queued) = filled * period_size + frames_transferred
        /\ \A i \in 1 .. Len(queued) : queued[i] = Silence

\* What tick t after this start is to play.
Sound(of_start, t) == IF t <= buffer_size THEN Silence ELSE <<of_start, t - buffer_size>>

\* The frames that the transfer under way has taken and not yet queued.
InFlight ==
    IF pcm_pc = "read" THEN frames_transferred
    ELSE IF pcm_pc = "write" THEN period_size - frames_transferred ELSE 0

\* No frame is lost or repeated.
FramesAddUp ==
    Len(captured) + Len(queued) + InFlight = buffer_size /\ Len(captured) <= tick

\* The frames that wait for the reader are those of the last ticks.
CapturedInOrder ==
    \A i \in 1 .. Len(captured) : captured[i] = <<start, tick - Len(captured) + i>>

\* Those that wait to be played are those of the next ticks.
QueuedInOrder == \A i \in 1 .. Len(queued) : queued[i] = Sound(start, tick + i)

\* Those of the transfer are played after these.
ReadInOrder ==
    pcm_pc = "read" =>
        \A i \in 1 .. frames_transferred :
            m_read_buffer[i] = Sound(start, tick + Len(queued) + i)

WriteInOrder ==
    pcm_pc = "write" =>
        \A i \in frames_transferred + 1 .. period_size :
            m_write_buffer[i] = Sound(start, tick + Len(queued) + i - frames_transferred)

\* Both streams run.
FramesInOrder ==
    fds = {"in", "out"} /\ stream = "running" =>
        FramesAddUp /\ CapturedInOrder /\ QueuedInOrder /\ ReadInOrder /\ WriteInOrder

\* The last tick has played its frame.
HeardInTime == fds = {"in", "out"} /\ tick > 0 => heard = Sound(start, tick)

StreamInv == StreamTypeOK /\ StreamPlaces /\ SilenceFills /\ FramesInOrder /\ HeardInTime

\* Sizes are positive.
LEMMA PeriodIsPositive == period_size \in Nat /\ period_size > 0 /\ period_count \in Nat
BY StreamAssumption

\* The frames of some periods.
LEMMA PeriodsAddUp ==
    ASSUME NEW a \in Nat, NEW b \in Nat, NEW p \in Nat
    PROVE  /\ a * p \in Nat
           /\ (a + 1) * p = a * p + p
           /\ a < b => (a + 1) * p <= b * p
OBVIOUS

\* The size of the buffer is a number.
LEMMA BufferIsPositive == buffer_size \in Nat
BY PeriodIsPositive, PeriodsAddUp DEF buffer_size

\* The transfer goes on from where it is, or it has ended.
LEMMA TransferGoesOn ==
    ASSUME frames_transferred \in 0 .. period_size - 1,
           NEW n \in 1 .. period_size, n <= period_size - frames_transferred
    PROVE  Transferred(n) = IF frames_transferred + n = period_size THEN 0
                            ELSE frames_transferred + n
<1>1. CASE frames_transferred + n = period_size
  <2>1. period_size % period_size = 0
    BY PeriodIsPositive
  <2> QED
    BY <1>1, <2>1, PeriodIsPositive DEF Transferred
<1>2. CASE frames_transferred + n # period_size
  <2>1. frames_transferred + n \in 0 .. period_size - 1
    BY <1>2, PeriodIsPositive
  <2>2. \A k \in 0 .. period_size - 1 : k % period_size = k
    BY PeriodIsPositive
  <2> QED
    BY <1>2, <2>1, <2>2, PeriodIsPositive DEF Transferred
<1> QED
  BY <1>1, <1>2

\* The frames that are written follow those that wait.
LEMMA WrittenFrames ==
    ASSUME StreamTypeOK, NEW n \in 1 .. period_size, WriteFrames(n)
    PROVE  /\ queued' \in Seq(Frame)
           /\ Len(queued') = Len(queued) + n
           /\ \A i \in 1 .. Len(queued) : queued'[i] = queued[i]
           /\ \A i \in 1 .. n :
                queued'[Len(queued) + i] = m_write_buffer[frames_transferred + i]
<1> DEFINE m == frames_transferred
           part == SubSeq(m_write_buffer, m + 1, m + n)
<1>1. m_write_buffer \in Seq(Frame) /\ Len(m_write_buffer) = period_size
  <2>1. \E k \in Nat : m_write_buffer \in [1 .. k -> Frame]
    BY PeriodIsPositive DEF StreamTypeOK
  <2>2. m_write_buffer \in Seq(Frame)
    BY <2>1, SeqDef
  <2>3. DOMAIN m_write_buffer = 1 .. period_size
    BY DEF StreamTypeOK
  <2> QED
    BY <2>2, <2>3, LenProperties, PeriodIsPositive
<1>2. m \in Nat /\ n \in Nat /\ m + n <= period_size
  BY PeriodIsPositive DEF StreamTypeOK, WriteFrames
<1>3. part \in Seq(Frame) /\ Len(part) = n /\ \A i \in 1 .. n : part[i] = m_write_buffer[m + i]
  BY <1>1, <1>2, SubSeqProperties
<1>4. queued \in Seq(Frame) /\ queued' = queued \o part
  BY DEF StreamTypeOK, WriteFrames
<1> HIDE DEF part
<1>5. queued' \in Seq(Frame) /\ Len(queued') = Len(queued) + n
  BY <1>3, <1>4, ConcatProperties
<1>6. \A i \in 1 .. Len(queued) : queued'[i] = queued[i]
  BY <1>3, <1>4, ConcatProperties
<1>7. \A i \in 1 .. n : queued'[Len(queued) + i] = part[i]
  <2> SUFFICES ASSUME NEW i \in 1 .. n PROVE queued'[Len(queued) + i] = part[i]
    OBVIOUS
  <2>1. Len(queued) \in Nat
    BY <1>4, LenProperties
  <2>2. Len(queued) + i \in 1 .. Len(queued) + Len(part) /\ Len(queued) + i > Len(queued)
    BY <2>1, <1>2, <1>3
  <2>3. (queued \o part)[Len(queued) + i] = part[Len(queued) + i - Len(queued)]
    BY <1>3, <1>4, <2>1, <2>2, ConcatProperties
  <2>4. Len(queued) + i - Len(queued) = i
    BY <2>1, <1>2
  <2> QED
    BY <2>3, <2>4, <1>4
<1> QED
  BY <1>3, <1>5, <1>6, <1>7

-----------------------------------------------------------------------------
\* The devices are open, and nothing is captured or queued.
LEMMA StreamInitInv == StreamInit => StreamInv
<1> SUFFICES ASSUME StreamInit PROVE StreamInv
  OBVIOUS
<1>1. Silence \in Frame /\ Silent(period_size) \in [1 .. period_size -> Frame]
  BY DEF Frame, Silent
<1>2. <<>> \in Seq(Frame)
  OBVIOUS
<1>3. /\ m_read_buffer \in [1 .. period_size -> Frame]
      /\ m_write_buffer \in [1 .. period_size -> Frame]
      /\ captured \in Seq(Frame) /\ queued \in Seq(Frame) /\ heard \in Frame
  BY <1>1, <1>2 DEF StreamInit, Opened, MadeStep
<1>4. /\ fds \in {{"in", "out"}, {"in"}, {"out"}}
      /\ pcm_pc = "step" /\ stream = "setup" /\ m_error = ""
  BY DEF StreamInit, Opened, MadeStep
<1>0. frames_transferred = 0 /\ filled = 0 /\ start = 0 /\ tick = 0
  BY DEF StreamInit, Opened, MadeStep
<1>5. frames_transferred \in 0 .. period_size - 1 /\ filled \in Nat /\ start \in Nat
      /\ tick \in Nat
  BY <1>0, PeriodIsPositive
<1>6. StreamTypeOK
  BY <1>3, <1>4, <1>5 DEF StreamTypeOK
<1>7. StreamPlaces
  BY <1>0, <1>4 DEF StreamPlaces
<1>8. SilenceFills /\ FramesInOrder
  BY <1>4 DEF SilenceFills, FramesInOrder
<1>9. HeardInTime
  BY <1>0 DEF HeardInTime
<1> QED
  BY <1>6, <1>7, <1>8, <1>9 DEF StreamInv

\* A tick plays the first of the frames that wait, and captures one.
LEMMA TickKeepsInv == StreamInv /\ Tick => StreamInv'
<1> SUFFICES ASSUME StreamInv, Tick PROVE StreamInv'
  OBVIOUS
<1> USE BufferIsPositive
<1>1. StreamTypeOK /\ StreamPlaces /\ SilenceFills /\ FramesInOrder /\ HeardInTime
  BY DEF StreamInv
<1>2. /\ start \in Nat /\ tick \in Nat /\ tick' = tick + 1 /\ start' = start /\ fds' = fds
      /\ pcm_pc' = pcm_pc /\ frames_transferred' = frames_transferred /\ filled' = filled
      /\ stream = "running" /\ m_error' = m_error
      /\ m_read_buffer' = m_read_buffer /\ m_write_buffer' = m_write_buffer
  BY <1>1 DEF StreamTypeOK, Tick, stepVars
<1>3. /\ captured' = IF Reads THEN Append(captured, <<start, tick + 1>>) ELSE captured
      /\ <<start, tick + 1>> \in Frame /\ captured \in Seq(Frame)
  BY <1>1, <1>2 DEF Tick, Frame, StreamTypeOK
<1>4. captured' \in Seq(Frame)
  BY <1>3, AppendProperties
<1>5. Writes => queued # <<>> /\ queued \in Seq(Frame)
  BY <1>1, <1>2 DEF StreamPlaces, StreamTypeOK
<1>6. Writes => /\ Tail(queued) \in Seq(Frame) /\ Head(queued) \in Frame
                /\ Len(Tail(queued)) = Len(queued) - 1
                /\ \A i \in 1 .. Len(queued) - 1 : Tail(queued)[i] = queued[i + 1]
  BY <1>5, HeadTailProperties
<1>7. Writes => queued' = Tail(queued) /\ heard' = Head(queued)
  BY DEF Tick
<1>8. ~Writes => queued' = queued /\ heard' = heard
  BY DEF Tick
<1>9. queued' \in Seq(Frame) /\ heard' \in Frame
  BY <1>1, <1>6, <1>7, <1>8 DEF StreamTypeOK
<1>10. stream' \in {"xrun", "running"}
  BY <1>2 DEF Tick
<1>11. StreamTypeOK'
  BY <1>1, <1>2, <1>4, <1>9, <1>10 DEF StreamTypeOK
<1>12. pcm_pc \notin {"fill", "start"}
  BY <1>1, <1>2 DEF StreamPlaces
<1>13. stream' = "running" /\ Writes => queued' # <<>>
  <2> SUFFICES ASSUME stream' = "running", Writes, queued' = <<>> PROVE FALSE
    OBVIOUS
  <2>1. Len(queued') = 0
    OBVIOUS
  <2>2. buffer_size - Len(queued') >= stop_threshold
    BY <2>1 DEF stop_threshold
  <2> QED
    BY <2>2 DEF Tick
<1>14. StreamPlaces'
  BY <1>1, <1>2, <1>10, <1>12, <1>13 DEF StreamPlaces, Writes
<1>15. SilenceFills'
  BY <1>2, <1>12 DEF SilenceFills
<1>16. ASSUME fds = {"in", "out"}
       PROVE  FramesInOrder' /\ HeardInTime'
  <2>1. Reads /\ Writes
    BY <1>16 DEF Reads, Writes
  <2>2. FramesAddUp /\ CapturedInOrder /\ QueuedInOrder /\ ReadInOrder /\ WriteInOrder
    BY <1>1, <1>2, <1>16 DEF FramesInOrder
  <2>3. InFlight' = InFlight
    BY <1>2 DEF InFlight
  <2>4. Len(captured) \in Nat /\ Len(queued) \in Nat
    BY <1>3, <1>5, <2>1, LenProperties
  <2>5. InFlight \in Nat
    BY <1>1, PeriodIsPositive DEF StreamTypeOK, InFlight
  <2>6. /\ Len(captured') = Len(captured) + 1
        /\ captured'[Len(captured) + 1] = <<start, tick + 1>>
        /\ \A i \in 1 .. Len(captured) : captured'[i] = captured[i]
    BY <1>3, <2>1, AppendProperties
  <2>7. Len(queued') = Len(queued) - 1
    BY <1>6, <1>7, <2>1
  <2>8. Len(queued) >= 1
    BY <1>5, <2>1, <2>4, EmptySeq
  <2>9. FramesAddUp'
    BY <1>2, <2>2, <2>3, <2>4, <2>5, <2>6, <2>7, <2>8 DEF FramesAddUp
  <2>10. CapturedInOrder'
    <3> SUFFICES ASSUME NEW i \in 1 .. Len(captured')
                 PROVE  captured'[i] = <<start, tick + 1 - Len(captured') + i>>
      BY <1>2 DEF CapturedInOrder
    <3>1. tick + 1 - Len(captured') = tick - Len(captured)
      BY <1>2, <2>4, <2>6
    <3>2. CASE i = Len(captured) + 1
      BY <1>2, <2>4, <2>6, <3>1, <3>2
    <3>3. CASE i # Len(captured) + 1
      <4>1. i \in 1 .. Len(captured)
        BY <2>4, <2>6, <3>3
      <4>2. captured[i] = <<start, tick - Len(captured) + i>>
        BY <2>2, <4>1 DEF CapturedInOrder
      <4> QED
        BY <2>6, <3>1, <4>1, <4>2
    <3> QED
      BY <3>2, <3>3
  <2>11. QueuedInOrder'
    <3> SUFFICES ASSUME NEW i \in 1 .. Len(queued')
                 PROVE  queued'[i] = Sound(start, tick + 1 + i)
      BY <1>2 DEF QueuedInOrder
    <3>1. queued'[i] = queued[i + 1] /\ i + 1 \in 1 .. Len(queued)
      BY <1>6, <1>7, <2>1, <2>4, <2>7
    <3>2. queued[i + 1] = Sound(start, tick + (i + 1))
      BY <2>2, <3>1 DEF QueuedInOrder
    <3>3. tick + (i + 1) = tick + 1 + i
      BY <1>2, <3>1
    <3> QED
      BY <3>1, <3>2, <3>3
  <2>12. tick + 1 + Len(queued') = tick + Len(queued)
    BY <1>2, <2>4, <2>7
  <2>13. ReadInOrder' /\ WriteInOrder'
    BY <1>2, <2>2, <2>12 DEF ReadInOrder, WriteInOrder
  <2>14. heard' = Sound(start, tick + 1)
    <3>1. heard' = queued[1] /\ 1 \in 1 .. Len(queued)
      BY <1>7, <2>1, <2>4, <2>8
    <3> QED
      BY <2>2, <3>1 DEF QueuedInOrder
  <2> QED
    BY <1>2, <2>9, <2>10, <2>11, <2>13, <2>14 DEF FramesInOrder, HeardInTime
<1>17. ASSUME fds # {"in", "out"}
       PROVE  FramesInOrder' /\ HeardInTime'
  BY <1>2, <1>17 DEF FramesInOrder, HeardInTime
<1> QED
  BY <1>11, <1>14, <1>15, <1>16, <1>17 DEF StreamInv

\* Frames that nothing moves stay in order.
LEMMA StillFrames ==
    ASSUME StreamInv, fds' = fds, UNCHANGED kernelVars,
           InFlight' = InFlight \/ stream # "running",
           frames_transferred' = frames_transferred,
           m_read_buffer' = m_read_buffer, m_write_buffer' = m_write_buffer,
           pcm_pc' = "write" => pcm_pc = "write",
           pcm_pc' = "read" => pcm_pc = "read" \/ frames_transferred' = 0
    PROVE  FramesInOrder' /\ HeardInTime'
<1>1. HeardInTime'
  BY DEF StreamInv, HeardInTime, kernelVars
<1>2. ASSUME fds = {"in", "out"}, stream = "running"
      PROVE  FramesAddUp' /\ CapturedInOrder' /\ QueuedInOrder' /\ ReadInOrder' /\ WriteInOrder'
  <2>1. FramesAddUp /\ CapturedInOrder /\ QueuedInOrder /\ ReadInOrder /\ WriteInOrder
    BY <1>2 DEF StreamInv, FramesInOrder
  <2>2. FramesAddUp'
    BY <1>2, <2>1 DEF FramesAddUp, kernelVars
  <2>3. CapturedInOrder' /\ QueuedInOrder'
    BY <2>1 DEF CapturedInOrder, QueuedInOrder, kernelVars
  <2>4. ReadInOrder'
    <3>1. CASE pcm_pc = "read"
      BY <2>1, <3>1 DEF ReadInOrder, kernelVars
    <3>2. CASE pcm_pc # "read" /\ pcm_pc' = "read"
      BY <3>2 DEF ReadInOrder
    <3> QED
      BY <3>1, <3>2 DEF ReadInOrder
  <2>5. WriteInOrder'
    BY <2>1 DEF WriteInOrder, kernelVars
  <2> QED
    BY <2>2, <2>3, <2>4, <2>5
<1> QED
  BY <1>1, <1>2 DEF FramesInOrder, kernelVars

\* Where nothing runs, there is no order to keep.
LEMMA NothingRuns ==
    ASSUME StreamInv, stream' # "running", UNCHANGED <<fds, start, tick, heard>>
    PROVE  FramesInOrder' /\ HeardInTime'
BY DEF StreamInv, FramesInOrder, HeardInTime

\* A device that is lost captures and plays no more.
LEMMA LoseKeepsInv == StreamInv /\ Lose => StreamInv'
<1> SUFFICES ASSUME StreamInv, Lose PROVE StreamInv'
  OBVIOUS
<1>1. StreamTypeOK'
  BY DEF StreamInv, StreamTypeOK, Lose, stepVars
<1>2. StreamPlaces'
  BY DEF StreamInv, StreamPlaces, Lose, stepVars, Writes
<1>3. SilenceFills'
  BY DEF StreamInv, SilenceFills, Lose, stepVars, Writes
<1>4. FramesInOrder' /\ HeardInTime'
  BY NothingRuns DEF Lose
<1> QED
  BY <1>1, <1>2, <1>3, <1>4 DEF StreamInv

\* An xrun only fails a transfer, which is then repaired.
LEMMA FailKeepsInv == StreamInv /\ Fail => StreamInv'
<1> SUFFICES ASSUME StreamInv, Fail PROVE StreamInv'
  OBVIOUS
<1>1. pcm_pc' \in {"step", "ended"} /\ stream' = stream /\ stream \in {"xrun", "lost"}
  BY DEF Fail, kernelVars
<1>2. frames_transferred' = 0 /\ 0 \in 0 .. period_size - 1
  BY PeriodIsPositive DEF Fail
<1>3. StreamTypeOK'
  BY <1>1, <1>2 DEF StreamInv, StreamTypeOK, Fail, kernelVars
<1>4. m_error' # "xrun"
  <2>1. CASE stream = "xrun" /\ pcm_pc \in {"read", "write"}
    BY <2>1 DEF Fail, StreamInv, StreamPlaces
  <2>2. CASE ~(stream = "xrun" /\ pcm_pc \in {"read", "write"})
    <3>1. m_error' = stream
      BY <2>2 DEF Fail
    <3>2. stream # "xrun"
      BY <2>2 DEF Fail, StreamInv, StreamPlaces
    <3> QED
      BY <3>1, <3>2
  <2> QED
    BY <2>1, <2>2
<1>5. StreamPlaces'
  BY <1>1, <1>2, <1>4 DEF StreamPlaces
<1>6. SilenceFills'
  BY <1>1 DEF SilenceFills
<1>7. FramesInOrder' /\ HeardInTime'
  BY <1>1, NothingRuns DEF Fail, kernelVars
<1> QED
  BY <1>3, <1>5, <1>6, <1>7 DEF StreamInv

\* Between two steps no transfer is under way.
LEMMA StepKeepsInv == StreamInv /\ Step => StreamInv'
<1> SUFFICES ASSUME StreamInv, Step PROVE StreamInv'
  OBVIOUS
<1>1. pcm_pc = "step" /\ pcm_pc' \in {"ended", "prepare", "read"}
  BY DEF Step
<1>2. frames_transferred = 0 /\ frames_transferred' = 0
  BY <1>1 DEF StreamInv, StreamPlaces, Step
<1>3. StreamTypeOK'
  BY <1>1 DEF StreamInv, StreamTypeOK, Step, stepVars, kernelVars
<1>4. stream # "prepared"
  BY <1>1 DEF StreamInv, StreamPlaces
<1>5. StreamPlaces'
  BY <1>1, <1>2, <1>4 DEF StreamInv, StreamPlaces, Step, stepVars, kernelVars, Writes
<1>6. SilenceFills'
  BY <1>1 DEF SilenceFills
<1>7. InFlight = 0 /\ InFlight' = 0
  BY <1>1, <1>2 DEF InFlight
<1>8. FramesInOrder' /\ HeardInTime'
  BY <1>1, <1>2, <1>7, StillFrames DEF Step, stepVars
<1> QED
  BY <1>3, <1>5, <1>6, <1>8 DEF StreamInv

\* The flag of the thread is read between two steps only.
LEMMA StopKeepsInv == StreamInv /\ (Stop \/ UNCHANGED streamVars) => StreamInv'
<1> SUFFICES ASSUME StreamInv, Stop \/ UNCHANGED streamVars PROVE StreamInv'
  OBVIOUS
<1>1. UNCHANGED <<fds, pcm_pc, frames_transferred, filled, stepVars, kernelVars>>
  BY DEF Stop, streamVars
<1>2. StreamTypeOK'
  BY <1>1 DEF StreamInv, StreamTypeOK, stepVars, kernelVars
<1>3. StreamPlaces'
  BY <1>1 DEF StreamInv, StreamPlaces, stepVars, kernelVars, Writes
<1>4. SilenceFills'
  BY <1>1 DEF StreamInv, SilenceFills, stepVars, kernelVars, Writes
<1>5. InFlight' = InFlight
  BY <1>1 DEF InFlight
<1>6. FramesInOrder' /\ HeardInTime'
  BY <1>1, <1>5, StillFrames DEF stepVars
<1> QED
  BY <1>2, <1>3, <1>4, <1>6 DEF StreamInv

\* The streams are dropped after the thread has ended.
LEMMA DropKeepsInv == StreamInv /\ Drop => StreamInv'
<1> SUFFICES ASSUME StreamInv, Drop PROVE StreamInv'
  OBVIOUS
<1>1. <<>> \in Seq(Frame)
  OBVIOUS
<1>2. StreamTypeOK'
  BY <1>1 DEF StreamInv, StreamTypeOK, Drop, stepVars
<1>3. StreamPlaces'
  BY DEF StreamInv, StreamPlaces, Drop, stepVars
<1>4. SilenceFills'
  BY DEF SilenceFills, Drop
<1>5. FramesInOrder' /\ HeardInTime'
  BY NothingRuns DEF Drop
<1> QED
  BY <1>2, <1>3, <1>4, <1>5 DEF StreamInv

\* Everything that was captured or queued before is dropped.
LEMMA PrepareKeepsInv == StreamInv /\ Prepare => StreamInv'
<1> SUFFICES ASSUME StreamInv, Prepare PROVE StreamInv'
  OBVIOUS
<1> USE DEF Prepare, PrepareWith
<1>1. <<>> \in Seq(Frame) /\ Silent(period_size) \in [1 .. period_size -> Frame]
  BY DEF Silent, Frame
<1>2. frames_transferred = 0 /\ frames_transferred' = 0 /\ filled' = 0
  BY DEF StreamInv, StreamPlaces
<1>3. m_write_buffer' \in [1 .. period_size -> Frame]
  BY <1>1 DEF StreamInv, StreamTypeOK
<1>4. pcm_pc' \in {"fill", "start"} /\ stream' = "prepared" /\ fds' = fds
  OBVIOUS
<1>5. StreamTypeOK'
  BY <1>1, <1>2, <1>3, <1>4 DEF StreamInv, StreamTypeOK
<1>6. StreamPlaces'
  BY <1>2, <1>4 DEF StreamInv, StreamPlaces, Writes
<1>7. SilenceFills'
  <2> SUFFICES ASSUME pcm_pc' = "fill"
               PROVE  /\ Writes /\ filled' < period_count
                      /\ m_write_buffer' = Silent(period_size)
                      /\ Len(queued') = filled' * period_size + frames_transferred'
                      /\ \A i \in 1 .. Len(queued') : queued'[i] = Silence
    BY DEF SilenceFills, Writes, Silent
  <2>1. Writes /\ m_write_buffer' = Silent(period_size)
    OBVIOUS
  <2>2. filled' < period_count
    BY <1>2, StreamAssumption
  <2>3. filled' * period_size + frames_transferred' = 0
    BY <1>2, PeriodIsPositive
  <2>4. queued' = <<>> /\ Len(queued') = 0
    OBVIOUS
  <2> QED
    BY <2>1, <2>2, <2>3, <2>4
<1>8. FramesInOrder' /\ HeardInTime'
  BY <1>4, NothingRuns
<1> QED
  BY <1>5, <1>6, <1>7, <1>8 DEF StreamInv

\* A capture stream alone plays nothing.
LEMMA StartInputKeepsInv == StreamInv /\ StartInput => StreamInv'
<1> SUFFICES ASSUME StreamInv, StartInput PROVE StreamInv'
  OBVIOUS
<1>1. Silent(period_size) \in [1 .. period_size -> Frame]
  BY DEF Silent, Frame
<1>2. stream' = "running" /\ start' = start + 1 /\ tick' = 0 /\ pcm_pc' = "read"
      /\ fds' = fds /\ heard' = heard /\ frames_transferred' = frames_transferred
  BY DEF StartInput, Started
<1>3. ~Writes /\ fds # {"in", "out"}
  BY DEF StartInput, StreamInv, StreamPlaces, Writes
<1>4. start' \in Nat /\ tick' \in Nat
  BY <1>2 DEF StreamInv, StreamTypeOK
<1>5. StreamTypeOK'
  BY <1>1, <1>2, <1>4 DEF StreamInv, StreamTypeOK, StartInput
<1>6. StreamPlaces'
  BY <1>2, <1>3 DEF StreamInv, StreamPlaces, Writes, StartInput
<1>7. SilenceFills' /\ FramesInOrder' /\ HeardInTime'
  BY <1>2, <1>3 DEF SilenceFills, FramesInOrder, HeardInTime
<1> QED
  BY <1>5, <1>6, <1>7 DEF StreamInv

\* A playback stream alone captures nothing.
LEMMA ReadNothingKeepsInv == StreamInv /\ ReadNothing => StreamInv'
<1> SUFFICES ASSUME StreamInv, ReadNothing PROVE StreamInv'
  OBVIOUS
<1>1. ~Reads /\ fds # {"in", "out"} /\ pcm_pc = "read" /\ pcm_pc' = "write" /\ fds' = fds
  BY DEF ReadNothing, Reads
<1>2. m_read_buffer' = m_read_buffer /\ m_write_buffer' \in {m_read_buffer, m_write_buffer}
  BY DEF ReadNothing, Processed
<1>3. StreamTypeOK'
  BY <1>1, <1>2 DEF StreamInv, StreamTypeOK, ReadNothing, kernelVars
<1>4. StreamPlaces'
  BY <1>1 DEF StreamInv, StreamPlaces, Writes, ReadNothing, kernelVars
<1>5. SilenceFills' /\ FramesInOrder' /\ HeardInTime'
  BY <1>1 DEF SilenceFills, FramesInOrder, HeardInTime
<1> QED
  BY <1>3, <1>4, <1>5 DEF StreamInv

\* The frames that are read leave the kernel for the transfer, in order.
LEMMA ReadKeepsInv ==
    ASSUME StreamInv, NEW n \in 1 .. period_size, Read(n)
    PROVE  StreamInv'
<1> DEFINE ft == frames_transferred
<1>1. StreamTypeOK /\ StreamPlaces
  BY DEF StreamInv
<1>2. /\ n \in Nat /\ ft \in Nat /\ period_size \in Nat /\ tick \in Nat /\ start \in Nat
      /\ ft + n <= period_size /\ n > 0 /\ n <= Len(captured) /\ ft < period_size
  BY <1>1, PeriodIsPositive DEF StreamTypeOK, Read
<1>3. /\ fds' = fds /\ pcm_pc = "read" /\ stream = "running" /\ stream' = stream
      /\ queued' = queued /\ start' = start /\ tick' = tick /\ heard' = heard
      /\ m_error' = m_error /\ filled' = filled
  BY DEF Read
<1>4. ft' = IF ft + n = period_size THEN 0 ELSE ft + n
  <2>1. frames_transferred' = Transferred(n)
    BY DEF Read
  <2>2. frames_transferred \in 0 .. period_size - 1 /\ n <= period_size - frames_transferred
    BY <1>1 DEF StreamTypeOK, Read
  <2> QED
    BY <2>1, <2>2, TransferGoesOn
<1>5. ft + n = period_size =>
        /\ m_write_buffer' = IF Writes THEN m_read_buffer' ELSE m_write_buffer
        /\ pcm_pc' = IF Writes THEN "write" ELSE "step"
  BY <1>4 DEF Read, Processed
<1>6. ft + n # period_size => m_write_buffer' = m_write_buffer /\ pcm_pc' = pcm_pc
  BY <1>2, <1>4 DEF Read
<1>7. /\ \A i \in 1 .. ft : m_read_buffer'[i] = m_read_buffer[i]
      /\ \A i \in ft + 1 .. ft + n : m_read_buffer'[i] = captured[i - ft]
  BY <1>1, <1>2 DEF Read, StreamTypeOK
<1>8. captured \in Seq(Frame) /\ Len(captured) \in Nat
  BY <1>1, LenProperties DEF StreamTypeOK
<1>9. m_read_buffer' \in [1 .. period_size -> Frame]
  <2>1. \A i \in ft + 1 .. ft + n : captured[i - ft] \in Frame
    <3> SUFFICES ASSUME NEW i \in ft + 1 .. ft + n PROVE captured[i - ft] \in Frame
      OBVIOUS
    <3>1. i - ft \in 1 .. Len(captured)
      BY <1>2, <1>8
    <3> QED
      BY <1>8, <3>1, ElementOfSeq
  <2>2. m_read_buffer \in [1 .. period_size -> Frame]
    BY <1>1 DEF StreamTypeOK
  <2> QED
    BY <2>1, <2>2 DEF Read
<1>10. /\ captured' \in Seq(Frame) /\ Len(captured') = Len(captured) - n
       /\ \A i \in 1 .. Len(captured) - n : captured'[i] = captured[n + i]
  <2>1. captured' = SubSeq(captured, n + 1, Len(captured))
    BY DEF Read
  <2>2. /\ captured' \in Seq(Frame)
        /\ Len(captured') = IF n + 1 <= Len(captured) THEN Len(captured) - (n + 1) + 1 ELSE 0
        /\ \A i \in 1 .. Len(captured) - (n + 1) + 1 : captured'[i] = captured[n + 1 + i - 1]
    BY <1>2, <1>8, <2>1, SubSeqProperties
  <2>3. Len(captured') = Len(captured) - n
    BY <1>2, <1>8, <2>2
  <2>4. ASSUME NEW i \in 1 .. Len(captured) - n PROVE captured'[i] = captured[n + i]
    <3>1. Len(captured) - n = Len(captured) - (n + 1) + 1 /\ n + 1 + i - 1 = n + i
      BY <1>2, <1>8
    <3> QED
      BY <2>2, <3>1
  <2> QED
    BY <2>2, <2>3, <2>4
<1>11. ft' \in 0 .. period_size - 1 /\ pcm_pc' \in {"read", "write", "step"}
       /\ (pcm_pc' = "step" => ft' = 0)
  BY <1>2, <1>3, <1>4, <1>5, <1>6
<1>12. m_write_buffer' \in [1 .. period_size -> Frame]
  BY <1>1, <1>5, <1>6, <1>9 DEF StreamTypeOK
<1>13. StreamTypeOK'
  BY <1>1, <1>3, <1>9, <1>10, <1>11, <1>12 DEF StreamTypeOK
<1>14. StreamPlaces'
  BY <1>1, <1>3, <1>11 DEF StreamPlaces, Writes
<1>15. SilenceFills'
  BY <1>11 DEF SilenceFills
<1>16. HeardInTime'
  BY <1>3 DEF StreamInv, HeardInTime
<1>17. ASSUME fds = {"in", "out"}
       PROVE  FramesAddUp' /\ CapturedInOrder' /\ QueuedInOrder' /\ ReadInOrder' /\ WriteInOrder'
  <2>1. FramesAddUp /\ CapturedInOrder /\ QueuedInOrder /\ ReadInOrder /\ Writes
    BY <1>3, <1>17 DEF StreamInv, FramesInOrder, Writes
  <2>2. Len(queued) \in Nat /\ buffer_size \in Nat
    BY <1>1, LenProperties, BufferIsPositive DEF StreamTypeOK
  <2>3. Len(captured) + Len(queued) + ft = buffer_size /\ Len(captured) <= tick
    BY <1>3, <2>1 DEF FramesAddUp, InFlight
  <2>4. InFlight' = ft + n
    BY <1>2, <1>3, <1>4, <1>5, <1>6, <2>1 DEF InFlight
  <2>5. FramesAddUp'
    <3>1. Len(captured') + Len(queued) + InFlight' = buffer_size
      <4>1. Len(captured') = Len(captured) - n
        BY <1>10
      <4> HIDE DEF ft
      <4> QED
        BY <1>2, <1>8, <2>2, <2>3, <2>4, <4>1
    <3>2. Len(captured') <= tick
      BY <1>2, <1>8, <1>10, <2>3
    <3> QED
      BY <1>3, <3>1, <3>2 DEF FramesAddUp, buffer_size
  <2>6. CapturedInOrder'
    <3> SUFFICES ASSUME NEW i \in 1 .. Len(captured) - n
                 PROVE  captured'[i] = <<start, tick - (Len(captured) - n) + i>>
      BY <1>3, <1>10 DEF CapturedInOrder
    <3>1. /\ n + i \in 1 .. Len(captured)
          /\ tick - Len(captured) + (n + i) = tick - (Len(captured) - n) + i
      BY <1>2, <1>8
    <3>2. captured[n + i] = <<start, tick - Len(captured) + (n + i)>>
      BY <2>1, <3>1 DEF CapturedInOrder
    <3> QED
      BY <1>10, <3>1, <3>2
  <2>7. QueuedInOrder'
    BY <1>3, <2>1 DEF QueuedInOrder
  <2>8. ASSUME NEW j \in 1 .. ft + n
        PROVE  m_read_buffer'[j] = Sound(start, tick + Len(queued) + j)
    <3>1. CASE j <= ft
      <4>1. j \in 1 .. ft
        BY <1>2, <3>1
      <4> QED
        BY <1>3, <1>7, <2>1, <4>1 DEF ReadInOrder
    <3>2. CASE ~(j <= ft)
      <4>1. j \in ft + 1 .. ft + n /\ j - ft \in 1 .. Len(captured)
        BY <1>2, <1>8, <3>2
      <4>2. captured[j - ft] = <<start, tick - Len(captured) + (j - ft)>>
        BY <2>1, <4>1 DEF CapturedInOrder
      <4>3. /\ tick + Len(queued) + j > buffer_size
            /\ tick + Len(queued) + j - buffer_size = tick - Len(captured) + (j - ft)
        BY <1>2, <1>8, <2>2, <2>3, <4>1
      <4>4. Sound(start, tick + Len(queued) + j) = <<start, tick + Len(queued) + j - buffer_size>>
        BY <1>2, <2>2, <4>1, <4>3 DEF Sound
      <4> QED
        BY <1>7, <4>1, <4>2, <4>3, <4>4
    <3> QED
      BY <3>1, <3>2
  <2>9. ReadInOrder'
    <3>1. pcm_pc' = "read" => ft' = ft + n
      BY <1>4, <1>5, <2>1
    <3> QED
      BY <1>3, <2>8, <3>1 DEF ReadInOrder
  <2>10. WriteInOrder'
    <3> SUFFICES ASSUME pcm_pc' = "write", NEW j \in ft' + 1 .. period_size
                 PROVE  m_write_buffer'[j] = Sound(start, tick + Len(queued) + j - ft')
      BY <1>3 DEF WriteInOrder
    <3>1. ft + n = period_size /\ ft' = 0 /\ m_write_buffer' = m_read_buffer'
      BY <1>3, <1>4, <1>5, <1>6, <2>1
    <3>2. j \in 1 .. ft + n /\ tick + Len(queued) + j - ft' = tick + Len(queued) + j
      BY <1>2, <2>2, <3>1
    <3> QED
      BY <2>8, <3>1, <3>2
  <2> QED
    BY <2>5, <2>6, <2>7, <2>9, <2>10
<1>18. FramesInOrder'
  BY <1>3, <1>17 DEF FramesInOrder
<1> QED
  BY <1>13, <1>14, <1>15, <1>16, <1>18 DEF StreamInv

\* The frames that are written leave the transfer for the kernel, in order.
LEMMA WriteKeepsInv ==
    ASSUME StreamInv, NEW n \in 1 .. period_size, Write(n)
    PROVE  StreamInv'
<1> DEFINE ft == frames_transferred
<1>1. StreamTypeOK /\ StreamPlaces /\ WriteFrames(n)
  BY DEF StreamInv, Write
<1>2. /\ n \in Nat /\ ft \in Nat /\ period_size \in Nat /\ tick \in Nat /\ start \in Nat
      /\ ft + n <= period_size /\ n > 0 /\ ft < period_size
  BY <1>1, PeriodIsPositive DEF StreamTypeOK, WriteFrames
<1>3. stream = "running"
  BY <1>1 DEF Write, WriteFrames, StreamPlaces
<1>4. /\ fds' = fds /\ pcm_pc = "write" /\ stream' = stream /\ start' = start /\ tick' = tick
      /\ heard' = heard /\ captured' = captured /\ m_error' = m_error /\ filled' = filled
      /\ m_read_buffer' = m_read_buffer /\ m_write_buffer' = m_write_buffer
  BY <1>3 DEF Write, WriteFrames, Started, stepVars
<1>5. ft' = IF ft + n = period_size THEN 0 ELSE ft + n
  <2>1. frames_transferred' = Transferred(n)
    BY <1>1 DEF WriteFrames
  <2>2. frames_transferred \in 0 .. period_size - 1 /\ n <= period_size - frames_transferred
    BY <1>1 DEF StreamTypeOK, WriteFrames
  <2> QED
    BY <2>1, <2>2, TransferGoesOn
<1>6. pcm_pc' = IF ft + n = period_size THEN "step" ELSE "write"
  BY <1>2, <1>4, <1>5 DEF Write
<1>7. queued' \in Seq(Frame)
  BY <1>1, WrittenFrames
<1>8. Len(queued') = Len(queued) + n
  BY <1>1, WrittenFrames
<1>9. \A i \in 1 .. Len(queued) : queued'[i] = queued[i]
  BY <1>1, WrittenFrames
<1>10. \A i \in 1 .. n : queued'[Len(queued) + i] = m_write_buffer[ft + i]
  BY <1>1, WrittenFrames
<1>11. ft' \in 0 .. period_size - 1 /\ (pcm_pc' = "step" => ft' = 0)
  BY <1>2, <1>5, <1>6
<1>12. StreamTypeOK'
  BY <1>1, <1>4, <1>6, <1>7, <1>11 DEF StreamTypeOK
<1>13. Len(queued) \in Nat /\ Len(captured) \in Nat /\ buffer_size \in Nat
  BY <1>1, LenProperties, BufferIsPositive DEF StreamTypeOK
<1>14. queued' # <<>>
  BY <1>2, <1>8, <1>13
<1>15. StreamPlaces'
  BY <1>1, <1>3, <1>4, <1>6, <1>11, <1>14 DEF StreamPlaces
<1>16. SilenceFills'
  BY <1>6 DEF SilenceFills
<1>17. HeardInTime'
  BY <1>4 DEF StreamInv, HeardInTime
<1>18. ASSUME fds = {"in", "out"}
       PROVE  FramesAddUp' /\ CapturedInOrder' /\ QueuedInOrder' /\ ReadInOrder' /\ WriteInOrder'
  <2>1. FramesAddUp /\ CapturedInOrder /\ QueuedInOrder /\ WriteInOrder
    BY <1>3, <1>18 DEF StreamInv, FramesInOrder
  <2>2. InFlight = period_size - ft /\ InFlight' = period_size - (ft + n)
    BY <1>2, <1>4, <1>5, <1>6 DEF InFlight
  <2>3. FramesAddUp'
    BY <1>2, <1>4, <1>8, <1>13, <2>1, <2>2 DEF FramesAddUp
  <2>4. CapturedInOrder'
    BY <1>4, <2>1 DEF CapturedInOrder
  <2>5. QueuedInOrder'
    <3> SUFFICES ASSUME NEW i \in 1 .. Len(queued) + n
                 PROVE  queued'[i] = Sound(start, tick + i)
      BY <1>4, <1>8 DEF QueuedInOrder
    <3>1. CASE i <= Len(queued)
      <4>1. i \in 1 .. Len(queued)
        BY <1>13, <3>1
      <4> QED
        BY <1>9, <2>1, <4>1 DEF QueuedInOrder
    <3>2. CASE ~(i <= Len(queued))
      <4> DEFINE j == i - Len(queued)
      <4>1. j \in 1 .. n /\ Len(queued) + j = i /\ ft + j \in ft + 1 .. period_size
        BY <1>2, <1>13, <3>2
      <4>2. queued'[i] = m_write_buffer[ft + j]
        BY <1>10, <4>1
      <4>3. m_write_buffer[ft + j] = Sound(start, tick + Len(queued) + (ft + j) - ft)
        BY <1>4, <2>1, <4>1 DEF WriteInOrder
      <4>4. tick + Len(queued) + (ft + j) - ft = tick + i
        BY <1>2, <1>13, <4>1
      <4> QED
        BY <4>2, <4>3, <4>4
    <3> QED
      BY <3>1, <3>2
  <2>6. ReadInOrder'
    BY <1>6 DEF ReadInOrder
  <2>7. WriteInOrder'
    <3> SUFFICES ASSUME pcm_pc' = "write", NEW j \in ft' + 1 .. period_size
                 PROVE  m_write_buffer[j] = Sound(start, tick + Len(queued') + j - ft')
      BY <1>4 DEF WriteInOrder
    <3>1. ft' = ft + n /\ j \in ft + 1 .. period_size
      BY <1>2, <1>5, <1>6
    <3>2. m_write_buffer[j] = Sound(start, tick + Len(queued) + j - ft)
      BY <1>4, <2>1, <3>1 DEF WriteInOrder
    <3>3. tick + Len(queued') + j - ft' = tick + Len(queued) + j - ft
      BY <1>2, <1>8, <1>13, <3>1
    <3> QED
      BY <3>2, <3>3
  <2> QED
    BY <2>3, <2>4, <2>5, <2>6, <2>7
<1>19. FramesInOrder'
  BY <1>3, <1>4, <1>18 DEF FramesInOrder
<1> QED
  BY <1>12, <1>15, <1>16, <1>17, <1>19 DEF StreamInv

\* Silence is written period by period; the last one starts both streams.
LEMMA FillKeepsInv ==
    ASSUME StreamInv, NEW n \in 1 .. period_size, Fill(n)
    PROVE  StreamInv'
<1> DEFINE ft == frames_transferred
<1>1. StreamTypeOK /\ StreamPlaces /\ WriteFrames(n) /\ pcm_pc = "fill"
  BY DEF StreamInv, Fill
<1>2. /\ n \in Nat /\ ft \in Nat /\ period_size \in Nat /\ start \in Nat /\ filled \in Nat
      /\ tick \in Nat /\ period_count \in Nat /\ buffer_size \in Nat
      /\ ft + n <= period_size /\ n > 0 /\ ft < period_size
  BY <1>1, PeriodIsPositive, BufferIsPositive DEF StreamTypeOK, WriteFrames
<1>3. stream = "prepared" /\ captured = <<>>
  BY <1>1 DEF WriteFrames, StreamPlaces
<1>4. /\ Writes /\ filled < period_count /\ m_write_buffer = Silent(period_size)
      /\ Len(queued) = filled * period_size + ft
      /\ \A i \in 1 .. Len(queued) : queued[i] = Silence
  BY <1>1 DEF StreamInv, SilenceFills
<1>5. /\ fds' = fds /\ captured' = captured /\ heard' = heard /\ m_error' = m_error
      /\ m_write_buffer' = m_write_buffer
  BY <1>1 DEF Fill, WriteFrames
<1>6. ft' = IF ft + n = period_size THEN 0 ELSE ft + n
  <2>1. frames_transferred' = Transferred(n)
    BY <1>1 DEF WriteFrames
  <2>2. frames_transferred \in 0 .. period_size - 1 /\ n <= period_size - frames_transferred
    BY <1>1 DEF StreamTypeOK, WriteFrames
  <2> QED
    BY <2>1, <2>2, TransferGoesOn
<1>7. queued' \in Seq(Frame)
  BY <1>1, WrittenFrames
<1>8. Len(queued') = Len(queued) + n
  BY <1>1, WrittenFrames
<1>9. \A i \in 1 .. Len(queued) : queued'[i] = queued[i]
  BY <1>1, WrittenFrames
<1>10. \A i \in 1 .. n : queued'[Len(queued) + i] = m_write_buffer[ft + i]
  BY <1>1, WrittenFrames
<1>11. Len(queued) \in Nat
  BY <1>1, LenProperties DEF StreamTypeOK
<1>12. ASSUME NEW i \in 1 .. Len(queued) + n PROVE queued'[i] = Silence
  <2>1. CASE i <= Len(queued)
    <3>1. i \in 1 .. Len(queued)
      BY <1>11, <2>1
    <3> QED
      BY <1>4, <1>9, <3>1
  <2>2. CASE ~(i <= Len(queued))
    <3> DEFINE j == i - Len(queued)
    <3>1. j \in 1 .. n /\ Len(queued) + j = i /\ ft + j \in 1 .. period_size
      BY <1>2, <1>11, <2>2
    <3>2. queued'[i] = m_write_buffer[ft + j]
      BY <1>10, <3>1
    <3> QED
      BY <1>4, <3>1, <3>2 DEF Silent
  <2> QED
    BY <2>1, <2>2
<1>13. filled * period_size \in Nat
  BY <1>2, PeriodsAddUp
<1>14. (filled + 1) * period_size = filled * period_size + period_size
  BY <1>2, PeriodsAddUp
<1>15. (filled + 1) * period_size <= buffer_size
  <2>1. (filled + 1) * period_size <= period_count * period_size
    BY <1>2, <1>4, PeriodsAddUp
  <2>2. period_count * period_size = buffer_size
    BY <1>2 DEF buffer_size
  <2> QED
    BY <2>1, <2>2
<1>16. queued' # <<>>
  BY <1>2, <1>8, <1>11
<1>17. Started(stream = "prepared" /\ Len(queued') >= start_threshold)
  BY <1>1 DEF WriteFrames
<1>18. /\ stream' = IF Len(queued') >= buffer_size THEN "running" ELSE stream
       /\ start' = IF Len(queued') >= buffer_size THEN start + 1 ELSE start
       /\ tick' = IF Len(queued') >= buffer_size THEN 0 ELSE tick
  BY <1>3, <1>17 DEF Started, start_threshold
<1>19. /\ m_read_buffer \in [1 .. period_size -> Frame]
       /\ m_write_buffer \in [1 .. period_size -> Frame]
       /\ Silent(period_size) \in [1 .. period_size -> Frame]
       /\ captured \in Seq(Frame) /\ heard \in Frame
  BY <1>1 DEF StreamTypeOK, Silent, Frame
<1>20. /\ fds \in {{"in", "out"}, {"in"}, {"out"}} /\ m_error # "xrun"
  BY <1>1 DEF StreamTypeOK, StreamPlaces
<1>21. CASE ft + n # period_size
  <2>1. /\ ft' = ft + n /\ pcm_pc' = pcm_pc /\ filled' = filled
        /\ m_read_buffer' = m_read_buffer
    BY <1>2, <1>6, <1>21 DEF Fill
  <2>2. Len(queued') < buffer_size
    BY <1>2, <1>4, <1>8, <1>13, <1>14, <1>15, <1>21
  <2>3. stream' = stream /\ start' = start /\ tick' = tick
    BY <1>2, <1>8, <1>11, <1>18, <2>2
  <2>4. ft' \in 0 .. period_size - 1
    BY <1>2, <1>21, <2>1
  <2>5. StreamTypeOK'
    BY <1>1, <1>5, <1>7, <1>19, <1>20, <1>2, <2>1, <2>3, <2>4 DEF StreamTypeOK
  <2>6. StreamPlaces'
    BY <1>1, <1>3, <1>5, <1>20, <2>1, <2>3 DEF StreamPlaces
  <2>7. Len(queued') = filled * period_size + (ft + n)
    BY <1>2, <1>4, <1>8, <1>13
  <2>8. SilenceFills'
    BY <1>4, <1>5, <1>8, <1>12, <2>1, <2>7 DEF SilenceFills, Writes, Silent
  <2>9. FramesInOrder' /\ HeardInTime'
    BY <1>3, <1>5, <2>3, NothingRuns
  <2> QED
    BY <2>5, <2>6, <2>8, <2>9 DEF StreamInv
<1>22. CASE ft + n = period_size
  <2>1. ft' = 0 /\ filled' = filled + 1 /\ 0 \in 0 .. period_size - 1 /\ filled + 1 \in Nat
    BY <1>2, <1>6, <1>22 DEF Fill
  <2>2. Len(queued') = (filled + 1) * period_size
    BY <1>2, <1>4, <1>8, <1>13, <1>14, <1>22
  <2>3. CASE filled + 1 < period_count
    <3>1. pcm_pc' = pcm_pc /\ m_read_buffer' = m_read_buffer
      BY <2>1, <2>3 DEF Fill
    <3>2. (filled + 1 + 1) * period_size <= buffer_size
      <4>1. (filled + 1 + 1) * period_size <= period_count * period_size
        BY <1>2, <2>1, <2>3, PeriodsAddUp
      <4>2. period_count * period_size = buffer_size
        BY <1>2 DEF buffer_size
      <4> QED
        BY <4>1, <4>2
    <3>3. (filled + 1 + 1) * period_size = (filled + 1) * period_size + period_size
      BY <1>2, <2>1, PeriodsAddUp
    <3>4. Len(queued') < buffer_size
      <4>1. (filled + 1) * period_size \in Nat
        BY <1>2, <2>1, PeriodsAddUp
      <4>2. (filled + 1) * period_size + period_size <= buffer_size
        BY <3>2, <3>3
      <4> HIDE DEF ft
      <4> QED
        BY <1>2, <2>2, <4>1, <4>2
    <3>5. stream' = stream /\ start' = start /\ tick' = tick
      BY <1>2, <1>8, <1>11, <1>18, <3>4
    <3>6. StreamTypeOK'
      BY <1>1, <1>2, <1>5, <1>7, <1>19, <1>20, <2>1, <3>1, <3>5 DEF StreamTypeOK
    <3>7. StreamPlaces'
      BY <1>1, <1>3, <1>5, <1>20, <3>1, <3>5 DEF StreamPlaces
    <3>8. Len(queued') = filled' * period_size + ft'
      <4>1. (filled + 1) * period_size \in Nat
        BY <1>2, <2>1, PeriodsAddUp
      <4> QED
        BY <2>1, <2>2, <4>1
    <3>9. SilenceFills'
      BY <1>4, <1>5, <1>8, <1>12, <2>1, <2>3, <3>8 DEF SilenceFills, Writes, Silent
    <3>10. FramesInOrder' /\ HeardInTime'
      BY <1>3, <1>5, <3>5, NothingRuns
    <3> QED
      BY <3>6, <3>7, <3>9, <3>10 DEF StreamInv
  <2>4. CASE ~(filled + 1 < period_count)
    <3>1. pcm_pc' = "read" /\ m_read_buffer' = Silent(period_size)
      BY <2>1, <2>4 DEF Fill
    <3>2. filled + 1 = period_count
      BY <1>2, <1>4, <2>4
    <3>3. Len(queued') = buffer_size
      <4>1. period_count * period_size = buffer_size
        BY <1>2 DEF buffer_size
      <4> QED
        BY <2>2, <3>2, <4>1
    <3>4. stream' = "running" /\ start' = start + 1 /\ tick' = 0
      BY <1>2, <1>18, <3>3
    <3>5. start + 1 \in Nat /\ 0 \in Nat
      BY <1>2
    <3>6. StreamTypeOK'
      BY <1>5, <1>7, <1>19, <1>20, <2>1, <3>1, <3>4, <3>5 DEF StreamTypeOK
    <3>7. StreamPlaces'
      BY <1>5, <1>16, <1>20, <3>1, <3>4 DEF StreamPlaces
    <3>8. SilenceFills'
      BY <3>1 DEF SilenceFills
    <3>9. FramesAddUp'
      <4>1. InFlight' = 0 /\ Len(captured') = 0
        BY <1>3, <1>5, <2>1, <3>1 DEF InFlight
      <4>2. buffer_size' = buffer_size
        BY DEF buffer_size
      <4> QED
        BY <1>2, <3>3, <3>4, <4>1, <4>2 DEF FramesAddUp
    <3>10. CapturedInOrder'
      BY <1>3, <1>5 DEF CapturedInOrder
    <3>11. QueuedInOrder'
      <4> SUFFICES ASSUME NEW i \in 1 .. buffer_size
                   PROVE  queued'[i] = Sound(start + 1, 0 + i)
        BY <3>3, <3>4 DEF QueuedInOrder
      <4>1. 0 + i <= buffer_size /\ i \in 1 .. Len(queued) + n
        BY <1>2, <1>8, <3>3
      <4>2. queued'[i] = Silence
        BY <1>12, <4>1
      <4> QED
        BY <4>1, <4>2 DEF Sound
    <3>12. ReadInOrder' /\ WriteInOrder'
      BY <2>1, <3>1 DEF ReadInOrder, WriteInOrder
    <3>13. FramesInOrder'
      BY <3>9, <3>10, <3>11, <3>12 DEF FramesInOrder
    <3>14. HeardInTime'
      BY <3>4 DEF HeardInTime
    <3> QED
      BY <3>6, <3>7, <3>8, <3>13, <3>14 DEF StreamInv
  <2> QED
    BY <2>3, <2>4
<1> QED
  BY <1>21, <1>22

\* Whatever the thread and the hardware do, in whichever order.
LEMMA StreamStepInv == StreamInv /\ [StreamNext]_streamVars => StreamInv'
<1> SUFFICES ASSUME StreamInv, [StreamNext]_streamVars PROVE StreamInv'
  OBVIOUS
<1>1. CASE Tick \/ Lose \/ Step \/ Prepare \/ StartInput \/ ReadNothing \/ Fail
  BY <1>1, TickKeepsInv, LoseKeepsInv, StepKeepsInv, PrepareKeepsInv, StartInputKeepsInv,
     ReadNothingKeepsInv, FailKeepsInv
<1>2. CASE \E n \in 1 .. period_size : Fill(n) \/ Read(n) \/ Write(n)
  BY <1>2, FillKeepsInv, ReadKeepsInv, WriteKeepsInv
<1>3. CASE Stop \/ Drop \/ UNCHANGED streamVars
  BY <1>3, StopKeepsInv, DropKeepsInv
<1> QED
  BY <1>1, <1>2, <1>3 DEF StreamNext

\* What is heard is what was captured a buffer before, after the same start of
\* the streams, for every size of the period and of the buffer; and no xrun
\* ends the thread, whenever it comes.
THEOREM SpecLatencySurvivesXruns == StreamSpec => []LatencySurvivesXruns
<1>1. StreamInv => LatencySurvivesXruns
  BY DEF StreamInv, StreamPlaces, HeardInTime, Sound, LatencySurvivesXruns
<1> QED
  BY <1>1, StreamInitInv, StreamStepInv, PTL DEF StreamSpec

-----------------------------------------------------------------------------
(***************************************************************************)
(* The choice of DeviceSelection, for all devices, whatever they can be    *)
(* set to.                                                                 *)
(*                                                                         *)
(* Every action that changes the selection asks the devices again: a value *)
(* that is chosen is one that both offer together with those chosen before *)
(* it, so the three are a configuration of each of them.  Channels are     *)
(* checked against what was asked for last, and new ones are taken from    *)
(* it.                                                                     *)
(***************************************************************************)
\* All devices.
Devices == Input \cup Output

\* Devices, numbers and buses.
DevicesTypeOK ==
    /\ plugged \subseteq Devices
    /\ \A dir \in Dir : pcm_devices[dir] \in Seq(Devices)
    /\ \A dir \in Dir : selected[dir].hw_params.num_channels \in Nat
    /\ buses \in [Dir -> Seq(Bus)]

DevicesInv == DevicesTypeOK /\ SelectionFits

-----------------------------------------------------------------------------
\* The least of some numbers is one of them.
LEMMA MinIsOneOfThem ==
    ASSUME NEW values \in SUBSET Nat, values # {}
    PROVE  Min(values) \in values
<1>1. PICK x \in values : \A y \in values : ~(<<y, x>> \in OpToRel(<, Nat))
  <2>1. IsWellFoundedOn(OpToRel(<, Nat), Nat)
    BY NatLessThanWellFounded
  <2> QED
    BY <2>1, WFMin
<1>2. \A y \in values : x <= y
  <2> SUFFICES ASSUME NEW y \in values PROVE x <= y
    OBVIOUS
  <2>1. x \in Nat /\ y \in Nat
    OBVIOUS
  <2>2. ~(y < x)
    BY <1>1, <2>1 DEF OpToRel
  <2> QED
    BY <2>1, <2>2
<1> QED
  BY <1>2 DEF Min

\* A value that is chosen is offered, or none is.
LEMMA NextValueIsOffered ==
    ASSUME NEW values \in SUBSET Nat, NEW current, NextValue(values, current) # 0
    PROVE  NextValue(values, current) \in values
BY MinIsOneOfThem DEF NextValue

\* A device is found at one of the places of the list.
LEMMA IndexIsAPlace ==
    ASSUME NEW list \in Seq(Devices), NEW device
    PROVE  IndexOf(list, device) \in {npos} \cup DOMAIN list
<1>1. CASE device \in ToSet(list)
  <2> DEFINE places == {i \in 1 .. Len(list) : list[i] = device}
  <2>1. DOMAIN list = 1 .. Len(list) /\ Len(list) \in Nat
    BY LenProperties
  <2>2. places # {} /\ places \subseteq Nat
    BY <1>1, <2>1 DEF ToSet
  <2>3. IndexOf(list, device) = Min(places)
    BY <1>1, <2>2 DEF IndexOf, SelectInSeq
  <2> HIDE DEF places
  <2>4. Min(places) \in places
    BY <2>2, MinIsOneOfThem
  <2>5. places \subseteq 1 .. Len(list)
    BY DEF places
  <2> QED
    BY <2>1, <2>3, <2>4, <2>5
<1>2. CASE device \notin ToSet(list)
  BY <1>2 DEF IndexOf
<1> QED
  BY <1>1, <1>2

\* What is listed are devices.
LEMMA ListsAreDevices ==
    ASSUME plugged \subseteq Devices, NEW new_devices \in IoDescriptors, NEW dir \in Dir
    PROVE  new_devices[dir] \in Seq(Devices)
<1>1. ASSUME NEW S \in SUBSET Devices, IsFiniteSet(S), NEW list \in SetToSeqs(S)
      PROVE  list \in Seq(Devices)
  <2>1. Cardinality(S) \in Nat
    BY <1>1, FS_CardinalityType
  <2>2. list \in [1 .. Cardinality(S) -> Devices]
    BY <1>1 DEF SetToSeqs
  <2> QED
    BY <2>1, <2>2, SeqDef
<1>2. PICK inputs \in SetToSeqs(plugged \cap Input), outputs \in SetToSeqs(plugged \cap Output) :
        new_devices = [in |-> inputs, out |-> outputs]
  BY DEF IoDescriptors
<1>3. IsFiniteSet(plugged \cap Input) /\ IsFiniteSet(plugged \cap Output)
  BY DevicesAssumption, FS_Subset
<1>4. inputs \in Seq(Devices) /\ outputs \in Seq(Devices)
  BY <1>1, <1>3
<1> QED
  BY <1>2, <1>4 DEF Dir

-----------------------------------------------------------------------------
\* A device and the configuration that is chosen for it in three steps.
LEMMA ChosenCanBeSet ==
    ASSUME NEW device \in Devices, NEW rate, NEW size, NEW count,
           rate \in ValuesOf(Supported[device], 1),
           size \in HwParams(device, rate, 0).period_sizes,
           count \in HwParams(device, rate, size).period_counts
    PROVE  CanBeSet(device, <<rate, size, count>>)
<1> DEFINE configs == Supported[device]
           of_rate == {c \in configs : c[1] = rate}
           of_size == {c \in of_rate : c[2] = size}
<1>1. configs \in SUBSET (Nat \X Nat \X Nat)
  BY DevicesAssumption DEF Devices
<1>2. RefinedBy(configs, 1, rate) = of_rate
  BY DEF RefinedBy
<1>3. size \in ValuesOf(of_rate, 2)
  BY <1>2 DEF HwParams
<1>4. RefinedBy(of_rate, 2, size) = of_size
  BY <1>3 DEF RefinedBy
<1>5. count \in ValuesOf(of_size, 3)
  BY <1>2, <1>4 DEF HwParams
<1>6. PICK c \in of_size : count = c[3]
  BY <1>5 DEF ValuesOf
<1>7. c \in configs /\ c[1] = rate /\ c[2] = size /\ c[3] = count
  BY <1>6
<1>8. c = <<rate, size, count>>
  BY <1>1, <1>7
<1> QED
  BY <1>7, <1>8 DEF CanBeSet

\* The values that a device refines to are numbers.
LEMMA ParametersAreNumbers ==
    ASSUME NEW device \in Devices, NEW rate, NEW size
    PROVE  /\ HwParams(device, rate, size).num_channels \in Nat
           /\ HwParams(device, rate, size).sample_rates \in SUBSET Nat
           /\ HwParams(device, rate, size).period_sizes \in SUBSET Nat
           /\ HwParams(device, rate, size).period_counts \in SUBSET Nat
<1>1. Supported[device] \in SUBSET (Nat \X Nat \X Nat) /\ NumChannels[device] \in Nat
  BY DevicesAssumption DEF Devices
<1>2. ASSUME NEW configs \in SUBSET (Nat \X Nat \X Nat), NEW field, NEW value
      PROVE  RefinedBy(configs, field, value) \in SUBSET (Nat \X Nat \X Nat)
  BY DEF RefinedBy
<1>3. ASSUME NEW configs \in SUBSET (Nat \X Nat \X Nat)
      PROVE  /\ ValuesOf(configs, 1) \in SUBSET Nat
             /\ ValuesOf(configs, 2) \in SUBSET Nat
             /\ ValuesOf(configs, 3) \in SUBSET Nat
  BY DEF ValuesOf
<1> DEFINE of_rate == RefinedBy(Supported[device], 1, rate)
           of_size == RefinedBy(of_rate, 2, size)
<1>4. of_rate \in SUBSET (Nat \X Nat \X Nat)
  BY <1>1, <1>2
<1>5. of_size \in SUBSET (Nat \X Nat \X Nat)
  BY <1>2, <1>4
<1>6. /\ ValuesOf(Supported[device], 1) \in SUBSET Nat
      /\ ValuesOf(of_rate, 2) \in SUBSET Nat /\ ValuesOf(of_size, 3) \in SUBSET Nat
  BY <1>1, <1>3, <1>4, <1>5
<1>7. HwParams(device, rate, size) =
        [num_channels |-> NumChannels[device],
         sample_rates |-> ValuesOf(Supported[device], 1),
         period_sizes |-> ValuesOf(of_rate, 2),
         period_counts |-> ValuesOf(of_size, 3)]
  BY DEF HwParams
<1> HIDE DEF of_rate, of_size
<1> QED
  BY <1>1, <1>6, <1>7

\* Lists of devices, and a place in each of them, or none.
Indexed(new_devices, index) ==
    \A dir \in Dir : /\ new_devices[dir] \in Seq(Devices)
                     /\ index[dir] \in {npos} \cup DOMAIN new_devices[dir]

\* What is at a place of a list is a device.
LEMMA IndexedAreDevices ==
    ASSUME NEW new_devices, NEW index, Indexed(new_devices, index), NEW dir \in Dir,
           index[dir] # npos
    PROVE  new_devices[dir][index[dir]] \in Devices
<1>1. new_devices[dir] \in Seq(Devices) /\ index[dir] \in DOMAIN new_devices[dir]
  BY DEF Indexed
<1> QED
  BY <1>1, LenProperties, ElementOfSeq

\* What the kernel is asked for is a number of channels and sets of numbers.
LEMMA NextParametersAreNumbers ==
    ASSUME NEW new_devices, NEW index, Indexed(new_devices, index), NEW dir \in Dir,
           NEW rate, NEW size
    PROVE  LET hw == NextHwParams(new_devices, index, rate, size)[dir]
           IN  /\ hw.num_channels \in Nat
               /\ hw.sample_rates \in SUBSET Nat
               /\ hw.period_sizes \in SUBSET Nat
               /\ hw.period_counts \in SUBSET Nat
<1>1. CASE index[dir] = npos
  BY <1>1 DEF NextHwParams, NoHwParams
<1>2. CASE index[dir] # npos
  <2>1. NextHwParams(new_devices, index, rate, size)[dir]
            = HwParams(new_devices[dir][index[dir]], rate, size)
    BY <1>2 DEF NextHwParams
  <2>2. new_devices[dir][index[dir]] \in Devices
    BY <1>2, IndexedAreDevices
  <2> QED
    BY <2>1, <2>2, ParametersAreNumbers
<1> QED
  BY <1>1, <1>2

\* What both devices have in common.
LEMMA CommonParametersAreNumbers ==
    ASSUME NEW new_devices, NEW index, Indexed(new_devices, index), NEW rate, NEW size,
           NEW field \in {"sample_rates", "period_sizes", "period_counts"}
    PROVE  Common(NextHwParams(new_devices, index, rate, size), field) \in SUBSET Nat
<1>1. "in" \in Dir
  BY DEF Dir
<1>2. NextHwParams(new_devices, index, rate, size)["in"][field] \in SUBSET Nat
  BY <1>1, NextParametersAreNumbers
<1> QED
  BY <1>2 DEF Common

\* The configuration that the three steps choose, if they find one, is one that
\* both devices can be set to.
LEMMA BothCanBeSet ==
    ASSUME NEW new_devices, NEW index, Indexed(new_devices, index), NEW rate, NEW size,
           NEW count, NEW dir \in Dir, index[dir] # npos,
           rate \in Common(NextHwParams(new_devices, index, 0, 0), "sample_rates"),
           size \in Common(NextHwParams(new_devices, index, rate, 0), "period_sizes"),
           count \in Common(NextHwParams(new_devices, index, rate, size), "period_counts")
    PROVE  CanBeSet(new_devices[dir][index[dir]], <<rate, size, count>>)
<1> DEFINE device == new_devices[dir][index[dir]]
<1>1. device \in Devices
  BY IndexedAreDevices
<1>2. \A r, s : NextHwParams(new_devices, index, r, s)[dir] = HwParams(device, r, s)
  BY DEF NextHwParams
<1> HIDE DEF device
<1>3. dir = "in" \/ dir = "out"
  BY DEF Dir
<1>4. /\ rate \in HwParams(device, 0, 0).sample_rates
      /\ size \in HwParams(device, rate, 0).period_sizes
      /\ count \in HwParams(device, rate, size).period_counts
  <2>1. \A hw, field : Common(hw, field) \subseteq hw[dir][field]
    BY <1>3 DEF Common
  <2> QED
    BY <1>2, <2>1
<1>5. rate \in ValuesOf(Supported[device], 1)
  BY <1>4 DEF HwParams
<1>6. CanBeSet(device, <<rate, size, count>>)
  BY <1>1, <1>4, <1>5, ChosenCanBeSet
<1> QED
  BY <1>6 DEF device

\* The channels of a bus after an update.
LEMMA UpdatedChannelExists ==
    ASSUME NEW ch \in Nat \cup {npos}, NEW num_chs \in Nat
    PROVE  /\ UpdateChannel(ch, num_chs) \in Nat \cup {npos}
           /\ UpdateChannel(ch, num_chs) \in -1 .. num_chs - 1
BY DEF UpdateChannel, npos

\* So it is for both channels of a bus.
LEMMA UpdatedBusExists ==
    ASSUME NEW bus \in Bus, NEW num_chs \in Nat
    PROVE  /\ UpdateChannels(bus, num_chs) \in Bus
           /\ UpdateChannels(bus, num_chs).left \in -1 .. num_chs - 1
           /\ UpdateChannels(bus, num_chs).right \in -1 .. num_chs - 1
<1>1. PICK t \in {"mono", "stereo"}, l \in Nat \cup {npos}, r \in Nat \cup {npos} :
        bus = [type |-> t, left |-> l, right |-> r]
  BY DEF Bus
<1>2. UpdateChannels(bus, num_chs) =
        [type |-> t, left |-> UpdateChannel(l, num_chs), right |-> UpdateChannel(r, num_chs)]
  <2>1. \A x : [[type |-> t, left |-> l, right |-> r] EXCEPT !.left = x]
                    = [type |-> t, left |-> x, right |-> r]
    OBVIOUS
  <2>2. \A x, y : [[type |-> t, left |-> x, right |-> r] EXCEPT !.right = y]
                        = [type |-> t, left |-> x, right |-> y]
    OBVIOUS
  <2>3. bus.left = l /\ bus.right = r
    BY <1>1
  <2> DEFINE x0 == UpdateChannel(l, num_chs)
             y0 == UpdateChannel(r, num_chs)
             first == [bus EXCEPT !.left = x0]
  <2>4. UpdateChannels(bus, num_chs) = [first EXCEPT !.right = y0]
    BY <2>3 DEF UpdateChannels
  <2>5. first = [type |-> t, left |-> x0, right |-> r]
    BY <1>1, <2>1
  <2> HIDE DEF first, x0, y0
  <2>6. [first EXCEPT !.right = y0] = [type |-> t, left |-> x0, right |-> y0]
    BY <2>2, <2>5
  <2> QED
    BY <2>4, <2>6 DEF x0, y0
<1>3. /\ UpdateChannel(l, num_chs) \in (Nat \cup {npos}) \cap (-1 .. num_chs - 1)
      /\ UpdateChannel(r, num_chs) \in (Nat \cup {npos}) \cap (-1 .. num_chs - 1)
  BY UpdatedChannelExists
<1> QED
  BY <1>2, <1>3 DEF Bus

\* And for all buses of both directions.
LEMMA UpdatedBusesExist ==
    ASSUME NEW list \in [Dir -> Seq(Bus)], NEW hw,
           \A dir \in Dir : hw[dir].num_channels \in Nat
    PROVE  /\ UpdateBuses(list, hw) \in [Dir -> Seq(Bus)]
           /\ \A dir \in Dir : \A i \in DOMAIN UpdateBuses(list, hw)[dir] :
                {UpdateBuses(list, hw)[dir][i].left, UpdateBuses(list, hw)[dir][i].right}
                    \subseteq -1 .. hw[dir].num_channels - 1
<1> DEFINE new(dir) ==
        [i \in DOMAIN list[dir] |-> UpdateChannels(list[dir][i], hw[dir].num_channels)]
<1>1. UpdateBuses(list, hw) = [dir \in Dir |-> new(dir)]
  BY DEF UpdateBuses
<1>2. ASSUME NEW dir \in Dir
      PROVE  /\ new(dir) \in Seq(Bus)
             /\ \A i \in DOMAIN new(dir) : {new(dir)[i].left, new(dir)[i].right}
                                                \subseteq -1 .. hw[dir].num_channels - 1
  <2>1. list[dir] \in Seq(Bus) /\ Len(list[dir]) \in Nat /\ DOMAIN list[dir] = 1 .. Len(list[dir])
    BY LenProperties
  <2>2. \A i \in DOMAIN list[dir] : list[dir][i] \in Bus
    BY <2>1, ElementOfSeq
  <2>3. \A i \in DOMAIN list[dir] :
            LET bus == UpdateChannels(list[dir][i], hw[dir].num_channels)
            IN  bus \in Bus /\ bus.left \in -1 .. hw[dir].num_channels - 1
                            /\ bus.right \in -1 .. hw[dir].num_channels - 1
    BY <2>2, UpdatedBusExists
  <2>4. new(dir) \in [1 .. Len(list[dir]) -> Bus]
    BY <2>1, <2>3
  <2>5. new(dir) \in Seq(Bus)
    BY <2>1, <2>4, SeqDef
  <2>6. \A i \in DOMAIN new(dir) : {new(dir)[i].left, new(dir)[i].right}
                                        \subseteq -1 .. hw[dir].num_channels - 1
    BY <2>3
  <2> QED
    BY <2>5, <2>6
<1> HIDE DEF new
<1> QED
  BY <1>1, <1>2

-----------------------------------------------------------------------------
\* The devices found in new lists are at places of them.
LEMMA NextDevicesAreIndexed ==
    ASSUME NEW new_devices, NEW index, \A dir \in Dir : new_devices[dir] \in Seq(Devices)
    PROVE  Indexed(new_devices, NextDevice(new_devices, index))
<1> SUFFICES ASSUME NEW dir \in Dir
             PROVE  NextDevice(new_devices, index)[dir] \in {npos} \cup DOMAIN new_devices[dir]
  BY DEF Indexed
<1>1. NextDevice(new_devices, index)[dir] =
        IF index[dir] = npos THEN npos
        ELSE IndexOf(new_devices[dir], pcm_devices[dir][index[dir]])
  BY DEF NextDevice
<1>2. \A device : IndexOf(new_devices[dir], device) \in {npos} \cup DOMAIN new_devices[dir]
  BY IndexIsAPlace
<1> QED
  BY <1>1, <1>2

\* A valid configuration can be set on each device that is selected.
SelectionCanBeSet ==
    0 \notin {pcm_config[1], pcm_config[2], pcm_config[3]} =>
        \A dir \in Dir : selected[dir].index # npos =>
            CanBeSet(pcm_devices[dir][selected[dir].index], pcm_config)

\* The three steps choose a configuration of both devices, or none; and the
\* buses are checked against what was asked for last.
LEMMA UpdateDevicesFits ==
    ASSUME NEW new_devices, NEW index, NEW current, NEW list \in [Dir -> Seq(Bus)],
           \A dir \in Dir : new_devices[dir] \in Seq(Devices),
           UpdateDevices(new_devices, index, current, list)
    PROVE  /\ \A dir \in Dir : pcm_devices'[dir] \in Seq(Devices)
           /\ \A dir \in Dir : selected'[dir].hw_params.num_channels \in Nat
           /\ buses' \in [Dir -> Seq(Bus)]
           /\ SelectionCanBeSet'
           /\ BusChannelsExist'
<1> DEFINE next == NextDevice(new_devices, index)
           hw(rate, size) == NextHwParams(new_devices, next, rate, size)
           r == NextValue(Common(hw(0, 0), "sample_rates"), current[1])
           hw1 == IF r # 0 THEN hw(r, 0) ELSE hw(0, 0)
           s == NextValue(Common(hw1, "period_sizes"), current[2])
           hw2 == IF s # 0 THEN hw(r, s) ELSE hw1
           c == NextValue(Common(hw2, "period_counts"), current[3])
<1>1. Indexed(new_devices, next)
  BY NextDevicesAreIndexed
<1>2. /\ pcm_devices' = new_devices
      /\ selected' = [dir \in Dir |-> [index |-> next[dir], hw_params |-> hw2[dir]]]
      /\ pcm_config' = <<r, s, c>>
      /\ buses' = UpdateBuses(list, hw2)
  BY DEF UpdateDevices
<1>3. hw2 = hw(r, s) \/ hw2 = hw(r, 0) \/ hw2 = hw(0, 0)
  OBVIOUS
<1>4. ASSUME NEW rate, NEW size
      PROVE  \A dir \in Dir : hw(rate, size)[dir].num_channels \in Nat
  BY <1>1, NextParametersAreNumbers
<1>5. ASSUME NEW rate, NEW size
      PROVE  /\ Common(hw(rate, size), "sample_rates") \in SUBSET Nat
             /\ Common(hw(rate, size), "period_sizes") \in SUBSET Nat
             /\ Common(hw(rate, size), "period_counts") \in SUBSET Nat
  BY <1>1, CommonParametersAreNumbers
<1>6. r # 0 => r \in Common(hw(0, 0), "sample_rates")
  BY <1>5, NextValueIsOffered
<1>7. r # 0 /\ s # 0 => s \in Common(hw(r, 0), "period_sizes")
  <2> SUFFICES ASSUME r # 0, s # 0 PROVE s \in Common(hw(r, 0), "period_sizes")
    OBVIOUS
  <2>1. hw1 = hw(r, 0)
    OBVIOUS
  <2> HIDE DEF hw, r
  <2> QED
    BY <1>5, <2>1, NextValueIsOffered
<1>8. r # 0 /\ s # 0 /\ c # 0 => c \in Common(hw(r, s), "period_counts")
  <2> SUFFICES ASSUME r # 0, s # 0, c # 0 PROVE c \in Common(hw(r, s), "period_counts")
    OBVIOUS
  <2>1. hw2 = hw(r, s)
    OBVIOUS
  <2> HIDE DEF hw, r, s
  <2> QED
    BY <1>5, <2>1, NextValueIsOffered
<1>9. ASSUME r # 0, s # 0, c # 0, NEW dir \in Dir, next[dir] # npos
      PROVE  CanBeSet(new_devices[dir][next[dir]], <<r, s, c>>)
  <2> HIDE DEF next, r, s, c
  <2> QED
    BY <1>1, <1>6, <1>7, <1>8, <1>9, BothCanBeSet
<1> HIDE DEF hw, r, s, c, hw1, hw2, next
<1>10. \A dir \in Dir : hw2[dir].num_channels \in Nat
  BY <1>3, <1>4
<1>11. \A dir \in Dir : selected'[dir].index = next[dir] /\ selected'[dir].hw_params = hw2[dir]
  BY <1>2
<1>12. \A dir \in Dir : pcm_devices'[dir] \in Seq(Devices)
  BY <1>2
<1>13. \A dir \in Dir : selected'[dir].hw_params.num_channels \in Nat
  BY <1>10, <1>11
<1>14. buses' \in [Dir -> Seq(Bus)]
  BY <1>2, <1>10, UpdatedBusesExist
<1>15. SelectionCanBeSet'
  <2>1. pcm_config'[1] = r /\ pcm_config'[2] = s /\ pcm_config'[3] = c
    BY <1>2
  <2> QED
    BY <1>2, <1>9, <1>11, <2>1 DEF SelectionCanBeSet, CanBeSet
<1>16. BusChannelsExist'
  <2>1. \A dir \in Dir : \A i \in DOMAIN UpdateBuses(list, hw2)[dir] :
            {UpdateBuses(list, hw2)[dir][i].left, UpdateBuses(list, hw2)[dir][i].right}
                \subseteq -1 .. hw2[dir].num_channels - 1
    BY <1>10, UpdatedBusesExist
  <2> QED
    BY <1>2, <1>11, <2>1 DEF BusChannelsExist
<1> QED
  BY <1>12, <1>13, <1>14, <1>15, <1>16

\* The device is opened with what was chosen, or it is closed.
LEMMA DeviceActionFits ==
    ASSUME DevicesInv, NEW new_devices, NEW index, NEW current,
           NEW list \in [Dir -> Seq(Bus)],
           \A dir \in Dir : new_devices[dir] \in Seq(Devices),
           DeviceAction(new_devices, index, current, list), plugged' = plugged
    PROVE  DevicesInv'
<1>1. CASE UpdateDevices(new_devices, index, current, list) /\ OpenDevice
  <2>1. \A dir \in Dir : pcm_devices'[dir] \in Seq(Devices)
    BY <1>1, UpdateDevicesFits
  <2>2. \A dir \in Dir : selected'[dir].hw_params.num_channels \in Nat
    BY <1>1, UpdateDevicesFits
  <2>3. buses' \in [Dir -> Seq(Bus)]
    BY <1>1, UpdateDevicesFits
  <2>4. SelectionCanBeSet'
    BY <1>1, UpdateDevicesFits
  <2>5. BusChannelsExist'
    BY <1>1, UpdateDevicesFits
  <2>6. DevicesTypeOK'
    BY <2>1, <2>2, <2>3 DEF DevicesInv, DevicesTypeOK
  <2>7. OpenDeviceCanBeSet'
    <3>1. CASE m_device' = Closed
      BY <3>1 DEF OpenDeviceCanBeSet, Closed
    <3>2. CASE m_device' # Closed
      <4>1. /\ \A dir \in Dir : selected'[dir].index # npos
            /\ 0 \notin {pcm_config'[1], pcm_config'[2], pcm_config'[3]}
            /\ m_device' = [in |-> pcm_devices'["in"][selected'["in"].index],
                            out |-> pcm_devices'["out"][selected'["out"].index],
                            config |-> pcm_config',
                            channels |-> [dir \in Dir |-> selected'[dir].hw_params.num_channels]]
        BY <1>1, <3>2 DEF OpenDevice
      <4>2. /\ m_device'.in = pcm_devices'["in"][selected'["in"].index]
            /\ m_device'.out = pcm_devices'["out"][selected'["out"].index]
            /\ m_device'.config = pcm_config'
        BY <4>1
      <4>3. \A dir \in Dir :
                /\ m_device'[dir] = pcm_devices'[dir][selected'[dir].index]
                /\ CanBeSet(m_device'[dir], pcm_config')
        BY <2>4, <4>1, <4>2 DEF SelectionCanBeSet, CanBeSet, Dir
      <4>4. CanBeSet(m_device'.in, pcm_config') /\ CanBeSet(m_device'.out, pcm_config')
        BY <4>3 DEF Dir
      <4> QED
        BY <4>2, <4>3, <4>4 DEF OpenDeviceCanBeSet, CanBeSet
    <3> QED
      BY <3>1, <3>2
  <2> QED
    BY <2>5, <2>6, <2>7 DEF DevicesInv, SelectionFits
<1>2. CASE m_device' = Closed /\ UNCHANGED <<pcm_devices, selected, pcm_config, buses>>
  <2>1. DevicesTypeOK'
    BY <1>2 DEF DevicesInv, DevicesTypeOK
  <2>2. BusChannelsExist'
    BY <1>2 DEF DevicesInv, SelectionFits, BusChannelsExist
  <2>3. OpenDeviceCanBeSet'
    BY <1>2 DEF OpenDeviceCanBeSet, Closed
  <2> QED
    BY <2>1, <2>2, <2>3 DEF DevicesInv, SelectionFits
<1> QED
  BY <1>1, <1>2 DEF DeviceAction

-----------------------------------------------------------------------------
\* No device is selected, and there are no buses.
LEMMA DevicesInitInv == DevicesInit => DevicesInv
<1> SUFFICES ASSUME DevicesInit PROVE DevicesInv
  OBVIOUS
<1>1. plugged \subseteq Devices
  BY DEF DevicesInit, Devices
<1>2. \A dir \in Dir : pcm_devices[dir] \in Seq(Devices)
  BY <1>1, ListsAreDevices DEF DevicesInit
<1>3. selected = [dir \in Dir |-> [index |-> npos, hw_params |-> NoHwParams]]
  BY DEF DevicesInit
<1>4. \A dir \in Dir : selected[dir].hw_params.num_channels = 0
  BY <1>3 DEF NoHwParams
<1>5. buses = [dir \in Dir |-> <<>>]
  BY DEF DevicesInit
<1>6. buses \in [Dir -> Seq(Bus)]
  <2>1. <<>> \in Seq(Bus)
    OBVIOUS
  <2> QED
    BY <1>5, <2>1
<1>7. BusChannelsExist
  <2>1. \A dir \in Dir : DOMAIN buses[dir] = {}
    BY <1>5, EmptySeq
  <2> QED
    BY <2>1 DEF BusChannelsExist
<1>8. OpenDeviceCanBeSet
  BY DEF DevicesInit, OpenDeviceCanBeSet
<1>9. DevicesTypeOK
  BY <1>1, <1>2, <1>4, <1>6 DEF DevicesTypeOK
<1> QED
  BY <1>7, <1>8, <1>9 DEF DevicesInv, SelectionFits

\* Whatever is chosen, the device is opened with it, or closed.
LEMMA ChoicesFit ==
    ASSUME DevicesInv,
           \/ RefreshDevices
           \/ \E dir, index : InitiateDeviceSelection(dir, index)
           \/ \E index : SelectSampleRate(index) \/ SelectPeriodSize(index)
                                                 \/ SelectPeriodCount(index)
    PROVE  DevicesInv'
<1>1. /\ plugged \subseteq Devices
      /\ \A dir \in Dir : pcm_devices[dir] \in Seq(Devices)
      /\ buses \in [Dir -> Seq(Bus)]
  BY DEF DevicesInv, DevicesTypeOK
<1>2. \E new_devices, index, current :
        /\ new_devices \in {pcm_devices} \cup IoDescriptors
        /\ DeviceAction(new_devices, index, current, buses)
  <2>1. CASE RefreshDevices
    BY <2>1 DEF RefreshDevices
  <2>2. CASE \E dir, index : InitiateDeviceSelection(dir, index)
    BY <2>2 DEF InitiateDeviceSelection
  <2>3. CASE \E index : SelectSampleRate(index) \/ SelectPeriodSize(index)
                                                \/ SelectPeriodCount(index)
    BY <2>3 DEF SelectSampleRate, SelectPeriodSize, SelectPeriodCount
  <2> QED
    BY <2>1, <2>2, <2>3
<1>3. plugged' = plugged
  BY DEF RefreshDevices, InitiateDeviceSelection, SelectSampleRate, SelectPeriodSize,
         SelectPeriodCount
<1>4. ASSUME NEW new_devices, new_devices \in {pcm_devices} \cup IoDescriptors
      PROVE  \A dir \in Dir : new_devices[dir] \in Seq(Devices)
  BY <1>1, <1>4, ListsAreDevices
<1> QED
  BY <1>1, <1>2, <1>3, <1>4, DeviceActionFits

\* The buses of the file are checked like those that are there.
LEMMA LoadedConfigFits ==
    ASSUME DevicesInv, NEW conf \in Confs, LoadAppConfig(conf)
    PROVE  DevicesInv'
<1>1. BusConfigs(conf) \in [Dir -> Seq(Bus)]
  <2> DEFINE outputs == conf.buses["out"]
             stereo == [i \in DOMAIN outputs |-> [outputs[i] EXCEPT !.type = "stereo"]]
  <2>1. conf.buses \in [Dir -> Seq(Bus)] /\ "out" \in Dir
    BY DevicesAssumption DEF Dir
  <2>2. outputs \in Seq(Bus)
    BY <2>1
  <2>3. Len(outputs) \in Nat /\ DOMAIN outputs = 1 .. Len(outputs)
    BY <2>2, LenProperties
  <2> HIDE DEF outputs
  <2>4. \A i \in 1 .. Len(outputs) : outputs[i] \in Bus
    BY <2>2, ElementOfSeq
  <2>5. \A bus \in Bus : [bus EXCEPT !.type = "stereo"] \in Bus
    BY DEF Bus
  <2>6. stereo \in [1 .. Len(outputs) -> Bus]
    BY <2>3, <2>4, <2>5
  <2>7. stereo \in Seq(Bus)
    BY <2>3, <2>6, SeqDef
  <2>8. BusConfigs(conf) = [conf.buses EXCEPT !["out"] = stereo]
    BY DEF BusConfigs, outputs
  <2> HIDE DEF stereo
  <2> QED
    BY <2>1, <2>7, <2>8
<1>2. \A dir \in Dir : pcm_devices[dir] \in Seq(Devices)
  BY DEF DevicesInv, DevicesTypeOK
<1>3. PICK index, current : DeviceAction(pcm_devices, index, current, BusConfigs(conf))
  BY DEF LoadAppConfig
<1>4. plugged' = plugged
  BY DEF LoadAppConfig
<1> QED
  BY <1>1, <1>2, <1>3, <1>4, DeviceActionFits

\* The first channel that no bus has is one of the device, or none.
LEMMA LeastChannelExists ==
    ASSUME NEW num_chs \in Nat, NEW channels, channels \subseteq 0 .. num_chs - 1
    PROVE  LeastOr(channels) \in (Nat \cup {npos}) \cap (-1 .. num_chs - 1)
<1>1. CASE channels = {}
  BY <1>1 DEF LeastOr, npos
<1>2. CASE channels # {}
  <2>1. channels \in SUBSET Nat
    OBVIOUS
  <2>2. Min(channels) \in channels
    BY <1>2, <2>1, MinIsOneOfThem
  <2>3. LeastOr(channels) = Min(channels)
    BY <1>2 DEF LeastOr
  <2>4. Min(channels) \in 0 .. num_chs - 1
    BY <2>2
  <2> QED
    BY <2>3, <2>4
<1> QED
  BY <1>1, <1>2

\* The buses that are there stay as they are when one of them is set.
LEMMA BusIsSet ==
    ASSUME DevicesInv, NEW dir \in Dir, NEW list \in Seq(Bus),
           \A i \in DOMAIN list : {list[i].left, list[i].right}
                                    \subseteq -1 .. selected[dir].hw_params.num_channels - 1,
           buses' = [buses EXCEPT ![dir] = list],
           UNCHANGED <<plugged, pcm_devices, selected, pcm_config, m_device>>
    PROVE  DevicesInv'
<1>1. buses \in [Dir -> Seq(Bus)]
  BY DEF DevicesInv, DevicesTypeOK
<1>2. buses' \in [Dir -> Seq(Bus)]
  BY <1>1
<1>3. DevicesTypeOK'
  BY <1>2 DEF DevicesInv, DevicesTypeOK
<1>4. BusChannelsExist'
  <2> SUFFICES ASSUME NEW d \in Dir
               PROVE  \A i \in DOMAIN buses'[d] : {buses'[d][i].left, buses'[d][i].right}
                            \subseteq -1 .. selected[d].hw_params.num_channels - 1
    BY DEF BusChannelsExist
  <2>1. CASE d = dir
    BY <1>1, <2>1
  <2>2. CASE d # dir
    <3>1. buses'[d] = buses[d]
      BY <1>1, <2>2
    <3> QED
      BY <3>1 DEF DevicesInv, SelectionFits, BusChannelsExist
  <2> QED
    BY <2>1, <2>2
<1>5. OpenDeviceCanBeSet'
  BY DEF DevicesInv, SelectionFits, OpenDeviceCanBeSet, CanBeSet
<1> QED
  BY <1>3, <1>4, <1>5 DEF DevicesInv, SelectionFits

\* A new bus has channels that are not assigned, of the device.
LEMMA AddedBusFits ==
    ASSUME DevicesInv, NEW dir \in Dir, NEW type \in {"mono", "stereo"}, AddBus(dir, type)
    PROVE  DevicesInv'
<1> DEFINE num_chs == selected[dir].hw_params.num_channels
           bus == DefaultChannels(dir, type)
<1>1. num_chs \in Nat /\ buses[dir] \in Seq(Bus)
  BY DEF DevicesInv, DevicesTypeOK
<1>2. Unassigned(dir) \subseteq 0 .. num_chs - 1
  BY DEF Unassigned
<1>3. PICK l, r :
        /\ bus = [type |-> type, left |-> l, right |-> r]
        /\ {l, r} \subseteq (Nat \cup {npos}) \cap (-1 .. num_chs - 1)
  <2> DEFINE l == LeastOr(Unassigned(dir))
             r == LeastOr(Unassigned(dir) \ {l})
  <2> HIDE DEF num_chs
  <2>1. l \in (Nat \cup {npos}) \cap (-1 .. num_chs - 1)
    BY <1>1, <1>2, LeastChannelExists
  <2>2. Unassigned(dir) \ {l} \subseteq 0 .. num_chs - 1
    BY <1>2
  <2> HIDE DEF l
  <2>3. r \in (Nat \cup {npos}) \cap (-1 .. num_chs - 1)
    BY <1>1, <2>2, LeastChannelExists
  <2> DEFINE second == IF type = "stereo" THEN r ELSE l
  <2>4. bus = [type |-> type, left |-> l, right |-> second]
    BY DEF DefaultChannels, l
  <2>5. second \in (Nat \cup {npos}) \cap (-1 .. num_chs - 1)
    BY <2>1, <2>3
  <2> HIDE DEF bus, second
  <2>6. {l, second} \subseteq (Nat \cup {npos}) \cap (-1 .. num_chs - 1)
    BY <2>1, <2>5
  <2> QED
    BY <2>4, <2>6
<1>4. bus \in Bus /\ {bus.left, bus.right} \subseteq -1 .. num_chs - 1
  BY <1>3 DEF Bus
<1>5. Append(buses[dir], bus) \in Seq(Bus)
  <2> HIDE DEF bus
  <2> QED
    BY <1>1, <1>4, AppendProperties
<1>6. \A i \in DOMAIN buses[dir] : {buses[dir][i].left, buses[dir][i].right}
                                        \subseteq -1 .. num_chs - 1
  BY DEF DevicesInv, SelectionFits, BusChannelsExist
<1>7. \A i \in DOMAIN Append(buses[dir], bus) :
        {Append(buses[dir], bus)[i].left, Append(buses[dir], bus)[i].right}
            \subseteq -1 .. num_chs - 1
  <2> HIDE DEF bus, num_chs
  <2> SUFFICES ASSUME NEW i \in DOMAIN Append(buses[dir], bus)
               PROVE  {Append(buses[dir], bus)[i].left, Append(buses[dir], bus)[i].right}
                        \subseteq -1 .. num_chs - 1
    OBVIOUS
  <2>1. i \in 1 .. Len(buses[dir]) + 1 /\ Len(buses[dir]) \in Nat
    BY <1>1, <1>4, AppendProperties, LenProperties
  <2>2. CASE i = Len(buses[dir]) + 1
    <3>1. Append(buses[dir], bus)[i] = bus
      BY <1>1, <1>4, <2>2, AppendProperties
    <3> QED
      BY <1>4, <3>1
  <2>3. CASE i # Len(buses[dir]) + 1
    <3>1. i \in 1 .. Len(buses[dir]) /\ 1 .. Len(buses[dir]) = DOMAIN buses[dir]
      BY <1>1, <2>1, <2>3, LenProperties
    <3>2. Append(buses[dir], bus)[i] = buses[dir][i]
      BY <1>1, <1>4, <3>1, AppendProperties
    <3> QED
      BY <1>6, <3>1, <3>2
  <2> QED
    BY <2>2, <2>3
<1>8. buses' = [buses EXCEPT ![dir] = Append(buses[dir], bus)]
      /\ UNCHANGED <<plugged, pcm_devices, selected, pcm_config, m_device>>
  BY DEF AddBus
<1> HIDE DEF bus
<1> QED
  BY <1>5, <1>7, <1>8, BusIsSet

\* A channel that is chosen is offered.
LEMMA SelectedChannelFits ==
    ASSUME DevicesInv, NEW dir \in Dir, NEW i, NEW side, NEW channel,
           SelectBusChannel(dir, i, side, channel)
    PROVE  DevicesInv'
<1> DEFINE num_chs == selected[dir].hw_params.num_channels
           old == buses[dir][i]
           l == IF side \in {"mono", "left"} THEN channel ELSE old.left
           r == IF side \in {"mono", "right"} THEN channel ELSE old.right
           bus == [type |-> old.type, left |-> l, right |-> r]
           list == [buses[dir] EXCEPT ![i] = bus]
<1>1. num_chs \in Nat /\ buses[dir] \in Seq(Bus) /\ i \in DOMAIN buses[dir]
      /\ channel \in -1 .. num_chs - 1
  BY DEF DevicesInv, DevicesTypeOK, SelectBusChannel
<1>2. DOMAIN buses[dir] = 1 .. Len(buses[dir]) /\ Len(buses[dir]) \in Nat
  BY <1>1, LenProperties
<1>3. old \in Bus
  BY <1>1, <1>2, ElementOfSeq
<1>4. \A j \in DOMAIN buses[dir] : {buses[dir][j].left, buses[dir][j].right}
                                        \subseteq -1 .. num_chs - 1
  BY DEF DevicesInv, SelectionFits, BusChannelsExist
<1>5. channel \in Nat \cup {npos}
  BY <1>1 DEF npos
<1>6. PICK t \in {"mono", "stereo"}, ol \in Nat \cup {npos}, or \in Nat \cup {npos} :
        old = [type |-> t, left |-> ol, right |-> or]
  BY <1>3 DEF Bus
<1>7. l \in Nat \cup {npos} /\ r \in Nat \cup {npos}
  BY <1>5, <1>6
<1>8. l \in -1 .. num_chs - 1 /\ r \in -1 .. num_chs - 1
  BY <1>1, <1>4
<1>9. buses' = [buses EXCEPT ![dir] = list]
      /\ UNCHANGED <<plugged, pcm_devices, selected, pcm_config, m_device>>
  BY DEF SelectBusChannel
<1> HIDE DEF l, r, old
<1>11. bus = [type |-> t, left |-> l, right |-> r]
  BY <1>6
<1>12. bus \in Bus /\ {bus.left, bus.right} \subseteq -1 .. num_chs - 1
  BY <1>7, <1>8, <1>11 DEF Bus
<1> HIDE DEF bus, num_chs
<1>13. list \in Seq(Bus) /\ DOMAIN list = DOMAIN buses[dir]
  BY <1>1, <1>12, ExceptSeq
<1>14. \A j \in DOMAIN list : {list[j].left, list[j].right} \subseteq -1 .. num_chs - 1
  BY <1>4, <1>12
<1> HIDE DEF list
<1> QED
  BY <1>9, <1>13, <1>14, BusIsSet DEF num_chs

\* What is plugged is looked at when the devices are refreshed or opened.
LEMMA StillSelectionFits ==
    ASSUME DevicesInv, plugged' \subseteq Devices,
           UNCHANGED <<pcm_devices, selected, pcm_config, buses, m_device>>
    PROVE  DevicesInv'
<1>1. DevicesTypeOK'
  BY DEF DevicesInv, DevicesTypeOK
<1>2. BusChannelsExist'
  BY DEF DevicesInv, SelectionFits, BusChannelsExist
<1>3. OpenDeviceCanBeSet'
  BY DEF DevicesInv, SelectionFits, OpenDeviceCanBeSet, CanBeSet
<1> QED
  BY <1>1, <1>2, <1>3 DEF DevicesInv, SelectionFits

\* Whatever is chosen, loaded, plugged or unplugged.
LEMMA DevicesStepInv == DevicesInv /\ [DevicesNext]_deviceVars => DevicesInv'
<1> SUFFICES ASSUME DevicesInv, [DevicesNext]_deviceVars PROVE DevicesInv'
  OBVIOUS
<1>1. CASE \E conf \in Confs : LoadAppConfig(conf)
  BY <1>1, LoadedConfigFits
<1>2. CASE LoadNothing \/ UNCHANGED deviceVars
  <2>1. plugged' \subseteq Devices
    BY <1>2 DEF DevicesInv, DevicesTypeOK, LoadNothing, deviceVars
  <2> QED
    BY <1>2, <2>1, StillSelectionFits DEF LoadNothing, deviceVars
<1>3. CASE UserAction
  <2>1. CASE RefreshDevices
    BY <2>1, ChoicesFit
  <2>2. CASE \E dir \in Dir, index \in 1 .. Max({Cardinality(Input), Cardinality(Output)}) :
                InitiateDeviceSelection(dir, index)
    BY <2>2, ChoicesFit
  <2>3. CASE \E index \in 1 .. 2 : SelectSampleRate(index) \/ SelectPeriodSize(index)
                                    \/ SelectPeriodCount(index)
    BY <2>3, ChoicesFit
  <2>4. CASE \E dir \in Dir, type \in {"mono", "stereo"} : AddBus(dir, type)
    BY <2>4, AddedBusFits
  <2>5. CASE \E dir \in Dir, i \in 1 .. MaxBuses, side \in {"mono", "left", "right"} :
                \E channel \in -1 .. Max({NumChannels[d] : d \in Input \cup Output}) :
                    SelectBusChannel(dir, i, side, channel)
    BY <2>5, SelectedChannelFits
  <2> QED
    BY <1>3, <2>1, <2>2, <2>3, <2>4, <2>5 DEF UserAction
<1>4. CASE \E device \in Input \cup Output : Plug(device)
  <2>1. PICK device \in Devices : Plug(device)
    BY <1>4 DEF Devices
  <2>2. plugged' \subseteq Devices
    BY <2>1 DEF DevicesInv, DevicesTypeOK, Plug
  <2> QED
    BY <2>1, <2>2, StillSelectionFits DEF Plug
<1> QED
  BY <1>1, <1>2, <1>3, <1>4 DEF DevicesNext

\* The device that is open runs a configuration of both of its parts, and no
\* bus has a channel that the selected device lacks, for all devices there may
\* be, whatever they can be set to, and every configuration file.
THEOREM SpecSelectionFits == DevicesSpec => []SelectionFits
<1>1. DevicesInv => SelectionFits
  BY DEF DevicesInv
<1> QED
  BY <1>1, DevicesInitInv, DevicesStepInv, PTL DEF DevicesSpec
==============================================================================
