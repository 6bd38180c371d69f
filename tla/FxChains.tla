------------------------------ MODULE FxChains ------------------------------
(***************************************************************************)
(* The effect chains of the mixer channels, the LADSPA plugins behind      *)
(* their modules, and the MIDI assignments of their parameters.  An event  *)
(* of the user interface, of the scan thread or of the start dispatches a  *)
(* batch of actions; the main thread reduces it one action after another   *)
(* and rebuilds the engine after those the engine has to know of.  The     *)
(* audio thread runs beside it.  A module and the plugin loaded for it     *)
(* have one id, and so have a module or a channel and its parameter: one   *)
(* stands for all, since they come and go together.                        *)
(***************************************************************************)
EXTENDS Integers, SequencesExt

CONSTANTS
    Plugin,     \* ids of LADSPA plugins
    Loadable,   \* those whose library loads
    Control,    \* MIDI controls
    MaxIds,     \* bound on the ids given when the user adds a channel or module
    MaxSession, \* bound on the modules of the saved session
    None

ASSUME FxAssumption ==
    /\ Loadable \subseteq Plugin
    /\ MaxIds \in Nat /\ MaxSession \in 0..MaxIds
    /\ None \notin Plugin \cup Control \cup Nat

Main == 0

VARIABLES
    st,             \* the state of the store
    fx_registry,    \* the plugins found by the scan
    m_instances,    \* the plugins that are loaded
    engine,         \* what the engine that runs was built of
    scan,           \* how far the start and the scan thread are
    pending,        \* what is left of the batch being dispatched
    next_id,
    aborted         \* an assertion has failed

vars == <<st, fx_registry, m_instances, engine, scan, pending, next_id, aborted>>

Channels(s) == DOMAIN s.channels
Modules(s) == DOMAIN s.fx_modules
OfKind(s, kind) == {m \in Modules(s) : s.fx_modules[m].kind = kind}

\* A module that waits for its plugin has no parameters.
Params(s) == Channels(s) \cup (Modules(s) \ OfKind(s, "missing"))

Closed == [open |-> FALSE, stale |-> FALSE, plugins |-> {}, learn |-> "none"]

Init ==
    /\ st = [channels |-> [c \in {Main} |-> <<>>],
             fx_modules |-> <<>>,
             fx_ladspa_instances |-> {},
             midi_assignments |-> <<>>,
             midi_learning |-> None,
             focused |-> [chain |-> None, module |-> None]]
    /\ fx_registry = {} /\ m_instances = {}
    /\ engine = Closed
    /\ scan = "session"
    /\ pending = <<>>
    /\ next_id = 1
    /\ aborted = FALSE

-----------------------------------------------------------------------------
(* The reducers. *)

Added(entities, id, entity) ==
    [i \in DOMAIN entities \cup {id} |-> IF i = id THEN entity ELSE entities[i]]

AssignedTwice(assignments, id, control) ==   \* mutant: nothing is forgotten
    Added(assignments, id, control)

\* A control drives one parameter: whatever it drove before is forgotten.
Assigned(assignments, id, control) ==
    [p \in {q \in DOMAIN assignments : assignments[q] # control} \cup {id} |->
        IF p = id THEN control ELSE assignments[p]]

Unassigned(assignments, id) ==
    [p \in DOMAIN assignments \ {id} |-> assignments[p]]

npos == 0    \* the position of no module: positions count from one

InsertPos(position, chain) ==
    IF position \in DOMAIN chain THEN position ELSE Len(chain) + 1

InsertModule(s, a, m, module) ==
    [s EXCEPT
        !.channels[a.chain] = InsertAt(@, InsertPos(a.position, @), m),
        !.fx_modules = Added(@, m, module),
        !.fx_ladspa_instances = IF module.kind = "ladspa" THEN @ \cup {m} ELSE @,
        !.midi_assignments =
            IF module.kind = "missing" \/ a.midi = None THEN @
            ELSE Assigned(@, m, a.midi),
        !.focused =
            IF module.kind # "missing" /\ a.show
            THEN [chain |-> a.chain, module |-> m] ELSE @]

PlaceOf(m, chain) == CHOOSE i \in DOMAIN chain : chain[i] = m

RemoveFxModuleKeepsPlace(s, c, m, erased) ==   \* mutant: no remove_erase
    [s EXCEPT !.fx_modules = [n \in DOMAIN @ \ {m} |-> @[n]],
              !.fx_ladspa_instances = IF erased THEN @ \ {m} ELSE @]

\* fx_mod.fx_instance_id is read after fx_mod was removed: whether the id
\* that is erased is still that of the module is left open (erased).
RemoveFxModule(s, c, m, erased) ==
    [s EXCEPT
        !.channels[c] = RemoveAt(@, PlaceOf(m, @)),
        !.fx_modules = [n \in DOMAIN @ \ {m} |-> @[n]],
        !.fx_ladspa_instances = IF erased THEN @ \ {m} ELSE @,
        !.midi_assignments = Unassigned(@, m)]

\* The focus moves to the next module, or to the one before the last.
NextFocused(chain, m) ==
    LET i == PlaceOf(m, chain) IN
    IF i < Len(chain) THEN chain[i + 1] ELSE chain[i - 1]

FocusAfter(s, c, m) ==
    IF s.focused.module # m THEN s.focused
    ELSE IF Len(s.channels[c]) = 1 THEN [chain |-> None, module |-> None]
    ELSE [s.focused EXCEPT !.module = NextFocused(s.channels[c], m)]

DeleteFxModule(s, c, m, erased) ==
    [RemoveFxModule(s, c, m, erased) EXCEPT !.focused = FocusAfter(s, c, m)]

RemoveMixerChannel(s, c) ==
    [s EXCEPT
        !.channels = [d \in DOMAIN @ \ {c} |-> @[d]],
        !.midi_assignments = Unassigned(@, c)]

-----------------------------------------------------------------------------
(* The engine. *)

AssignmentsHaveParams(s) == DOMAIN s.midi_assignments \subseteq Params(s)

\* Components are taken from the engine before or made from the instances;
\* the processor that learns is always new.
Built(s, instances) ==
    [open |-> TRUE, stale |-> FALSE,
     plugins |-> OfKind(s, "ladspa") \cap (instances \cup engine.plugins),
     learn |-> IF s.midi_learning # None THEN "listening" ELSE "none"]

\* A processor is made for every assignment from its parameter, which is
\* asserted to exist.  A rebuild that is skipped, the device not running, or
\* that times out leaves the engine as it was (old).
Rebuild(old, s, instances) ==
    \/ ~engine.open /\ UNCHANGED <<engine, aborted>>
    \/ engine.open /\ engine' = [old EXCEPT !.stale = TRUE] /\ UNCHANGED aborted
    \/ /\ engine.open /\ AssignmentsHaveParams(s)
       /\ engine' = Built(s, instances) /\ UNCHANGED aborted
    \/ /\ engine.open /\ ~AssignmentsHaveParams(s)
       /\ aborted' = TRUE /\ UNCHANGED engine

EngineAction(s, instances) ==
    /\ st' = s /\ m_instances' = instances
    /\ Rebuild(engine, s, instances)

-----------------------------------------------------------------------------
(* The steps of a batch. *)

NextIs(do) == ~aborted /\ pending # <<>> /\ Head(pending).do = do

InsertInternal ==
    /\ NextIs("insert_internal")
    /\ EngineAction(InsertModule(st, Head(pending), next_id,
                        [kind |-> "internal", plugin |-> None, midi |-> None]),
                    m_instances)
    /\ next_id' = next_id + 1
    /\ pending' = Tail(pending)
    /\ UNCHANGED <<fx_registry, scan>>

\* A plugin that is not found or does not load leaves a module that keeps its
\* place, and its settings for later; the engine does not learn of it.
LoadLadspa ==
    /\ NextIs("load")
    /\ LET a == Head(pending)
           Inserted(kind, midi) ==
               InsertModule(st, a, next_id,
                            [kind |-> kind, plugin |-> a.plugin, midi |-> midi])
       IN  IF a.plugin \in fx_registry \cap Loadable
           THEN EngineAction(Inserted("ladspa", None), m_instances \cup {next_id})
           ELSE /\ st' = Inserted("missing", a.midi)
                /\ UNCHANGED <<m_instances, engine, aborted>>
    /\ next_id' = next_id + 1
    /\ pending' = Tail(pending)
    /\ UNCHANGED <<fx_registry, scan>>

DeleteModuleUnloadsFirst ==    \* mutant: unload before next
    /\ NextIs("delete_module") /\ Head(pending).chain \in Channels(st)
    /\ LET m == Head(pending).module IN
       IF m \in m_instances
       THEN m_instances' = m_instances \ {m} /\ UNCHANGED <<st, engine, pending, aborted>>
       ELSE /\ EngineAction(DeleteFxModule(st, Head(pending).chain, m, TRUE), m_instances)
            /\ pending' = Tail(pending)
    /\ UNCHANGED <<fx_registry, scan, next_id>>

\* The plugin is unloaded when the engine has been rebuilt without it.
DeleteModule ==
    /\ NextIs("delete_module")
    /\ LET m == Head(pending).module
           c == Head(pending).chain
       IN  IF c \in Channels(st)
           THEN /\ \E erased \in BOOLEAN :
                       EngineAction(DeleteFxModule(st, c, m, erased), m_instances)
                /\ pending' = (IF m \in OfKind(st, "ladspa")
                               THEN <<[do |-> "unload", module |-> m]>> ELSE <<>>)
                              \o Tail(pending)
           ELSE aborted' = TRUE /\ UNCHANGED <<st, m_instances, engine, pending>>
    /\ UNCHANGED <<fx_registry, scan, next_id>>

Unload ==
    /\ NextIs("unload")
    /\ m_instances' = m_instances \ {Head(pending).module}
    /\ pending' = Tail(pending)
    /\ UNCHANGED <<st, fx_registry, engine, scan, next_id, aborted>>

AssignControl ==
    /\ NextIs("assign")
    /\ EngineAction([st EXCEPT !.midi_assignments =
                        Assigned(@, Head(pending).id, Head(pending).control)],
                    m_instances)
    /\ pending' = Tail(pending)
    /\ UNCHANGED <<fx_registry, scan, next_id>>

DeleteMixerChannel ==
    /\ NextIs("delete_channel")
    /\ EngineAction(RemoveMixerChannel(st, Head(pending).channel), m_instances)
    /\ pending' = Tail(pending)
    /\ UNCHANGED <<fx_registry, scan, next_id>>

-----------------------------------------------------------------------------
(* What the start and the scan thread dispatch. *)

Idle == ~aborted /\ pending = <<>>

SessionModule ==
    [do : {"insert_internal"}, chain : {Main}, position : {npos},
     midi : Control \cup {None}, show : {FALSE}]
    \cup [do : {"load"}, chain : {Main}, position : {npos}, plugin : Plugin,
          midi : Control \cup {None}, show : {FALSE}]

\* The saved session has no channel but the main one.
LoadSession ==
    /\ Idle /\ scan = "session"
    /\ \E fxs \in SeqOf(SessionModule, MaxSession), midi \in Control \cup {None} :
           pending' = fxs \o (IF midi = None THEN <<>>
                              ELSE <<[do |-> "assign", id |-> Main, control |-> midi]>>)
    /\ scan' = "scanning"
    /\ UNCHANGED <<st, fx_registry, m_instances, engine, next_id, aborted>>

FinalizeScan ==
    /\ Idle /\ scan = "scanning"
    /\ fx_registry' \in SUBSET Plugin
    /\ scan' = "registered"
    /\ UNCHANGED <<st, m_instances, engine, pending, next_id, aborted>>

WaitsForPlugin(c, i) == st.channels[c][i] \in OfKind(st, "missing")

MissingPlacesButFirst ==     \* mutant: the first module is skipped
    UNION {{[chain |-> c, position |-> i] :
               i \in {j \in DOMAIN st.channels[c] \ {1} : WaitsForPlugin(c, j)}} :
           c \in Channels(st)}

MissingPlaces ==
    UNION {{[chain |-> c, position |-> i] :
               i \in {j \in DOMAIN st.channels[c] : WaitsForPlugin(c, j)}} :
           c \in Channels(st)}

Before(a, b) == a.chain < b.chain \/ (a.chain = b.chain /\ a.position < b.position)

Deletion(place) ==
    [do |-> "delete_module", chain |-> place.chain,
     module |-> st.channels[place.chain][place.position]]

Replacement(place) ==
    LET module == st.fx_modules[Deletion(place).module] IN
    [do |-> "load", chain |-> place.chain, position |-> place.position,
     plugin |-> module.plugin, midi |-> module.midi, show |-> FALSE]

\* One channel after the other and one place after the other, a module is
\* deleted and its plugin is loaded into its place.
ReloadMissingPlugins ==
    /\ Idle /\ scan = "registered"
    /\ \E places \in [1..Cardinality(MissingPlaces) -> MissingPlaces] :
        /\ ToSet(places) = MissingPlaces
        /\ \A k, l \in DOMAIN places : k < l => Before(places[k], places[l])
        /\ pending' = [k \in 1..2 * Len(places) |->
                          IF k % 2 = 1 THEN Deletion(places[(k + 1) \div 2])
                          ELSE Replacement(places[k \div 2])]
    /\ scan' = "done"
    /\ UNCHANGED <<st, fx_registry, m_instances, engine, next_id, aborted>>

-----------------------------------------------------------------------------
(* What the user and the timer of the user interface dispatch. *)

User == Idle /\ scan # "session"

UserDispatches(actions) ==
    /\ User
    /\ pending' = actions
    /\ UNCHANGED <<st, fx_registry, m_instances, engine, scan, next_id, aborted>>

UserReduces(s) ==
    /\ User
    /\ EngineAction(s, m_instances)
    /\ UNCHANGED <<fx_registry, scan, pending, next_id>>

AppendInternal(c) ==
    /\ next_id <= MaxIds
    /\ UserDispatches(<<[do |-> "insert_internal", chain |-> c, position |-> npos,
                         midi |-> None, show |-> TRUE]>>)

AppendLadspa(c, p) ==
    /\ next_id <= MaxIds
    /\ p \in fx_registry
    /\ UserDispatches(<<[do |-> "load", chain |-> c, position |-> npos, plugin |-> p,
                         midi |-> None, show |-> TRUE]>>)

RemoveModule(c, m) ==
    UserDispatches(<<[do |-> "delete_module", chain |-> c, module |-> m]>>)

\* The modules are deleted first, from a chain whose id is not set.
InitiateMixerChannelDeletion(c) ==
    UserDispatches(
        [i \in DOMAIN st.channels[c] |->
            [do |-> "delete_module", chain |-> None, module |-> st.channels[c][i]]]
        \o <<[do |-> "delete_channel", channel |-> c]>>)

AddMixerChannel ==
    /\ User /\ next_id <= MaxIds
    /\ EngineAction([st EXCEPT !.channels = Added(@, next_id, <<>>)], m_instances)
    /\ next_id' = next_id + 1
    /\ UNCHANGED <<fx_registry, scan, pending>>

FocusModule(c, m) ==
    /\ User
    /\ st' = [st EXCEPT !.focused = [chain |-> c, module |-> m]]
    /\ UNCHANGED <<fx_registry, m_instances, engine, scan, pending, next_id, aborted>>

\* The focused module changes places with the one before or after it.
MoveFocusedModule(c, i, j) ==
    /\ st.focused.chain = c /\ st.channels[c][i] = st.focused.module
    /\ UserReduces([st EXCEPT !.channels[c][i] = st.channels[c][j],
                              !.channels[c][j] = st.channels[c][i]])

StartMidiLearning(p) ==
    UserReduces([st EXCEPT !.midi_learning = p])

StopMidiLearning == UserReduces([st EXCEPT !.midi_learning = None])

\* What was learned goes to the parameter that is being learned; when none
\* is, to whatever the optional holds, unless that is checked.
RequestInfoUpdate ==
    /\ User /\ engine.learn = "learned"
    /\ \/ \E c \in Control \cup {None}, p \in 0..next_id - 1 :
              /\ st.midi_learning \in {p, None}
              /\ st' = [st EXCEPT !.midi_learning = None,
                                  !.midi_assignments = IF c = None THEN @
                                                       ELSE Assigned(@, p, c)]
              /\ Rebuild([engine EXCEPT !.learn = "none"], st', m_instances)
       \/ st.midi_learning = None /\ aborted' = TRUE /\ UNCHANGED <<st, engine>>
    /\ UNCHANGED <<fx_registry, m_instances, scan, pending, next_id>>

\* A device action closes the device and destroys its engine; a new one is
\* built if the device opens.
ReopenDevice ==
    /\ User
    /\ \/ engine' = Closed /\ UNCHANGED aborted
       \/ /\ AssignmentsHaveParams(st)
          /\ engine' = [Built(st, m_instances) EXCEPT
                           !.plugins = OfKind(st, "ladspa") \cap m_instances]
          /\ UNCHANGED aborted
       \/ engine' = [Closed EXCEPT !.open = TRUE, !.stale = TRUE] /\ UNCHANGED aborted
       \/ ~AssignmentsHaveParams(st) /\ engine' = Closed /\ aborted' = TRUE
    /\ UNCHANGED <<st, fx_registry, m_instances, scan, pending, next_id>>

\* The audio thread hands over the first MIDI event it gets.
MidiEvent ==
    /\ ~aborted /\ engine.learn = "listening"
    /\ engine' = [engine EXCEPT !.learn = "learned"]
    /\ UNCHANGED <<st, fx_registry, m_instances, scan, pending, next_id, aborted>>

Edit ==
    \/ AddMixerChannel
    \/ \E c \in Channels(st) :
        \/ AppendInternal(c)
        \/ \E p \in Plugin : AppendLadspa(c, p)
        \/ \E m \in ToSet(st.channels[c]) : RemoveModule(c, m) \/ FocusModule(c, m)
        \/ \E i \in 1..Len(st.channels[c]) - 1 :
               MoveFocusedModule(c, i, i + 1) \/ MoveFocusedModule(c, i + 1, i)
        \/ c # Main /\ InitiateMixerChannelDeletion(c)

Midi ==
    \/ \E p \in Params(st) : StartMidiLearning(p)
    \/ StopMidiLearning \/ MidiEvent \/ RequestInfoUpdate

Batch ==
    \/ InsertInternal \/ LoadLadspa \/ DeleteModule \/ Unload
    \/ AssignControl \/ DeleteMixerChannel

Next ==
    \/ LoadSession \/ FinalizeScan \/ ReloadMissingPlugins
    \/ Batch \/ Edit \/ Midi \/ ReopenDevice

Spec == Init /\ [][Next]_vars

\* The audio thread answers every rebuild, and nothing is removed while its
\* parameter is being learned.
TimelyNext ==
    /\ Next
    /\ ~engine'.stale
    /\ st'.midi_learning \in Params(st') \cup {None}

TimelySpec == Init /\ [][TimelyNext]_vars

-----------------------------------------------------------------------------
(* The modules are those of the chains, each in one place of one chain,    *)
(* also in the middle of a batch.                                          *)
ChainsAgree ==
    /\ UNION {ToSet(st.channels[c]) : c \in Channels(st)} = Modules(st)
    /\ \A c \in Channels(st) :
        /\ IsInjective(st.channels[c])
        /\ \A d \in Channels(st) \ {c} :
               ToSet(st.channels[c]) \cap ToSet(st.channels[d]) = {}

ToUnload == {a.module : a \in {b \in ToSet(pending) : b.do = "unload"}}

(* The plugins that are loaded are those of the LADSPA modules and those   *)
(* about to be unloaded; the store knows each one, and none is unloaded    *)
(* while the engine runs it.                                               *)
PluginsAgree ==
    /\ m_instances = OfKind(st, "ladspa") \cup ToUnload
    /\ OfKind(st, "ladspa") \subseteq st.fx_ladspa_instances
    /\ engine.plugins \subseteq m_instances

(* What the state has selected exists, and what the engine does with it is *)
(* wanted: the focus is on a module of the chain it names or on nothing,   *)
(* and the engine learns only while the state has something to be learned, *)
(* so that a learned event finds midi_learning set.                        *)
SelectionsResolve ==
    /\ \/ st.focused = [chain |-> None, module |-> None]
       \/ /\ st.focused.chain \in Channels(st)
          /\ Contains(st.channels[st.focused.chain], st.focused.module)
    /\ engine.learn \in {"listening", "learned"} => st.midi_learning # None

(* Every MIDI assignment is of a parameter that exists, as parameter::map  *)
(* asserts when the engine is built, and no control drives two.            *)
AssignmentsResolve ==
    /\ AssignmentsHaveParams(st)
    /\ IsInjective(st.midi_assignments)

(* What the state refers to exists: selections, the learner's wish and the *)
(* MIDI assignments.                                                       *)
ReferencesResolve == SelectionsResolve /\ AssignmentsResolve

(* The reload of missing plugins: each one still to come is going to be    *)
(* loaded into the place of the module it replaces, and when it is over no *)
(* module waits for a plugin that was found and that loads.                *)
MissingIsReloaded ==
    /\ NextIs("delete_module") =>
         \A k \in DOMAIN pending \ {1} :
            (pending[k].do = "load" /\ pending[k].position # npos) =>
                /\ pending[k].position \in DOMAIN st.channels[pending[k].chain]
                /\ pending[k - 1].module = st.channels[pending[k].chain][pending[k].position]
    /\ (scan = "done" /\ pending = <<>>) =>
         \A m \in OfKind(st, "missing") :
            st.fx_modules[m].plugin \notin fx_registry \cap Loadable
=============================================================================
