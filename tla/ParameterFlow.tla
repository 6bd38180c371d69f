--------------------------- MODULE ParameterFlow ---------------------------
(***************************************************************************)
(* The values of the parameters mute and solo on their way between the     *)
(* state, which the main thread owns, and the processors of the engine     *)
(* that runs.  A value_io processor has two slots, one for each direction; *)
(* SpscSlot shows that a slot hands over the latest value.  The processor  *)
(* of a mute lives as long as its channel; the solo switches of the groups *)
(* and the processors of the solo parameters are made anew by every        *)
(* rebuild.  The factory finds the processor of a parameter by a weak      *)
(* pointer, which the last one made replaces.                              *)
(*                                                                         *)
(* A cycle of the audio thread is one step: DagExecutor shows that a       *)
(* processor runs after those it reads from.                               *)
(***************************************************************************)
EXTENDS Naturals

CONSTANTS
    Channel,        \* the channels that are routed
    Target,         \* what they can be routed to
    Owner,          \* the targets that mix: their channels form a solo group
    MidiParam,      \* the parameters that a MIDI control is assigned to
    MaxChanges,     \* bound on the values set and the events played
    MaxRebuilds,    \* bound on the rebuilds
    None            \* an empty slot, an expired pointer, no group

VARIABLES
    value,          \* the values in the state
    route,          \* where each channel is sent, in the state
    main,           \* "idle", or "waiting" for the swap of the executor
    failed,         \* the last rebuild failed
    found,          \* the processor that the factory finds for a parameter
    in_value,       \* the slots towards the engine, of each processor
    out_value,      \* the slots towards the state
    running,        \* the generation and the groups of the engine that runs
    m_solo_group,   \* its solo switches: who is solo, as they know it
    m_last,         \* the last inputs of each channel's mute_solo processor
    crossed,        \* parameters set while a value from the engine was unread
    changes, rebuilds   \* the bounded counters

flowVars == <<value, route, main, failed, found, in_value, out_value, running,
          m_solo_group, m_last, crossed, changes, rebuilds>>

Mute(c) == <<"mute", c>>
Solo(c) == <<"solo", c>>
Param == {Mute(c) : c \in Channel} \cup {Solo(c) : c \in Channel}

MuteProc(c) == <<"mute", c, 0>>
SoloProc(c, generation) == <<"solo", c, generation>>
Proc == {MuteProc(c) : c \in Channel}
            \cup {SoloProc(c, generation) : c \in Channel, generation \in {0, 1}}

Groups(out) == [c \in Channel |-> IF out[c] \in Owner THEN out[c] ELSE None]
Members(groups, owner) == {c \in Channel : groups[c] = owner}
Other(generation) == 1 - generation

\* MIDI controls mutes and solos; an empty slot holds none of the values, an
\* expired pointer none of the processors, and no target is no group.
ASSUME FlowAssumption ==
    /\ MidiParam \subseteq Param
    /\ None \notin BOOLEAN /\ None \notin Proc /\ None \notin Owner

\* make_parameter_processor of the channels and of the solo switches.
Made(groups, generation) ==
    [p \in Param |-> IF p[1] = "mute" THEN MuteProc(p[2])
                     ELSE IF groups[p[2]] # None THEN SoloProc(p[2], generation)
                     ELSE None]

\* initialize: every processor that is found is set from the state.
Initialized(slots, finds) ==
    [proc \in Proc |-> IF \E p \in Param : finds[p] = proc
                       THEN value[CHOOSE p \in Param : finds[p] = proc]
                       ELSE slots[proc]]

\* The engine has been built and its executor taken, nothing has run.
FlowInit ==
    /\ value \in [Param -> BOOLEAN]
    /\ route \in [Channel -> Target]
    /\ main = "idle" /\ failed = FALSE
    /\ running = [generation |-> 0, groups |-> Groups(route)]
    /\ found = Made(Groups(route), 0)
    /\ in_value = Initialized([proc \in Proc |-> None], found)
    /\ out_value = [proc \in Proc |-> None]
    /\ m_solo_group = [c \in Channel |-> FALSE]
    /\ m_last = [c \in Channel |-> [mute |-> FALSE, muted_by_solo |-> FALSE]]
    /\ crossed = {}
    /\ changes = 0 /\ rebuilds = 0

Unread(p) == found[p] # None /\ out_value[found[p]] # None

\* Of the parameters P, those that cross a value on its way to the state.
Crossed(P) == (crossed \ P) \cup {p \in P : Unread(p)}

\* set_parameter_value, from the user interface.
SetParameter(p, x) ==
    /\ main = "idle" /\ changes < MaxChanges
    /\ value' = [value EXCEPT ![p] = x]
    /\ in_value' = IF found[p] = None THEN in_value
                   ELSE [in_value EXCEPT ![found[p]] = x]
    /\ crossed' = Crossed({p})
    /\ changes' = changes + 1
    /\ UNCHANGED <<route, main, failed, found, out_value, running, m_solo_group, m_last, rebuilds>>

\* request_parameters_update, and the update_parameter_values it leads to.
RequestUpdate(p) ==
    /\ main = "idle" /\ Unread(p)
    /\ value' = [value EXCEPT ![p] = out_value[found[p]]]
    /\ out_value' = [out_value EXCEPT ![found[p]] = None]
    /\ UNCHANGED <<route, main, failed, found, in_value, running, m_solo_group, m_last,
                   crossed, changes, rebuilds>>

\* A channel is sent elsewhere, and the engine is rebuilt: the components are
\* made, the processors that are found get the values of the state, and the
\* executor is offered.
BuildEngine(c, target) ==
    /\ main = "idle" /\ rebuilds < MaxRebuilds
    /\ route' = [route EXCEPT ![c] = target]
    /\ LET made == Made(Groups(route'), Other(running.generation))
       IN  found' = [p \in Param |-> IF made[p] # None THEN made[p] ELSE found[p]]
    /\ in_value' = Initialized(in_value, found')
    /\ crossed' = Crossed({Mute(d) : d \in Channel}) \ {Solo(d) : d \in Channel}
    /\ main' = "waiting" /\ rebuilds' = rebuilds + 1
    /\ UNCHANGED <<value, failed, out_value, running, m_solo_group, m_last, changes>>

\* The processors of a generation are destroyed.
Expire(generation) ==
    /\ found' = [p \in Param |-> IF found[p] = SoloProc(p[2], generation) THEN None ELSE found[p]]
    /\ in_value' = [proc \in Proc |-> IF \E c \in Channel : proc = SoloProc(c, generation)
                                      THEN None ELSE in_value[proc]]
    /\ out_value' = [proc \in Proc |-> IF \E c \in Channel : proc = SoloProc(c, generation)
                                       THEN None ELSE out_value[proc]]

\* The audio thread took the executor: its switches know of no solo yet.
SwapSucceeded ==
    /\ main = "waiting"
    /\ running' = [generation |-> Other(running.generation), groups |-> Groups(route)]
    /\ m_solo_group' = [c \in Channel |-> FALSE]
    /\ Expire(running.generation)
    /\ main' = "idle" /\ failed' = FALSE
    /\ UNCHANGED <<value, route, m_last, crossed, changes, rebuilds>>

SwapFailed ==
    /\ main = "waiting"
    /\ Expire(Other(running.generation))
    /\ main' = "idle" /\ failed' = TRUE
    /\ UNCHANGED <<value, route, running, m_solo_group, m_last, crossed, changes, rebuilds>>

-----------------------------------------------------------------------------
\* The processors that the running executor runs.
Wired(p) == Made(running.groups, running.generation)[p]

\* value_io_processor: first the value that was set, then the MIDI events;
\* midi is a function from some parameters to the values of their events.
\* Mutant: the value that was set comes after the MIDI events.
ReceivedSetLast(midi) ==
    [p \in {q \in Param : Wired(q) # None /\ (in_value[Wired(q)] # None \/ q \in DOMAIN midi)} |->
        IF in_value[Wired(p)] # None THEN in_value[Wired(p)] ELSE midi[p]]

Received(midi) ==
    [p \in {q \in Param : Wired(q) # None /\ (in_value[Wired(q)] # None \/ q \in DOMAIN midi)} |->
        IF p \in DOMAIN midi THEN midi[p] ELSE in_value[Wired(p)]]

\* solo_switch_processor: a group with an event tells each of its members.
Soloed(events) ==
    [c \in Channel |-> IF Solo(c) \in DOMAIN events THEN events[Solo(c)] ELSE m_solo_group[c]]

\* Mutant: a group tells only the members whose solo was set.
InformedThemselves(events) ==
    {c \in Channel : running.groups[c] # None /\ Solo(c) \in DOMAIN events}

Informed(events) ==
    {c \in Channel : /\ running.groups[c] # None
                     /\ \E d \in Members(running.groups, running.groups[c]) : Solo(d) \in DOMAIN events}

MutedBySolo(soloed, c) ==
    ~soloed[c] /\ \E d \in Members(running.groups, running.groups[c]) : soloed[d]

\* mute_solo_processor, an event_converter_processor, keeps what came last.
Converted(events, informed) ==
    [c \in Channel |->
        [mute |-> IF Mute(c) \in DOMAIN events THEN events[Mute(c)] ELSE m_last[c].mute,
         muted_by_solo |-> IF c \in informed THEN MutedBySolo(Soloed(events), c)
                           ELSE m_last[c].muted_by_solo]]

\* One cycle of the engine that runs, with the MIDI events of one control.
Cycle(midi) ==
    /\ LET events == Received(midi)
       IN  /\ m_last' = Converted(events, Informed(events))
           /\ m_solo_group' = Soloed(events)
    /\ in_value' = [proc \in Proc |-> IF \E p \in Param : Wired(p) = proc THEN None ELSE in_value[proc]]
    /\ out_value' = [proc \in Proc |-> IF \E p \in DOMAIN midi : Wired(p) = proc
                                       THEN midi[CHOOSE p \in DOMAIN midi : Wired(p) = proc]
                                       ELSE out_value[proc]]
    /\ crossed' = crossed \ DOMAIN midi
    /\ UNCHANGED <<value, route, main, failed, found, running, rebuilds>>

PlayCycle ==
    /\ \E p \in Param : Wired(p) # None /\ in_value[Wired(p)] # None
    /\ Cycle([p \in {} |-> FALSE])
    /\ UNCHANGED changes

PlayMidi(p, x) ==
    /\ changes < MaxChanges /\ Wired(p) # None
    /\ Cycle([q \in {p} |-> x])
    /\ changes' = changes + 1

FlowNext ==
    \/ \E p \in Param, x \in BOOLEAN : SetParameter(p, x)
    \/ \E p \in Param : RequestUpdate(p)
    \/ \E c \in Channel, target \in Target : BuildEngine(c, target)
    \/ SwapSucceeded \/ SwapFailed
    \/ PlayCycle
    \/ \E p \in MidiParam, x \in BOOLEAN : PlayMidi(p, x)

FlowSpec == FlowInit /\ [][FlowNext]_flowVars
-----------------------------------------------------------------------------
\* Nothing is under way between the state and the engine that runs.
Quiet ==
    /\ main = "idle" /\ ~failed
    /\ \A p \in Param : found[p] # None => in_value[found[p]] = None /\ out_value[found[p]] = None

\* The state and the engine come to agree on every parameter, through user
\* interface, MIDI and rebuilds, unless a value was set while one from the
\* engine was on its way, or the last rebuild failed: of value_io_processor
\* and parameter_processor_factory.
ParametersAgree ==
    Quiet => \A c \in Channel :
        /\ Mute(c) \notin crossed => m_last[c].mute = value[Mute(c)]
        /\ running.groups[c] # None /\ Solo(c) \notin crossed => m_solo_group[c] = value[Solo(c)]

\* A channel in a group is silenced by the solo of others exactly when one of
\* them is solo and it is not, after every regrouping: of solo_switch_processor,
\* which is new, and mute_solo_processor, which is not.
SoloGroupsAgree ==
    Quiet => \A c \in Channel : running.groups[c] # None =>
        m_last[c].muted_by_solo = MutedBySolo(m_solo_group, c)
=============================================================================
