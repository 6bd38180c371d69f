--------------------------- MODULE SessionRestore ---------------------------
(***************************************************************************)
(* What survives a restart: the mixer is written to the session file and   *)
(* the device buses to the configuration file when the application ends,   *)
(* and are read, in the other order of trust, when it starts.  A channel   *)
(* is known by its place in the mixer, a route in the file by a name only. *)
(* Between two runs plugins and devices come and go, and a run may end     *)
(* with a file opened, which truncates it, and not yet written.  One       *)
(* parameter stands for volume, pan and mute, one for those of an effect.  *)
(***************************************************************************)
EXTENDS Naturals, Sequences

LOCAL INSTANCE SequencesExt
LOCAL INSTANCE FiniteSetsExt
LOCAL INSTANCE FiniteSets

CONSTANTS
    Starts,     \* states of the mixer the user may have arrived at
    Internal,   \* effects of the program itself
    Plugin,     \* LADSPA plugins
    None        \* no MIDI control; no channel of a device

VARIABLES
    phase,          \* "down" and the steps of a start, "up" and those of an end
    channels,       \* the channels of the mixer, by their place; Main is at 0
    buses,          \* device buses: name, direction and channel of the device
    midi,           \* the MIDI control of a parameter
    plugins,        \* the plugins that can be loaded in this run
    config_file, session_file,
    fresh           \* the state is what the start has made of the files

mixerVars == <<channels, buses, midi>>
vars == <<phase, mixerVars, plugins, config_file, session_file, fresh>>

MainPlace == 0
NoRoute == <<"default">>

\* A file holds its content, or nothing that can be read.
Unreadable == <<>>

\* A start without files: a main channel, and no route.
InitialChannels ==
    [i \in {MainPlace} |-> [name |-> "Main", bus_type |-> "stereo", in |-> NoRoute,
                            out |-> NoRoute, parameter |-> 0, fx_chain |-> <<>>]]

Init ==
    /\ phase = "up"
    /\ \E s \in Starts :
        channels = s.channels /\ buses = s.buses /\ midi = s.midi
    /\ plugins = Plugin
    /\ config_file = Unreadable /\ session_file = Unreadable
    /\ fresh = FALSE

-----------------------------------------------------------------------------
\* What is written.
Assigned(p) == IF p \in DOMAIN midi THEN midi[p] ELSE None

\* A plugin that is missing keeps its settings beside the parameters.
ExportFx(i, k) ==
    LET fx == channels[i].fx_chain[k]
    IN  [type |-> fx.type, preset |-> fx.preset,
         midi |-> IF fx.loaded THEN Assigned(<<i, k>>) ELSE fx.midi]

ExportIo(addr) ==
    CASE addr[1] = "channel" -> <<"channel", channels[addr[2]].name>>
      [] addr[1] = "bus"     -> <<"device", buses[addr[2]].name>>
      [] addr[1] = "missing" -> <<"device", addr[2]>>
      [] addr = NoRoute      -> NoRoute

ExportChannel(i) ==
    [name |-> channels[i].name, bus_type |-> channels[i].bus_type,
     parameter |-> channels[i].parameter, midi |-> Assigned(<<i>>),
     fx_chain |-> [k \in DOMAIN channels[i].fx_chain |-> ExportFx(i, k)],
     in |-> ExportIo(channels[i].in), out |-> ExportIo(channels[i].out)]

ExportSession == [i \in DOMAIN channels |-> ExportChannel(i)]

\* The lists of the inputs and of the outputs, one after the other.
ExportBuses ==
    LET order == SetToSortSeq(DOMAIN buses, <)
    IN  [i \in DOMAIN order |-> buses[order[i]]]

files == <<config_file, session_file>>

\* The application has left its event loop.  A file that cannot be opened is
\* left as it was; one that is, is empty until it is written.
OpenConfig ==
    /\ phase = "up"
    /\ \/ phase' = "open session" /\ UNCHANGED config_file
       \/ phase' = "save config" /\ config_file' = Unreadable
    /\ fresh' = FALSE
    /\ UNCHANGED <<mixerVars, plugins, session_file>>

SaveConfig ==
    /\ phase = "save config"
    /\ phase' = "open session"
    /\ config_file' = <<ExportBuses>>
    /\ UNCHANGED <<mixerVars, plugins, session_file, fresh>>

OpenSession ==
    /\ phase = "open session"
    /\ \/ phase' = "down" /\ UNCHANGED session_file
       \/ phase' = "save session" /\ session_file' = Unreadable
    /\ UNCHANGED <<mixerVars, plugins, config_file, fresh>>

SaveSession ==
    /\ phase = "save session"
    /\ phase' = "down"
    /\ session_file' = <<ExportSession>>
    /\ UNCHANGED <<mixerVars, plugins, config_file, fresh>>

\* The program or the machine stops, at any moment.
Crash ==
    /\ phase # "down"
    /\ phase' = "down"
    /\ fresh' = FALSE
    /\ UNCHANGED <<mixerVars, plugins, files>>

-----------------------------------------------------------------------------
\* A start: the plugins that are installed now are known before the files are
\* read, and so is the device, with so many channels, if it is there.
ClearedChannel(ch, num_channels) == IF ch # None /\ ch > num_channels THEN None ELSE ch

config == config_file[1]

BusesMade(num_channels) ==
    [j \in DOMAIN config |-> [config[j] EXCEPT !.ch = ClearedChannel(@, num_channels)]]

LoadConfig(available, num_channels) ==
    /\ phase = "down"
    /\ phase' = "load session"
    /\ plugins' = available
    /\ channels' = InitialChannels
    /\ midi' = <<>>
    /\ buses' = IF config_file = Unreadable THEN <<>> ELSE BusesMade(num_channels)
    /\ fresh' = FALSE
    /\ UNCHANGED files

session == session_file[1]

AddedChannel(name, bus_type) ==
    [name |-> name, bus_type |-> bus_type, in |-> NoRoute, out |-> <<"channel", MainPlace>>,
     parameter |-> 0, fx_chain |-> <<>>]

ChannelsMade ==
    [i \in DOMAIN session |->
        IF i = MainPlace THEN [channels[MainPlace] EXCEPT !.name = session[MainPlace].name]
        ELSE AddedChannel(session[i].name, session[i].bus_type)]

\* The file is read, and the channels are made, before the rest is computed
\* from the state that has them.  An exception leaves the start without them.
LoadSession ==
    /\ phase = "load session"
    /\ IF session_file = Unreadable
       THEN phase' = "up" /\ UNCHANGED channels
       ELSE phase' = "configure" /\ channels' = ChannelsMade
    /\ UNCHANGED <<buses, midi, plugins, files, fresh>>

\* The first of those that have the name, in the order in which they were made.
FindByName(list, name) ==
    LET found == {i \in DOMAIN list : list[i].name = name}
    IN  IF found = {} THEN None ELSE Min(found)

\* Mutant of IoAddress: what is looked up is there only after the batch.
IoAddressBeforeBatch(io) ==
    CASE io[1] = "device"  -> LET bus == FindByName(buses, io[2])
                              IN  IF bus = None THEN <<"missing", io[2]>> ELSE <<"bus", bus>>
      [] io[1] = "channel" -> IF io[2] = "Main" THEN <<"channel", MainPlace>> ELSE NoRoute
      [] io = NoRoute      -> NoRoute

IoAddress(io) ==
    CASE io[1] = "device"  -> LET bus == FindByName(buses, io[2])
                              IN  IF bus = None THEN <<"missing", io[2]>> ELSE <<"bus", bus>>
      [] io[1] = "channel" -> LET ch == FindByName(channels, io[2])
                              IN  IF ch = None THEN NoRoute ELSE <<"channel", ch>>
      [] io = NoRoute      -> NoRoute

\* A control that is given to a parameter is taken from another one.
MidiAssign(m, a) ==
    [p \in {q \in DOMAIN m : m[q] # a.control} \cup {a.param} |->
        IF p = a.param THEN a.control ELSE m[p]]

Loaded(type) == type \in Internal \cup plugins

RestoredFx(fx) ==
    [type |-> fx.type, preset |-> fx.preset, loaded |-> Loaded(fx.type),
     midi |-> IF Loaded(fx.type) THEN None ELSE fx.midi]

RestoredChain(i) ==
    [k \in DOMAIN session[i].fx_chain |-> RestoredFx(session[i].fx_chain[k])]

\* The batch configures the channels in their order, and Main after them.
BatchOrder ==
    LET n == Cardinality(DOMAIN session) IN [i \in 1 .. n |-> i % n]

\* The assignments that are made for the effects of channel i.
FxAssignments(i) ==
    LET chain == session[i].fx_chain
    IN  FlattenSeq([k \in DOMAIN chain |->
            IF Loaded(chain[k].type) /\ chain[k].midi # None
            THEN <<[param |-> <<i, k>>, control |-> chain[k].midi]>> ELSE <<>>])

ChannelAssignments(i) ==
    IF session[i].midi = None THEN <<>>
    ELSE <<[param |-> <<i>>, control |-> session[i].midi]>>

Configure ==
    /\ phase = "configure"
    /\ phase' = "up"
    /\ channels' =
        [i \in DOMAIN channels |->
            [channels[i] EXCEPT
                !.parameter = session[i].parameter,
                !.fx_chain = RestoredChain(i),
                !.in = IoAddress(session[i].in),
                !.out = IoAddress(session[i].out)]]
    /\ LET of(Assignments(_)) ==
            FlattenSeq([n \in DOMAIN BatchOrder |-> Assignments(BatchOrder[n])])
       IN  midi' = FoldLeft(MidiAssign, <<>>, of(FxAssignments) \o of(ChannelAssignments))
    /\ fresh' = TRUE
    /\ UNCHANGED <<buses, plugins, files>>

-----------------------------------------------------------------------------
\* One thing the user may do between two saves: a device bus is deleted, and
\* what used it waits for its name.
DeleteBus(j) ==
    LET Waiting(addr) == IF addr = <<"bus", j>> THEN <<"missing", buses[j].name>> ELSE addr
    IN  /\ phase = "up"
        /\ buses' = [i \in DOMAIN buses \ {j} |-> buses[i]]
        /\ channels' = [i \in DOMAIN channels |->
                [channels[i] EXCEPT !.in = Waiting(@), !.out = Waiting(@)]]
        /\ fresh' = FALSE
        /\ UNCHANGED <<phase, midi, plugins, files>>

Next ==
    \/ OpenConfig \/ SaveConfig \/ OpenSession \/ SaveSession \/ Crash
    \/ \E available \in SUBSET Plugin, num_channels \in {0, 2} :
        LoadConfig(available, num_channels)
    \/ LoadSession \/ Configure
    \/ \E j \in DOMAIN buses : DeleteBus(j)

Spec == Init /\ [][Next]_vars

-----------------------------------------------------------------------------
\* What the files name can be told apart: no two channels share a name, no two
\* device buses, no route goes by the name of a bus of the other direction, and
\* no two parameters have the same control.
NamesDiffer(list) == \A i, j \in DOMAIN list : list[i].name = list[j].name => i = j

Controls(ses) ==
    {<<<<i>>, ses[i].midi>> : i \in DOMAIN ses}
        \cup UNION {{<<<<i, k>>, ses[i].fx_chain[k].midi>> : k \in DOMAIN ses[i].fx_chain} :
                        i \in DOMAIN ses}

Unambiguous ==
    /\ NamesDiffer(session) /\ NamesDiffer(buses)
    /\ \A i \in DOMAIN session, j \in DOMAIN buses :
        /\ session[i].in = <<"device", buses[j].name>> => buses[j].dir = "input"
        /\ session[i].out = <<"device", buses[j].name>> => buses[j].dir = "output"
    /\ \A a, b \in Controls(session) : a[2] = b[2] => a = b \/ a[2] = None

\* A start brings back the mixer that was saved last, the settings of plugins
\* that are missing now included, whatever is missing in this run or was in the
\* one that saved it; and no channel waits for a device bus that is there.
SessionComesBack ==
    fresh /\ phase = "up" /\ Unambiguous =>
        /\ ExportSession = session
        /\ \A i \in DOMAIN channels, j \in DOMAIN buses :
            <<"missing", buses[j].name>> \notin {channels[i].in, channels[i].out}
=============================================================================
