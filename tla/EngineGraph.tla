---------------------------- MODULE EngineGraph ----------------------------
(***************************************************************************)
(* What a rebuild of the audio engine makes of a mixer: the components of  *)
(* its channels, effects and solo groups, the graph of processors that     *)
(* make_graph wires from them, the graph that finalize_graph leaves when   *)
(* the processors that only pass audio on are bypassed and audio that      *)
(* meets is mixed, and the dag of jobs that graph_to_dag makes of that.    *)
(*                                                                         *)
(* A processor is a tuple that begins with its type name.  An endpoint is  *)
(* <<processor, port>>, a wire <<endpoint, endpoint>>.  remove_identities  *)
(* goes over a map ordered by the addresses of the sources: a configuration *)
(* says in which order those of its owners lie.                            *)
(***************************************************************************)
EXTENDS IoGraph, Naturals, Sequences, FiniteSets, SequencesExt

CONSTANTS
    Configs,    \* the mixers that an engine is built from, see IsConfig
    Default,    \* the address of no device and no channel
    Missing     \* the address of a device that is missing

VARIABLES
    config,     \* the part of the state that the engine is built from
    pc,         \* where rebuild is
    audio,      \* the audio wires
    event,      \* the event wires
    id_wires,   \* the wires of identity processors that are left
    new_wires,  \* the wires that bypass identity processors
    children    \* the dag: the children of each job

vars == <<config, pc, audio, event, id_wires, new_wires, children>>

Channels(cfg) == DOMAIN cfg.channels
NumChannels(type) == IF type = "mono" THEN 1 ELSE 2

\* What the runtime guarantees of a mixer: MixerRouting has the proofs, and
\* the one way to a cycle that it leaves open is excluded here.
IsConfig(cfg) ==
    /\ ~HasCycle(IoChildren(cfg.channels, Default))
    /\ \A c \in Channels(cfg) :
          /\ cfg.channels[c].in # c /\ cfg.channels[c].out # c
          /\ cfg.channels[c].bus_type = "mono" =>
                /\ cfg.channels[c].in \notin Channels(cfg)
                /\ \A n \in Channels(cfg) : cfg.channels[n].out # c

Init ==
    /\ config \in {cfg \in Configs : IsConfig(cfg)}
    /\ pc = "make"
    /\ audio = {} /\ event = {} /\ id_wires = {} /\ new_wires = {}
    /\ children = <<>>

-----------------------------------------------------------------------------
\* Components.  Each has endpoints for audio and events, and inner wires.
Component(in, out, event_in, inner_audio, inner_event) ==
    [in |-> in, out |-> out, event_in |-> event_in,
     audio |-> inner_audio, event |-> inner_event]

Wires(src, dst) == {<<src[k], dst[k]>> : k \in DOMAIN src \cap DOMAIN dst}

Ports(proc, n) == [k \in 1 .. n |-> <<proc, k - 1>>]
Each(procs) == [k \in DOMAIN procs |-> <<procs[k], 0>>]

Param(owner, key) == <<"value_io", owner, key, 0>>
Pass(owner, role, k) == <<"identity", owner, role, k>>

Identity(owner, n) ==
    LET procs == Each([k \in 1 .. n |-> Pass(owner, "in", k)])
    IN  Component(procs, procs, <<>>, {}, {})

Amplifier(owner, role, n) ==
    LET gain == <<"smooth", owner, role, 0>>
        amps == Each([k \in 1 .. n |-> <<"multiply", owner, role, k>>])
    IN  Component(amps, amps, Ports(gain, 1),
                  {<< <<gain, 0>>, <<amps[k][1], 1>> >> : k \in 1 .. n}, {})

SplitAmplifier(owner, role, n) ==
    LET gains == Each([k \in 1 .. n |-> <<"smooth", owner, role, k>>])
        amps == Each([k \in 1 .. n |-> <<"multiply", owner, role, k>>])
    IN  Component(amps, amps, gains,
                  {<<gains[k], <<amps[k][1], 1>> >> : k \in 1 .. n}, {})

\* A mono input goes to both sides of the amplifier.
VolumePan(owner) ==
    LET param == <<"convert", owner, "volume_pan", 0>>
        amp == SplitAmplifier(owner, "volume_pan", 2)
        input == <<Pass(owner, "pan", 1), 0>>
    IN  Component(<<input>>, amp.out, Ports(param, 2),
                  amp.audio \cup Wires(<<input, input>>, amp.in),
                  Wires(Ports(param, 2), amp.event_in))

VolumeStereoBalance(owner) ==
    LET param == <<"convert", owner, "volume_balance", 0>>
        amp == SplitAmplifier(owner, "volume_balance", 2)
    IN  Component(amp.in, amp.out, Ports(param, 2), amp.audio,
                  Wires(Ports(param, 2), amp.event_in))

MuteSolo(owner) ==
    LET gain == <<"convert", owner, "mute_solo", 0>>
        amp == Amplifier(owner, "mute", 2)
    IN  Component(amp.in, amp.out, Ports(gain, 2), amp.audio,
                  Wires(Ports(gain, 1), amp.event_in))

\* The event outputs are those of the converters to stereo levels.
StereoLevelMeter(owner) ==
    LET meters == Each([k \in 1 .. 2 |-> <<"level_meter", owner, "", k>>])
        levels(key) == Ports(<<"convert", owner, key, 0>>, 2)
        sources(port) == [k \in 1 .. 2 |-> <<meters[k][1], port>>]
    IN  Component(meters, <<>>, <<>>, {},
                  Wires(sources(0), levels("peak_level"))
                    \cup Wires(sources(1), levels("rms_level")))

MixerChannelInput(c, bus_type) == Identity(c, NumChannels(bus_type))

MixerChannelOutput(c, bus_type) ==
    LET volume == IF bus_type = "mono" THEN VolumePan(c) ELSE VolumeStereoBalance(c)
        mute == MuteSolo(c)
        meter == StereoLevelMeter(c)
        level(key) == << <<"convert", c, key, 0>>, 0 >>
    IN  Component(volume.in, mute.out, <<mute.event_in[2]>>,
            UNION {volume.audio, mute.audio, meter.audio,
                   Wires(volume.out, mute.in), Wires(volume.out, meter.in)},
            UNION {volume.event, mute.event, meter.event,
                   Wires(<< <<Param(c, "volume"), 0>>, <<Param(c, "pan"), 0>> >>, volume.event_in),
                   Wires(<< <<Param(c, "mute"), 0>> >>, mute.event_in),
                   {<<level(key), <<Param(c, key), 0>> >> : key \in {"peak_level", "rms_level"}}})

\* The members of a group are the channels that send to one channel.
SoloGroup(cfg, owner) == {c \in Channels(cfg) : cfg.channels[c].out = owner}

SoloSwitch(owner, group) ==
    LET proc == <<"solo_switch", owner, "", 0>>
        params == [k \in DOMAIN group |-> <<Param(group[k], "solo"), 0>>]
    IN  Component(<<>>, <<>>, <<>>, {}, Wires(params, Ports(proc, Len(group))))

-----------------------------------------------------------------------------
\* The components of effects; a module stands on the bus type of its channel.
Stream(owner, n) ==
    LET ids == Each([k \in 1 .. n |-> Pass(owner, "stream", k)])
    IN  Component(ids, ids, <<>>, Wires(ids, Ports(<<"stream", owner, "", 0>>, n)), {})

Tool(m, n) ==
    LET amp == Amplifier(m, "tool", n)
    IN  Component(amp.in, amp.out, amp.event_in, amp.audio,
                  Wires(<< <<Param(m, "gain"), 0>> >>, amp.event_in))

Filter(m, n) ==
    LET params == << <<Param(m, "type"), 0>>, <<Param(m, "cutoff"), 0>>, <<Param(m, "res"), 0>> >>
        coeffs == <<"convert", m, "coeffs", 0>>
        input == Each([k \in 1 .. n |-> Pass(m, "input", k)])
        filter == Each([k \in 1 .. n |-> <<"filter", m, "", k>>])
        in_out == Stream(m, 2 * n)
    IN  Component(input, filter, params,
            UNION {in_out.audio, Wires(input, filter),
                   Wires(input \o filter, in_out.in)},
            Wires(params, Ports(coeffs, 3)) \cup {<< <<coeffs, 0>>, f>> : f \in ToSet(filter)})

\* A plugin of n channels, with one parameter.
LadspaFx(m, n) ==
    LET fx == <<"ladspa", m, "", 1>>
    IN  Component(Ports(fx, n), Ports(fx, n), Ports(fx, 1), {},
                  {<< <<Param(m, "control"), 0>>, <<fx, 0>> >>})

\* Two instances of a mono plugin share their parameters.
StereoFromMono(m) ==
    LET fx == Each([k \in 1 .. 2 |-> <<"ladspa", m, "", k>>])
    IN  Component(fx, fx, fx, {}, {<< <<Param(m, "control"), 0>>, f>> : f \in ToSet(fx)})

\* make_fx of the module fx_mod with id m, as a sequence of at most one
\* component: none if it is bypassed, unavailable, or of other channels.
MakeFx(m, fx_mod, bus_type) ==
    LET n == NumChannels(bus_type)
    IN  CASE fx_mod.bypassed \/ fx_mod.kind = "unavailable" -> <<>>
          [] fx_mod.kind = "tool" -> <<Tool(m, n)>>
          [] fx_mod.kind = "filter" -> <<Filter(m, n)>>
          [] fx_mod.kind \in {"scope", "spectrum"} -> <<Stream(m, n)>>
          [] fx_mod.kind = "ladspa_mono" ->
                <<IF n = 1 THEN LadspaFx(m, 1) ELSE StereoFromMono(m)>>
          [] fx_mod.kind = "ladspa_stereo" -> IF n = 2 THEN <<LadspaFx(m, 2)>> ELSE <<>>

FxChainComponents(cfg, c) ==
    FlattenSeq([k \in DOMAIN cfg.channels[c].fx_chain |->
        LET m == cfg.channels[c].fx_chain[k]
        IN  MakeFx(m, cfg.modules[m], cfg.channels[c].bus_type)])
-----------------------------------------------------------------------------
\* The wires of make_graph.  Device channels count from 1, and 0 is none; a
\* mono bus has the same channel on both sides.
DeviceInput(k) == <<"device_in", "", "", k>>
DeviceOutput(k) == <<"device_out", "", "", k>>
Clip(k) == <<"clip", "", "", k>>
Recorder(c) == <<"stream", c, "recorder", 0>>

Buses(cfg) == DOMAIN cfg.buses
ChannelInput(cfg, c) == MixerChannelInput(c, cfg.channels[c].bus_type)
ChannelOutput(cfg, c) == MixerChannelOutput(c, cfg.channels[c].bus_type)

ConnectMixerInput(cfg, c) ==
    LET source == cfg.channels[c].in
        to == ChannelInput(cfg, c).in
    IN  CASE source \in Channels(cfg) -> Wires(ChannelOutput(cfg, source).out, to)
          [] source \in Buses(cfg) ->
                {<< <<DeviceInput(cfg.buses[source][k]), 0>>, to[k]>> :
                    k \in {i \in DOMAIN to : cfg.buses[source][i] # 0}}
          [] OTHER -> {}

ConnectMixerOutput(cfg, c) ==
    LET target == cfg.channels[c].out
        from == ChannelOutput(cfg, c).out
    IN  CASE target \in Channels(cfg) ->
                IF Mixes(cfg.channels, target, Default)
                THEN Wires(from, ChannelInput(cfg, target).in) ELSE {}
          [] target \in Buses(cfg) ->
                UNION {{<<from[k], <<Clip(cfg.buses[target][k]), 0>> >>,
                        << <<Clip(cfg.buses[target][k]), 0>>,
                           <<DeviceOutput(cfg.buses[target][k]), 0>> >>} :
                    k \in {i \in 1 .. 2 : cfg.buses[target][i] # 0}}
          [] OTHER -> {}

\* The effects between the input and the output of a channel; a recorder
\* takes what leaves the last of them.
ConnectFxChain(cfg, c) ==
    LET chain == <<ChannelInput(cfg, c)>> \o FxChainComponents(cfg, c)
    IN  UNION {comp.audio : comp \in ToSet(chain)}
            \cup UNION {Wires(chain[k].out, chain[k + 1].in) : k \in 1 .. Len(chain) - 1}
            \cup Wires(Last(chain).out, ChannelOutput(cfg, c).in)
            \cup IF c \in cfg.recorded
                 THEN Wires(Last(chain).out, Ports(Recorder(c), Len(Last(chain).out)))
                 ELSE {}

SoloGroups(cfg) == {n \in Channels(cfg) : SoloGroup(cfg, n) # {}}

ConnectSoloGroups(cfg) ==
    UNION {LET group == SetToSeq(SoloGroup(cfg, owner))
               member_inputs == [k \in DOMAIN group |-> ChannelOutput(cfg, group[k]).event_in[1]]
           IN  SoloSwitch(owner, group).event
                   \cup Wires(Ports(<<"solo_switch", owner, "", 0>>, Len(group)), member_inputs) :
           owner \in SoloGroups(cfg)}

MakeGraphAudio(cfg) ==
    UNION {UNION {ChannelOutput(cfg, c).audio, ConnectMixerInput(cfg, c),
                  ConnectFxChain(cfg, c), ConnectMixerOutput(cfg, c)} : c \in Channels(cfg)}

\* The event wires of the components.
ComponentsEvent(cfg) ==
    UNION {ChannelOutput(cfg, c).event
               \cup UNION {comp.event : comp \in ToSet(FxChainComponents(cfg, c))} :
           c \in Channels(cfg)}

\* The processor of a parameter is found while it lives, and the components
\* of the engine that is replaced still hold theirs.
FindableParams(cfg) ==
    cfg.midi.last \cup {w[1][1] : w \in ComponentsEvent(cfg) \cup ConnectSoloGroups(cfg)}

ConnectMidi(cfg) ==
    LET midi_in == << <<"midi_input", "", "", 0>>, 0>>
        learn(port) == << <<"midi_learn", "", "", 0>>, port>>
        assign(port) == << <<"midi_assign", "", "", 0>>, port>>
        assigned == cfg.midi.assigned
        convert(k) == << <<"midi_cc", assigned[k][2], assigned[k][3], 0>>, 0>>
        learnt == IF cfg.midi.learning
                  THEN {<<midi_in, learn(0)>>, <<learn(0), << <<"value_io", "", "midi_learned", 0>>, 0>> >>}
                  ELSE {}
        source == IF cfg.midi.learning THEN learn(1) ELSE midi_in
    IN  IF ~cfg.midi.input THEN {}
        ELSE UNION {learnt,
                    IF assigned = <<>> THEN {} ELSE {<<source, assign(0)>>},
                    {<<assign(k - 1), convert(k)>> : k \in DOMAIN assigned},
                    {<<convert(k), <<assigned[k], 0>> >> :
                        k \in {i \in DOMAIN assigned : assigned[i] \in FindableParams(cfg)}}}

-----------------------------------------------------------------------------
\* Steps of rebuild.
MakeGraph ==
    /\ pc = "make"
    /\ audio' = MakeGraphAudio(config)
    /\ event' = ComponentsEvent(config) \cup ConnectSoloGroups(config) \cup ConnectMidi(config)
    /\ pc' = "collect"
    /\ UNCHANGED <<config, id_wires, new_wires, children>>

IsIdentity(endpoint) == endpoint[1][1] = "identity"

\* remove_identities: take the wires of identities out, ...
CollectIdentities ==
    /\ pc = "collect"
    /\ id_wires' = {w \in audio : IsIdentity(w[1]) \/ IsIdentity(w[2])}
    /\ audio' = audio \ id_wires'
    /\ pc' = "bypass"
    /\ UNCHANGED <<config, event, new_wires, children>>

\* ... replace the first wire into an identity by wires to where that one
\* leads, ...
Before(w, x) ==
    \E i, j \in DOMAIN config.addresses :
        /\ config.addresses[i] = w[1][1][2] /\ config.addresses[j] = x[1][1][2]
        /\ i < j \/ (i = j /\ w[1][1][4] < x[1][1][4])

\* Mutant: wires that still end at an identity are not taken up again.
BypassIdentityOnce(wire) ==
    /\ pc = "bypass" /\ IsIdentity(wire[2])
    /\ ~\E w \in id_wires : IsIdentity(w[2]) /\ Before(w, wire)
    /\ LET bypass == {<<wire[1], w[2]>> : w \in {x \in id_wires : x[1] = wire[2]}}
       IN  /\ id_wires' = id_wires \ {wire}
           /\ new_wires' = new_wires \cup {w \in bypass : ~IsIdentity(w[1]) /\ ~IsIdentity(w[2])}
    /\ UNCHANGED <<config, pc, audio, event, children>>

BypassIdentity(wire) ==
    /\ pc = "bypass" /\ IsIdentity(wire[2])
    /\ ~\E w \in id_wires : IsIdentity(w[2]) /\ Before(w, wire)
    /\ LET bypass == {<<wire[1], w[2]>> : w \in {x \in id_wires : x[1] = wire[2]}}
           unfinished == {w \in bypass : IsIdentity(w[1]) \/ IsIdentity(w[2])}
       IN  /\ id_wires' = (id_wires \cup unfinished) \ {wire}
           /\ new_wires' = new_wires \cup (bypass \ unfinished)
    /\ UNCHANGED <<config, pc, audio, event, children>>

\* ... and put in the new wires once no wire leads into an identity.
AddNewWires ==
    /\ pc = "bypass" /\ \A w \in id_wires : ~IsIdentity(w[2])
    /\ audio' = audio \cup new_wires
    /\ id_wires' = {} /\ new_wires' = {}
    /\ pc' = "mix"
    /\ UNCHANGED <<config, event, children>>

SourcesOf(wires, dst) == {w[1] : w \in {x \in wires : x[2] = dst}}
Mixer(dst) == <<"mix", dst>>

MixInto(wires, dst) ==
    LET sources == SetToSeq(SourcesOf(wires, dst))
    IN  Wires(sources, Ports(Mixer(dst), Len(sources))) \cup {<< <<Mixer(dst), 0>>, dst>>}

\* The wires are walked in the order of what they lead to, in a copy that is not
\* changed on the way, and each group touches no wire of another: so the groups
\* can be taken at once.  Behind the last group the walk compares with what is
\* no wire; it is never equal, and the group ends there.
InsertMixers ==
    /\ pc = "mix"
    /\ LET mixed == {dst \in {w[2] : w \in audio} : Cardinality(SourcesOf(audio, dst)) > 1}
       IN  audio' = {w \in audio : w[2] \notin mixed} \cup UNION {MixInto(audio, dst) : dst \in mixed}
    /\ pc' = "dag"
    /\ UNCHANGED <<config, event, id_wires, new_wires, children>>

HasEventOutputs(proc) ==
    proc[1] \in {"value_io", "convert", "level_meter", "solo_switch",
                 "midi_input", "midi_learn", "midi_assign", "midi_cc"}

ClearJob == <<"clear_event_output_buffers">>

WiredProcessors == UNION {{w[1][1], w[2][1]} : w \in audio \cup event}

GraphToDag ==
    /\ pc = "dag"
    /\ LET jobs == [p \in WiredProcessors |->
                       {w[2][1] : w \in {x \in audio \cup event : x[1][1] = p}}]
           clears == \E p \in WiredProcessors : HasEventOutputs(p)
       IN  children' = IF ~clears THEN jobs
                       ELSE [p \in WiredProcessors \cup {ClearJob} |->
                                IF p = ClearJob THEN {}
                                ELSE IF jobs[p] = {} THEN {ClearJob} ELSE jobs[p]]
    /\ pc' = "done"
    /\ UNCHANGED <<config, audio, event, id_wires, new_wires>>

\* Jobs that remain when those without a remaining child are taken away.
HasCycleThrough(graph) ==
    LET Strip(S) == {p \in S : graph[p] \cap S # {}}
        left[n \in 0 .. Cardinality(DOMAIN graph)] ==
            IF n = 0 THEN DOMAIN graph ELSE Strip(left[n - 1])
    IN  left[Cardinality(DOMAIN graph)] # {}

Next ==
    \/ MakeGraph \/ CollectIdentities
    \/ \E wire \in id_wires : BypassIdentity(wire)
    \/ AddNewWires \/ InsertMixers \/ GraphToDag

Spec == Init /\ [][Next]_vars

-----------------------------------------------------------------------------
\* The device input channels that each side of a channel carries to its
\* output, by its routes; a stereo plugin may pass either side on to both.
Carried(cfg) ==
    LET chan(c) == cfg.channels[c]
        blends(c) == \E m \in ToSet(chan(c).fx_chain) :
                        cfg.modules[m].kind = "ladspa_stereo" /\ ~cfg.modules[m].bypassed
        carried[c \in Channels(cfg)] ==
            LET entering ==
                    CASE chan(c).in \in Channels(cfg) -> carried[chan(c).in]
                      [] chan(c).in \in Buses(cfg) ->
                            [k \in 1 .. 2 |-> {cfg.buses[chan(c).in][k]} \ {0}]
                      [] chan(c).in = Default ->
                            [k \in 1 .. 2 |-> UNION {carried[n][k] : n \in SoloGroup(cfg, c)}]
                      [] OTHER -> <<{}, {}>>
            IN  IF chan(c).bus_type = "mono" THEN <<entering[1], entering[1]>>
                ELSE IF blends(c) THEN [k \in 1 .. 2 |-> entering[1] \cup entering[2]]
                ELSE entering
    IN  carried

\* The device input channels whose audio arrives at a destination.
Arriving(dst) ==
    LET heard[p \in WiredProcessors] ==
            IF p[1] = "device_in" THEN {p[4]}
            ELSE UNION {heard[w[1][1]] : w \in {x \in audio : x[2][1] = p}}
    IN  UNION {heard[src[1]] : src \in SourcesOf(audio, dst)}

\* What is heard at each channel of the output device, and recorded on each
\* side of a channel, is what the routes lead there, through every bypassed
\* identity and every mixer and past every effect that has no component: of
\* make_graph and finalize_graph.
SignalsFollowRoutes ==
    pc = "done" =>
        /\ \A o \in Buses(config), k \in 1 .. 2 : config.buses[o][k] # 0 =>
              Arriving(<<DeviceOutput(config.buses[o][k]), 0>>) =
                  UNION {Carried(config)[c][side] :
                      <<c, side>> \in {x \in Channels(config) \X (1 .. 2) :
                          /\ config.channels[x[1]].out \in Buses(config)
                          /\ config.buses[config.channels[x[1]].out][x[2]] = config.buses[o][k]}}
        /\ \A c \in config.recorded, side \in 1 .. 2 :
              side <= NumChannels(config.channels[c].bus_type) =>
                  Arriving(<<Recorder(c), side - 1>>) = Carried(config)[c][side]

\* The jobs of the engine are in an order in which each runs after the jobs
\* whose buffers it reads and no job is left that only passes audio on; each
\* input has one source, as processor_job keeps one reference per input; and
\* the event buffers are cleared when every other job has run: of
\* finalize_graph and graph_to_dag.
JobsFollowWires ==
    pc = "done" =>
        /\ ~\E p \in WiredProcessors : p[1] = "identity"
        /\ \A w \in audio \cup event : w[2][1] \in children[w[1][1]]
        /\ \A w \in audio : SourcesOf(audio, w[2]) = {w[1]}
        /\ \A w \in event : SourcesOf(event, w[2]) = {w[1]}
        /\ ~HasCycleThrough(children)
        /\ ClearJob \in DOMAIN children =>
              \A p \in WiredProcessors : children[p] # {}

\* The device and the recorders hear what the routes lead there, and the jobs
\* run in the order of their wires, each input having one source.
GraphFollowsRoutes == SignalsFollowRoutes /\ JobsFollowWires
=============================================================================
