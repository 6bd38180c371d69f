------------------------------ MODULE LadspaFx ------------------------------
(***************************************************************************)
(* An effect that is a LADSPA plugin.  Its file is scanned, its ports are  *)
(* described, each control input becomes a parameter of the module, and    *)
(* the engine runs one processor of it, or two when a channel is stereo    *)
(* and the plugin is mono.  A plugin reads a control from the memory that  *)
(* was connected to the port, one value for all frames of a run, so a      *)
(* period is cut where the value of a control changes.  FxChains has the   *)
(* chains the modules stand in and the order of loading and rebuilding.    *)
(* Numbers are integers, bounds such that weights and roots are exact.     *)
(***************************************************************************)
EXTENDS Integers, Sequences

LOCAL INSTANCE SequencesExt
LOCAL INSTANCE FiniteSetsExt

CONSTANTS
    Files,          \* the plugins that there are: sequences of ports
    Signals,        \* what may arrive at the inputs
    MidiEvents,     \* the sequences of control changes that may arrive
    buffer_size,    \* frames of a period
    Lowest, Largest,    \* of the numbers
    MaxCycles, MaxChanges, MaxRebuilds, \* bounds
    None            \* no plugin, an empty slot

VARIABLES
    plugin,     \* the plugin whose library is open: [channels, controls]
    bus_type,   \* of the channel
    bypassed, value,    \* the module in the state: the values of its parameters
    comp,       \* the processors in the engine: the values of their controls
    in_value,   \* the slots towards the engine of the parameters
    result,     \* of each processor, frame by frame what the plugin was given
    given,      \* [midi, value, signal] of the last cycle
    aborted,
    cycles, changes, rebuilds

vars == <<plugin, bus_type, bypassed, value, comp, in_value, result, given,
          aborted, cycles, changes, rebuilds>>

Frame == 1 .. buffer_size

-----------------------------------------------------------------------------
\* The file and its ports.

AudioPorts(file, direction) ==
    Len(SelectSeq(file, LAMBDA p : p.kind = "audio" /\ p.direction = direction))

\* What the scan finds is offered when a channel may be able to run it.
InRegistry(file) ==
    /\ AudioPorts(file, "in") = AudioPorts(file, "out")
    /\ AudioPorts(file, "in") \in {1, 2}

\* m is the geometric mean with the weights 4 - q and q.
Geometric(low, high, q) ==
    CHOOSE m \in 0 .. high :
        /\ m * m * m * m <= low ^ (4 - q) * high ^ q
        /\ low ^ (4 - q) * high ^ q < (m + 1) * (m + 1) * (m + 1) * (m + 1)

Weighted(hint, low, high, q) ==
    IF hint.logarithmic THEN Geometric(low, high, q)
    ELSE ((4 - q) * low + q * high) \div 4

Clamp(x, low, high) == IF x < low THEN low ELSE IF high < x THEN high ELSE x

LowerBound(hint) == IF "below" \in hint.bounded THEN hint.lower ELSE Lowest
UpperBound(hint) == IF "above" \in hint.bounded THEN hint.upper ELSE Largest

DefaultValue(hint, low, high) ==
    CASE hint.default = "1"       -> 1
      [] hint.default = "100"     -> 100
      [] hint.default = "440"     -> 440
      [] hint.default = "minimum" -> LowerBound(hint)
      [] hint.default = "maximum" -> UpperBound(hint)
      [] hint.default = "low"     -> Weighted(hint, low, high, 1)
      [] hint.default = "middle"  -> Weighted(hint, low, high, 2)
      [] hint.default = "high"    -> Weighted(hint, low, high, 3)
      [] OTHER                    -> 0

Port(hint, default) ==
    [type |-> hint.type, min |-> LowerBound(hint), max |-> UpperBound(hint),
     default |-> Clamp(default, LowerBound(hint), UpperBound(hint)),
     logarithmic |-> hint.logarithmic]

BoolPort(hint) ==
    [type |-> "bool", min |-> 0, max |-> 1,
     default |-> IF hint.default = "1" THEN 1 ELSE 0, logarithmic |-> FALSE]

\* The means are those of the bounds of the hint, whether it has any.
IntPort(hint) == Port(hint, DefaultValue(hint, hint.lower, hint.upper))

FloatPort(hint) == Port(hint, DefaultValue(hint, LowerBound(hint), UpperBound(hint)))

PortTypeDescriptor(hint) ==
    CASE hint.type = "bool"  -> BoolPort(hint)
      [] hint.type = "int"   -> IntPort(hint)
      [] hint.type = "float" -> FloatPort(hint)

\* The ports of a library that has been opened.
Opened(file) ==
    LET controls == SelectSeq(file, LAMBDA p : p.kind = "control" /\ p.direction = "in")
    IN  [channels |-> AudioPorts(file, "in"),
         controls |-> [i \in DOMAIN controls |-> PortTypeDescriptor(controls[i].hint)]]

\* The parameters of the module begin at their defaults.  None is made for an
\* integer with a logarithmic scale.
ModuleParameters(controls) == [i \in DOMAIN controls |-> controls[i].default]
Unsupported(controls) ==
    \E i \in DOMAIN controls : controls[i].type = "int" /\ controls[i].logarithmic

\* From one end of the range to the other, or as many steps up as the value of
\* the control change.
FromCC(port, cc) ==
    CASE port.type = "float" -> IF cc = 0 THEN port.min ELSE port.max
      [] port.type = "int"   -> Min({cc + port.min, port.max})
      [] port.type = "bool"  -> IF cc = 0 THEN 0 ELSE 1

Control == DOMAIN value

-----------------------------------------------------------------------------
Init ==
    /\ plugin = None /\ bus_type \in {"mono", "stereo"}
    /\ bypassed = FALSE /\ value = <<>>
    /\ comp = <<>> /\ in_value = <<>>
    /\ result = <<>> /\ given = None
    /\ aborted = FALSE
    /\ cycles = 0 /\ changes = 0 /\ rebuilds = 0

\* A processor that was instantiated: the memory of its controls is zero.
NewProcessor == [i \in DOMAIN plugin'.controls |-> 0]

Component == <<NewProcessor>>
StereoFromMono == <<NewProcessor, NewProcessor>>

\* Plugins of two channels do not fit a mono channel; without one of the
\* processors there is no component.
NewComponent(instantiated) ==
    CASE plugin'.channels = 1 /\ bus_type = "mono" /\ instantiated >= 1   -> Component
      [] plugin'.channels = 2 /\ bus_type = "stereo" /\ instantiated >= 1 -> Component
      [] plugin'.channels = 1 /\ bus_type = "stereo" /\ instantiated >= 2 -> StereoFromMono
      [] OTHER -> <<>>

\* Every parameter processor that there is gets the value of the state.
Initialized(processors) == IF processors = <<>> THEN <<>> ELSE value'

\* The component of the engine before is taken over.  When the rebuild fails,
\* that engine runs on, and its parameters have been initialized.
Rebuild(succeeds, instantiated) ==
    LET built == IF bypassed' THEN <<>>
                 ELSE IF comp # <<>> THEN comp ELSE NewComponent(instantiated)
        running == IF succeeds THEN built ELSE comp
    IN  /\ comp' = running
        /\ in_value' = Initialized(running)
        /\ result' = <<>> /\ given' = None

\* load and insert_ladspa_fx_module.
Insert(file, succeeds, instantiated) ==
    /\ plugin = None /\ rebuilds < MaxRebuilds
    /\ plugin' = Opened(file)
    /\ value' = ModuleParameters(plugin'.controls)
    /\ aborted' = Unsupported(plugin'.controls)
    /\ bypassed' = FALSE
    /\ Rebuild(succeeds, instantiated)
    /\ rebuilds' = rebuilds + 1
    /\ UNCHANGED <<bus_type, cycles, changes>>

\* The bypass is toggled, or the engine is rebuilt for another reason.
SetBypass(bypass, succeeds, instantiated) ==
    /\ plugin # None /\ rebuilds < MaxRebuilds
    /\ bypassed' = bypass
    /\ UNCHANGED <<plugin, value, bus_type, aborted, cycles, changes>>
    /\ Rebuild(succeeds, instantiated)
    /\ rebuilds' = rebuilds + 1

\* The engine is rebuilt without the module, then the library is closed.
Delete ==
    /\ plugin # None
    /\ plugin' = None /\ value' = <<>> /\ bypassed' = FALSE
    /\ comp' = <<>> /\ in_value' = <<>> /\ result' = <<>> /\ given' = None
    /\ UNCHANGED <<bus_type, aborted, cycles, changes, rebuilds>>

\* From the user interface: to an end of the range, or back to the default.
SetParameter(i, x) ==
    /\ changes < MaxChanges /\ changes' = changes + 1
    /\ value' = [value EXCEPT ![i] = x]
    /\ in_value' = IF comp = <<>> THEN in_value ELSE [in_value EXCEPT ![i] = x]
    /\ UNCHANGED <<plugin, bus_type, bypassed, comp, result, given, aborted, cycles, rebuilds>>

-----------------------------------------------------------------------------
\* A cycle of the engine.

\* What came from the MIDI control that is assigned to a parameter.
Assigned(midi, i) == SelectSeq(midi, LAMBDA e : e.control = i)

\* What a parameter processor sends: the value in its slot, and then that.
Events(midi, i) ==
    LET own == Assigned(midi, i)
    IN  (IF in_value[i] = None THEN <<>> ELSE <<[offset |-> 0, value |-> in_value[i]]>>) \o
        [n \in DOMAIN own |->
            [offset |-> own[n].offset, value |-> FromCC(plugin.controls[i], own[n].cc)]]

\* The next frame at which a control changes, or the end of the period.
MinOffsetOfFirst(left) ==   \* mutant: of the first control
    IF left[1] = <<>> THEN buffer_size ELSE Head(left[1]).offset

MinOffset(left) ==
    Min({buffer_size} \cup {Head(left[i]).offset : i \in {j \in DOMAIN left : left[j] # <<>>}})

\* control_input::advance, as long as the event is due.
RECURSIVE Advanced(_, _, _)
Advanced(data, events, offset) ==
    IF events = <<>> \/ Head(events).offset # offset THEN [data |-> data, left |-> events]
    ELSE Advanced(Head(events).value, Tail(events), offset)

\* The frames of a slice; a constant is written to a buffer.
Subslice(signal, offset, count) ==
    [k \in 1 .. count |-> IF "constant" \in DOMAIN signal THEN signal.constant
                           ELSE signal.frames[offset + k]]

\* The plugin runs from one change to the next.
RECURSIVE Sliced(_, _, _, _, _)
Sliced(offset, data, left, out, signal) ==
    LET min_offset == MinOffset(left)
        next == [i \in DOMAIN data |-> Advanced(data[i], left[i], min_offset)]
        input == Subslice(signal, offset, min_offset - offset)
        slice == [k \in DOMAIN input |-> [input |-> input[k], controls |-> data]]
    IN  IF offset >= buffer_size THEN [data |-> data, out |-> out]
        ELSE Sliced(min_offset, [i \in DOMAIN data |-> next[i].data],
                    [i \in DOMAIN data |-> next[i].left], out \o slice, signal)

\* std::ranges::min of no control at all reads what is not there.
Crash ==
    /\ comp # <<>> /\ value = <<>>
    /\ aborted' = TRUE
    /\ UNCHANGED <<plugin, bus_type, bypassed, value, comp, in_value, result, given,
                   cycles, changes, rebuilds>>

\* The processors of a pair read the same parameters.  The values that came
\* from a MIDI control reach the state; ParameterFlow has their way there.
Process(midi, signal) ==
    LET events == [i \in Control |-> Events(midi, i)]
        ran == [n \in DOMAIN comp |-> Sliced(0, comp[n], events, <<>>, signal)]
    IN  /\ comp # <<>> /\ value # <<>> /\ cycles < MaxCycles
        /\ comp' = [n \in DOMAIN comp |-> ran[n].data]
        /\ result' = [n \in DOMAIN comp |-> ran[n].out]
        /\ given' = [midi |-> midi, value |-> value, signal |-> signal]
        /\ value' = [i \in Control |-> IF events[i] = <<>> THEN value[i] ELSE Last(events[i]).value]
        /\ in_value' = [i \in Control |-> None]
        /\ cycles' = cycles + 1
        /\ UNCHANGED <<plugin, bus_type, bypassed, aborted, changes, rebuilds>>

Next ==
    /\ ~aborted
    /\ \/ \E succeeds \in BOOLEAN, instantiated \in 0 .. 2 :
            \/ /\ plugin = None
               /\ \E file \in {f \in Files : InRegistry(f)} : Insert(file, succeeds, instantiated)
            \/ \E bypass \in BOOLEAN : SetBypass(bypass, succeeds, instantiated)
       \/ Delete
       \/ \E i \in Control :
            LET port == plugin.controls[i]
            IN  \E x \in {port.min, port.max, port.default} : SetParameter(i, x)
       \/ Crash
       \/ \E midi \in MidiEvents, signal \in Signals : Process(midi, signal)

Spec == Init /\ [][Next]_vars

-----------------------------------------------------------------------------
\* The value of a control at a frame, as the user and the MIDI controls know it.
InForce(i, k) ==
    LET past == SelectSeq(Assigned(given.midi, i), LAMBDA e : e.offset < k)
    IN  IF past = <<>> THEN given.value[i]
        ELSE FromCC(plugin.controls[i], Last(past).cc)

\* Every processor of a plugin gives it each frame of the period once and in
\* order, with the values its controls have at that frame and never one that is
\* out of the range of its port, in the first cycle of a component as in any
\* other, whether the component is new, kept, or that of an engine whose
\* rebuild failed.
PluginHearsParameters ==
    /\ \A n \in DOMAIN result :
        /\ Len(result[n]) = buffer_size
        /\ \A k \in Frame :
            /\ result[n][k].input =
                Subslice(given.signal, 0, buffer_size)[k]
            /\ \A i \in Control :
                LET heard == result[n][k].controls[i]
                IN  /\ heard = InForce(i, k)
                    /\ plugin.controls[i].min <= heard /\ heard <= plugin.controls[i].max
    /\ comp # <<>> => plugin # None /\ Len(in_value) = Len(value)
=============================================================================
