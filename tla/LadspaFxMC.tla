----------------------------- MODULE LadspaFxMC -----------------------------
(***************************************************************************)
(* LadspaFx for periods of three frames.  One plugin, mono or stereo, with *)
(* a switch and a gain is played in full: two cycles, up to two control    *)
(* changes in each at any frame.  Others have the hints that are described *)
(* differently, no controls, or a number of channels that is not offered.  *)
(***************************************************************************)
EXTENDS Integers, Sequences

CONSTANT NoPlugin

VARIABLES
    fx_plugin, fx_bus_type, fx_bypassed, fx_value, fx_comp, fx_in_value,
    fx_result, fx_given, fx_aborted, fx_cycles, fx_changes, fx_rebuilds

ladspaVars == <<fx_plugin, fx_bus_type, fx_bypassed, fx_value, fx_comp, fx_in_value,
                fx_result, fx_given, fx_aborted, fx_cycles, fx_changes, fx_rebuilds>>

FxHint(type, bounded, default, logarithmic) ==
    [type |-> type, bounded |-> bounded, lower |-> 1, upper |-> 16,
     default |-> default, logarithmic |-> logarithmic]

FxUnbounded == FxHint("float", {}, "none", FALSE)
FxBoth == {"below", "above"}
FxPort(kind, direction, hint) == [kind |-> kind, direction |-> direction, hint |-> hint]

FxFile(in, out, hints) ==
    [i \in DOMAIN hints |-> FxPort("control", "in", hints[i])] \o
    [i \in 1 .. in |-> FxPort("audio", "in", FxUnbounded)] \o
    [i \in 1 .. out |-> FxPort("audio", "out", FxUnbounded)] \o
    <<FxPort("control", "out", FxUnbounded)>>

FxToggle == FxHint("bool", {}, "none", FALSE)
FxGain == FxHint("float", FxBoth, "low", TRUE)

FxPlayed == {FxFile(n, n, <<FxToggle, FxGain>>) : n \in {1, 2}}

FxDescribed ==
    {FxFile(1, 1, <<FxHint(type, bounded, default, FALSE)>>) :
        type \in {"int", "float"}, bounded \in {FxBoth}, default \in {"none", "440", "middle"}} \cup
    {FxFile(1, 1, <<FxHint(type, {bound}, "middle", FALSE)>>) :
        type \in {"int", "float"}, bound \in FxBoth} \cup
    {FxFile(1, 1, <<FxHint("float", FxBoth, default, TRUE)>>) : default \in {"middle", "high"}} \cup
    {FxFile(1, 1, <<FxHint("int", FxBoth, "low", TRUE)>>)}

FxOthers == {FxFile(1, 1, <<>>), FxFile(1, 2, <<FxGain>>), FxFile(4, 4, <<FxGain>>)}

FxMidi ==
    {<<>>} \cup
    {<<[offset |-> o, control |-> c, cc |-> 127]>> : o \in {0, 2}, c \in 1 .. 2} \cup
    {<<[offset |-> 1, control |-> 2, cc |-> 127], [offset |-> c[1], control |-> c[2], cc |-> 0]>> :
        c \in {<<1, 2>>, <<2, 1>>}}

FX == INSTANCE LadspaFx WITH
    plugin <- fx_plugin, bus_type <- fx_bus_type, bypassed <- fx_bypassed,
    value <- fx_value, comp <- fx_comp, in_value <- fx_in_value, result <- fx_result,
    given <- fx_given, aborted <- fx_aborted, cycles <- fx_cycles,
    changes <- fx_changes, rebuilds <- fx_rebuilds,
    Files <- FxPlayed \cup FxDescribed \cup FxOthers,
    Signals <- {[constant |-> 5], [frames |-> <<7, 8, 9>>]},
    MidiEvents <- FxMidi, buffer_size <- 3, Lowest <- -1000, Largest <- 1000,
    MaxCycles <- 2, MaxChanges <- 1, MaxRebuilds <- 3, None <- NoPlugin

LadspaParked == FX!Init /\ fx_bus_type = "mono"

\* Every processor of a plugin gives it each frame of the period once and in
\* order, with the values its controls have at that frame and never one that is
\* out of the range of its port, in the first cycle of a component as in any
\* other, whether the component is new, kept, or that of an engine whose
\* rebuild failed.
PluginHearsParameters == FX!PluginHearsParameters
=============================================================================
