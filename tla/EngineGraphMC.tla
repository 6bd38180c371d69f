--------------------------- MODULE EngineGraphMC ---------------------------
(***************************************************************************)
(* The mixers that the model checker lets EngineGraph build engines from:  *)
(* every routing of two channels beside the main one, in two orders of     *)
(* their addresses, both bus types, and every pair of effects in a chain,  *)
(* with and without assigned MIDI controls.                                *)
(***************************************************************************)
EXTENDS Sequences, SequencesExt

VARIABLES config, place, audio, event, id_wires, new_wires, jobs

graphVars == <<config, place, audio, event, id_wires, new_wires, jobs>>

Chan(type, in, out, fx) == [bus_type |-> type, in |-> in, out |-> out, fx_chain |-> fx]
Mod(kind, bypassed) == [kind |-> kind, bypassed |-> bypassed]

\* Stereo and mono buses of two device channels; right_in lacks its left side.
MCBuses == [in |-> <<1, 2>>, right_in |-> <<0, 2>>, out |-> <<1, 2>>, mono_out |-> <<2, 2>>]

NoMidi == [input |-> FALSE, learning |-> FALSE, assigned |-> <<>>, last |-> {}]

Solo(c) == <<"value_io", c, "solo", 0>>
Gain(m) == <<"value_io", m, "gain", 0>>

\* A control of an effect, one of a channel, and a control that the engine to
\* be replaced still has.
MCMidi == {NoMidi} \cup
    {[input |-> TRUE, learning |-> l, assigned |-> <<Gain("f"), Solo("c1")>>, last |-> {Gain("f")}] :
        l \in BOOLEAN}

MCRoutes ==
    {[channels |-> [main |-> Chan("stereo", main_in, "out", <<>>),
                    c1 |-> Chan(type, in1, out1, <<>>),
                    c2 |-> Chan("stereo", in2, out2, <<"f">>)],
      modules |-> [f |-> Mod("tool", TRUE)], buses |-> MCBuses,
      recorded |-> {"c2"}, midi |-> NoMidi,
      addresses |-> IF main_in = "in" THEN <<"c2", "main", "c1", "">>
                     ELSE <<"", "main", "c1", "c2">>] :
        main_in \in {"default", "in"}, type \in {"mono", "stereo"},
        in1 \in {"default", "in", "right_in", "c2"},
        out1 \in {"main", "out", "mono_out", "c2"},
        in2 \in {"default", "c1", "missing"},
        out2 \in {"main", "c1", "mono_out", "default"}}

Kinds == {"tool", "filter", "scope", "unavailable", "ladspa_mono", "ladspa_stereo"}

MCEffects ==
    {[channels |-> [main |-> Chan("stereo", "default", "out", <<>>),
                    c1 |-> Chan(type, "in", "main", <<"f", "g">>),
                    c2 |-> Chan("stereo", "right_in", "main", <<>>)],
      modules |-> [f |-> Mod(f, bypassed), g |-> Mod(g, FALSE)], buses |-> MCBuses,
      recorded |-> {"c1"}, midi |-> midi, addresses |-> <<"g", "c1", "", "f", "main", "c2">>] :
        type \in {"mono", "stereo"}, f \in Kinds, g \in Kinds,
        bypassed \in BOOLEAN, midi \in MCMidi}

Graph == INSTANCE EngineGraph
    WITH pc <- place, children <- jobs, Configs <- MCRoutes \cup MCEffects,
         Default <- "default", Missing <- "missing"

\* Nothing is built.
GraphParked ==
    /\ config = <<>> /\ place = "parked" /\ jobs = <<>>
    /\ audio = {} /\ event = {} /\ id_wires = {} /\ new_wires = {}

\* The device and the recorders hear what the routes lead there, and the jobs
\* run in the order of their wires, each input having one source.
GraphFollowsRoutes == Graph!GraphFollowsRoutes
=============================================================================
