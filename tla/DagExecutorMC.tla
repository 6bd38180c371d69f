--------------------------- MODULE DagExecutorMC ---------------------------
(***************************************************************************)
(* Model checking of DagExecutor on a graph that has what its control      *)
(* tells apart: two initial nodes a and b, nodes c and e with two parents  *)
(* each, and a parent a both of whose children can become ready in one     *)
(* notification, so that one is pushed on the stack.  And, as the other    *)
(* subjects of the run, EngineGraph, which makes the graphs,               *)
(* EventProcessing, what the nodes of a channel's output do, LadspaFx,     *)
(* what the node of a plugin does, and FilterFx, what those of a filter do.*)
(***************************************************************************)
EXTENDS DagExecutor, EngineGraphMC, EventProcessingMC, LadspaFxMC, FilterFx, TLC

CONSTANTS a, b, c, d, e

-----------------------------------------------------------------------------
(***************************************************************************)
(* Model checking of FilterFx for periods of three frames, on a mono and   *)
(* on a stereo channel that starts with any type: three cycles, with       *)
(* changes at any frame of the period that bypass the filter, put it back  *)
(* with one or two biquads, and change its coefficients, alone and         *)
(* together.                                                               *)
(***************************************************************************)
MCEvents(type, cutoff, resonance) ==
    [type |-> type, cutoff |-> cutoff, resonance |-> resonance]

MCAt(offset, value) == [o \in {offset} |-> value]

MCBuffers ==
    {MCEvents(<<>>, <<>>, <<>>), MCEvents(<<>>, MCAt(1, 2), <<>>),
     MCEvents(MCAt(0, "bypass"), <<>>, <<>>), MCEvents(MCAt(2, "bypass"), MCAt(0, 1), <<>>),
     MCEvents(MCAt(1, "lp4"), <<>>, MCAt(2, 1)), MCEvents(MCAt(0, "bp2"), <<>>, <<>>),
     MCEvents([o \in {0, 2} |-> IF o = 0 THEN "hp4" ELSE "bypass"], <<>>, <<>>)}

MCLoaded == {[type |-> type, cutoff |-> 1, resonance |-> 0] : type \in Type}

MCSignals == {[constant |-> 1], [frames |-> <<2, -1, 3>>]}

MCCosPhi == [cutoff \in 0 .. 2 |-> IF cutoff = 2 THEN -1 ELSE 0]

\* The b2 of a shape, with which the other coefficients are integers.
MCB2 ==
    [v \in {"lp", "bp", "hp", "br"} \X (0 .. 2) \X {0, 1} |->
        IF v[1] \in {"lp", "hp"} THEN (IF v[3] = 0 THEN 3 ELSE -5) ELSE -1 + 4 * v[3]]

\* The filter that the other subjects leave alone.
FilterParked == FilterInit /\ bus_type = "mono"

-----------------------------------------------------------------------------
VARIABLE subject    \* which of them is run; the others rest

MCNode == {a, b, c, d, e}
MCChildren ==
    (a :> {c, d}) @@ (b :> {c}) @@ (c :> {e}) @@ (d :> {e}) @@ (e :> {})

mcVars == <<subject, vars, graphVars, eventVars, ladspaVars, filterVars>>

MCInit ==
    /\ subject \in {"executor", "graph", "events", "ladspa", "filter"}
    /\ Init /\ EV!Init
    /\ IF subject = "graph" THEN Graph!Init ELSE GraphParked
    /\ IF subject = "ladspa" THEN FX!Init ELSE LadspaParked
    /\ IF subject = "filter" THEN FilterInit ELSE FilterParked

MCNext(ExecutorNext) ==
    /\ UNCHANGED subject
    /\ \/ /\ subject = "executor" /\ ExecutorNext
          /\ UNCHANGED <<graphVars, eventVars, ladspaVars, filterVars>>
       \/ /\ subject = "graph" /\ Graph!Next
          /\ UNCHANGED <<vars, eventVars, ladspaVars, filterVars>>
       \/ /\ subject = "events" /\ EV!Next
          /\ UNCHANGED <<vars, graphVars, ladspaVars, filterVars>>
       \/ /\ subject = "ladspa" /\ FX!Next
          /\ UNCHANGED <<vars, graphVars, eventVars, filterVars>>
       \/ /\ subject = "filter" /\ FilterNext
          /\ UNCHANGED <<vars, graphVars, eventVars, ladspaVars>>

MCFairTimelySpec == MCInit /\ [][MCNext(TimelyNext)]_mcVars /\ Fairness

\* The executor alone, without the assumption on the workers.
MCSpec == MCInit /\ subject = "executor" /\ [][MCNext(Next)]_mcVars
=============================================================================
