----------------------------- MODULE SpscSlotMC -----------------------------
(***************************************************************************)
(* Model checking of SpscSlot: six pushes let the producer lap the         *)
(* consumer twice, each of the three cells being written at least once on  *)
(* each lap.  And, as other subjects of the run: ParameterFlow, whose      *)
(* processors exchange their values through such slots, the search for     *)
(* cycles, and the views of the user interface.                            *)
(***************************************************************************)
EXTENDS SpscSlot, ParameterFlow, HasCycleSearch, Views

-----------------------------------------------------------------------------
(***************************************************************************)
(* Model checking of ParameterFlow with two channels that are sent to the  *)
(* main channel or to the device, and a MIDI control on a mute and on a    *)
(* solo.  The channel whose solo is controlled stays in its group: that of *)
(* one that leaves is wired to a processor that no longer exists.          *)
(***************************************************************************)
MCMidiParam == {<<"mute", "c1">>, <<"solo", "c2">>}

\* At first the channels are of one group, and the mute that MIDI leaves alone
\* is not set.
MCFlowInit ==
    /\ FlowInit
    /\ route = [c \in Channel |-> "main"]
    /\ ~value[<<"mute", "c2">>]

MCFlowNext == FlowNext /\ route'["c2"] = "main"

\* There is no engine.
FlowParked ==
    /\ value = <<>> /\ route = <<>> /\ main = "parked" /\ failed = FALSE
    /\ found = <<>> /\ in_value = <<>> /\ out_value = <<>> /\ running = <<>>
    /\ m_solo_group = <<>> /\ m_last = <<>> /\ crossed = {} /\ changes = 0 /\ rebuilds = 0

-----------------------------------------------------------------------------
(***************************************************************************)
(* HasCycleSearch on every graph of three nodes, self loops included.      *)
(***************************************************************************)
\* A search that has ended.
SearchParked ==
    /\ children = [n \in Node |-> {}]
    /\ visited = {} /\ finished = {} /\ todo = {} /\ stack = <<>>
    /\ result = "acyclic"

-----------------------------------------------------------------------------
(***************************************************************************)
(* Model checking of Views: a mixer with one channel, of two, and a main   *)
(* channel with three effects, of four.                                    *)
(***************************************************************************)
MCInputs == {<<"c1">>}
MCChains == {<<"m1", "m2", "m3">>}

-----------------------------------------------------------------------------
VARIABLE subject    \* which of them is run; the others rest

mcVars == <<subject, vars, flowVars, searchVars, viewsVars>>

MCInit ==
    /\ Init /\ ViewsInit
    /\ \/ subject = "slot" /\ FlowParked /\ SearchParked
       \/ subject = "flow" /\ MCFlowInit /\ SearchParked
       \/ subject = "search" /\ FlowParked /\ SearchInit
       \/ subject = "views" /\ FlowParked /\ SearchParked

MCNext ==
    /\ UNCHANGED subject
    /\ \/ subject = "slot" /\ Next /\ UNCHANGED <<flowVars, searchVars, viewsVars>>
       \/ subject = "flow" /\ MCFlowNext /\ UNCHANGED <<vars, searchVars, viewsVars>>
       \/ subject = "search" /\ SearchNext /\ UNCHANGED <<vars, flowVars, viewsVars>>
       \/ subject = "views" /\ ViewsNext /\ UNCHANGED <<vars, flowVars, searchVars>>

MCFairSpec ==
    MCInit /\ [][MCNext]_mcVars /\ WF_vars(Consume) /\ WF_searchVars(SearchNext)
=============================================================================
