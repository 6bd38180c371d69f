------------------------ MODULE ParameterFlowProofs ------------------------
(***************************************************************************)
(* The slots between the threads, and what flows through them.             *)
(*                                                                         *)
(* Of a slot, for any number of pushes: that the three positions are apart *)
(* is inductive by itself; what the cells hold needs it, because an        *)
(* assignment to m_write must not disturb the parked cell nor the          *)
(* consumer's.                                                             *)
(*                                                                         *)
(* Of the parameters, for any channels, targets, groups and assignments,   *)
(* and any number of changes and rebuilds: what is under way between the   *)
(* state and the engine arrives, and the groups agree on who silences      *)
(* whom.  The argument is where the newest value of a parameter is: in the *)
(* slot towards the engine, then it is that of the state; in the slot      *)
(* towards the state, then it is that of the engine; or in neither, and    *)
(* they agree.  Only a parameter that crosses a value is in both.          *)
(***************************************************************************)
EXTENDS SpscSlot, ParameterFlow, TLAPS

-----------------------------------------------------------------------------
(* A slot. *)


\* A push is begun below the bound only.
PushIsBounded == pushing # "idle" => committed < MaxPushes

\* A finished assignment left the next value in the producer's cell.
AssignedIsNext == pushing = "commit" => m_store[m_write] = committed + 1

\* Any mark was set by a commit.
MarkMeansCommitted ==
    m_swap_pos.marked \/ consuming = "invoke" => committed # 0

\* The cell in the consumer's hands holds a committed value.
TakenIsCommitted ==
    consuming = "invoke" => m_store[m_read] \in 1 .. committed

SlotInv ==
    /\ TypeOK
    /\ PushIsBounded
    /\ CellsAreOwned
    /\ AssignedIsNext
    /\ MarkMeansCommitted
    /\ MarkSurvives
    /\ ParkedIsNewest
    /\ TakenIsNewest
    /\ TakenIsCommitted

\* The three positions of a new slot are apart, and nothing is marked.
LEMMA InitSlotInv == Init => SlotInv
BY MaxPushesAssumption
   DEF Init, SlotInv, PushIsBounded, TypeOK, CellsAreOwned, AssignedIsNext, MarkMeansCommitted,
       MarkSurvives, ParkedIsNewest, TakenIsNewest, TakenIsCommitted, Cells

\* Ownership and types survive every step.
LEMMA StepOwned ==
    TypeOK /\ PushIsBounded /\ CellsAreOwned /\ [Next]_vars
        => TypeOK' /\ PushIsBounded' /\ CellsAreOwned'
<1> SUFFICES ASSUME TypeOK, PushIsBounded, CellsAreOwned, [Next]_vars
             PROVE  TypeOK' /\ PushIsBounded' /\ CellsAreOwned'
  OBVIOUS
<1> USE MaxPushesAssumption DEF TypeOK, PushIsBounded, CellsAreOwned, Cells
<1>1. CASE PushBegin
  BY <1>1 DEF PushBegin, consumerVars
<1>2. CASE PushEnd
  BY <1>2 DEF PushEnd, consumerVars
<1>3. CASE Commit
  BY <1>3 DEF Commit, consumerVars
<1>4. CASE ConsumeLoad
  BY <1>4 DEF ConsumeLoad, producerVars
<1>5. CASE ConsumeExchange
  BY <1>5 DEF ConsumeExchange, producerVars
<1>6. CASE ConsumeInvoke
  BY <1>6 DEF ConsumeInvoke, producerVars
<1>7. CASE UNCHANGED vars
  BY <1>7 DEF vars
<1> QED BY <1>1, <1>2, <1>3, <1>4, <1>5, <1>6, <1>7 DEF Next, Push, Consume

\* Each step of push and consume keeps the invariant.
LEMMA StepSlotInv == SlotInv /\ [Next]_vars => SlotInv'
<1> SUFFICES ASSUME SlotInv, [Next]_vars PROVE SlotInv'
  OBVIOUS
<1>0. TypeOK' /\ PushIsBounded' /\ CellsAreOwned'
  BY StepOwned DEF SlotInv
<1> USE MaxPushesAssumption, <1>0
    DEF SlotInv, TypeOK, CellsAreOwned, AssignedIsNext, MarkMeansCommitted,
        MarkSurvives, ParkedIsNewest, TakenIsNewest, TakenIsCommitted, Cells
<1>1. CASE PushBegin
  BY <1>1 DEF PushBegin, consumerVars
<1>2. CASE PushEnd
  BY <1>2 DEF PushEnd, consumerVars
<1>3. CASE Commit
  BY <1>3 DEF Commit, consumerVars
<1>4. CASE ConsumeLoad
  BY <1>4 DEF ConsumeLoad, producerVars
<1>5. CASE ConsumeExchange
  BY <1>5 DEF ConsumeExchange, producerVars
<1>6. CASE ConsumeInvoke
  BY <1>6 DEF ConsumeInvoke, producerVars
<1>7. CASE UNCHANGED vars
  BY <1>7 DEF vars
<1> QED BY <1>1, <1>2, <1>3, <1>4, <1>5, <1>6, <1>7 DEF Next, Push, Consume

\* The inductive invariant holds throughout.
THEOREM SpecSlotInv == Spec => []SlotInv
<1>1. Init => SlotInv
  BY InitSlotInv
<1>2. SlotInv /\ [Next]_vars => SlotInv'
  BY StepSlotInv
<1> QED BY <1>1, <1>2, PTL DEF Spec

\* Every reachable state is well typed.
THEOREM SpecTypeOK == Spec => []TypeOK
<1>1. SlotInv => TypeOK
  BY DEF SlotInv
<1> QED BY <1>1, SpecSlotInv, PTL

\* Producer and consumer never own the same cell (spsc_slot.h, the exchanges).
THEOREM SpecCellsAreOwned == Spec => []CellsAreOwned
<1>1. SlotInv => CellsAreOwned
  BY DEF SlotInv
<1> QED BY <1>1, SpecSlotInv, PTL

\* The callback of consume never sees a torn or an unset value.
THEOREM SpecNoTornRead == Spec => []NoTornRead
<1>1. SlotInv => NoTornRead
  BY DEF SlotInv, NoTornRead, TakenIsCommitted, TypeOK
<1> QED BY <1>1, SpecSlotInv, PTL

\* The slot implements the abstract latest-value slot: commits publish, the
\* exchange receives, every other step stutters.
THEOREM SpecImplementsLatestValue == Spec => ImplementsLatestValue
<1>1. Init => Abstract!Init
  BY DEF Init, Abstract!Init, Taken
<1>2. SlotInv /\ [Next]_vars => [Abstract!Next]_Abstract!vars
  <2> SUFFICES ASSUME SlotInv, [Next]_vars
               PROVE  [Abstract!Next]_Abstract!vars
    OBVIOUS
  <2> USE DEF Abstract!vars, Taken
  <2>1. CASE PushBegin
    BY <2>1 DEF PushBegin, consumerVars, SlotInv, TypeOK, CellsAreOwned, Cells
  <2>2. CASE PushEnd
    BY <2>2 DEF PushEnd, consumerVars, SlotInv, TypeOK, CellsAreOwned, Cells
  <2>3. CASE Commit
    <3>1. Abstract!Publish
      BY <2>3 DEF Commit, consumerVars, Abstract!Publish
    <3> QED BY <3>1 DEF Abstract!Next
  <2>4. CASE ConsumeLoad
    BY <2>4 DEF ConsumeLoad, producerVars
  <2>5. CASE ConsumeExchange
    <3>1. Abstract!Receive
      BY <2>5 DEF ConsumeExchange, producerVars, Abstract!Receive, SlotInv,
                  MarkSurvives, ParkedIsNewest, TypeOK, Cells
    <3> QED BY <3>1 DEF Abstract!Next
  <2>6. CASE ConsumeInvoke
    BY <2>6 DEF ConsumeInvoke, producerVars
  <2>7. CASE UNCHANGED vars
    BY <2>7 DEF vars
  <2> QED BY <2>1, <2>2, <2>3, <2>4, <2>5, <2>6, <2>7 DEF Next, Push, Consume
<1> QED BY <1>1, <1>2, SpecSlotInv, PTL DEF Spec, ImplementsLatestValue, Abstract!Spec

-----------------------------------------------------------------------------
(* The parameters. *)


Generation == {0, 1}

FlowTypes ==
    /\ value \in [Param -> BOOLEAN]
    /\ route \in [Channel -> Target]
    /\ main \in {"idle", "waiting"}
    /\ failed \in BOOLEAN
    /\ found \in [Param -> Proc \cup {None}]
    /\ in_value \in [Proc -> BOOLEAN \cup {None}]
    /\ out_value \in [Proc -> BOOLEAN \cup {None}]
    /\ running \in [generation : Generation, groups : [Channel -> Owner \cup {None}]]
    /\ m_solo_group \in [Channel -> BOOLEAN]
    /\ m_last \in [Channel -> [mute : BOOLEAN, muted_by_solo : BOOLEAN]]

RunningSolo(c) == SoloProc(c, running.generation)
NextSolo(c) == SoloProc(c, Other(running.generation))

\* The processor that is found for a parameter is one of its own: that of the
\* engine that runs or, during a rebuild, of the one that is offered.
FoundAreOwn ==
    \A c \in Channel :
        /\ found[Mute(c)] = MuteProc(c)
        /\ found[Solo(c)] \in {None, RunningSolo(c), NextSolo(c)}
        /\ main = "idle" => found[Solo(c)] # NextSolo(c)

\* After a rebuild that succeeded, what is found is what runs.
FoundAreWired ==
    main = "idle" /\ ~failed =>
        \A c \in Channel : running.groups[c] # None => found[Solo(c)] = RunningSolo(c)

\* The solo processors of an engine that has not run yet hold the values of the
\* state, and have nothing to say.
OfferedAreInitialized ==
    /\ \A c \in Channel : out_value[NextSolo(c)] = None
    /\ main = "waiting" => \A c \in Channel :
        /\ Solo(c) \notin crossed
        /\ Groups(route)[c] # None =>
            /\ found[Solo(c)] = NextSolo(c)
            /\ in_value[NextSolo(c)] = value[Solo(c)]

\* Where the newest value of the parameter p is, of which proc, that plays
\* played, is the processor.
Arrives(p, proc, played) ==
    \/ p \in crossed
    \/ in_value[proc] = value[p] /\ out_value[proc] = None
    \/ in_value[proc] = None /\ out_value[proc] = played
    \/ in_value[proc] = None /\ out_value[proc] = None /\ value[p] = played

MutesArrive == \A c \in Channel : Arrives(Mute(c), MuteProc(c), m_last[c].mute)

SolosArrive ==
    main = "idle" /\ ~failed =>
        \A c \in Channel : running.groups[c] # None =>
            Arrives(Solo(c), RunningSolo(c), m_solo_group[c])

\* A channel that was not told who silences it is about to be.
GroupsAreTold ==
    \A c \in Channel : running.groups[c] # None =>
        \/ in_value[RunningSolo(c)] # None
        \/ m_last[c].muted_by_solo = MutedBySolo(m_solo_group, c)

IInv ==
    /\ FlowTypes
    /\ FoundAreOwn
    /\ FoundAreWired
    /\ OfferedAreInitialized
    /\ MutesArrive
    /\ SolosArrive
    /\ GroupsAreTold

-----------------------------------------------------------------------------
\* Parameters and processors.

\* A parameter is the mute or the solo of a channel, and no other's.
LEMMA Params ==
    /\ \A p \in Param : \E c \in Channel : p = Mute(c) \/ p = Solo(c)
    /\ \A c \in Channel : Mute(c) \in Param /\ Solo(c) \in Param
    /\ \A c, d \in Channel :
        /\ Mute(c) # Solo(d)
        /\ Mute(c) = Mute(d) => c = d
        /\ Solo(c) = Solo(d) => c = d
  BY DEF Param, Mute, Solo

\* A processor is the mute of a channel, or its solo in one of two generations.
LEMMA Procs ==
    /\ \A proc \in Proc : \E c \in Channel :
        proc = MuteProc(c) \/ proc = SoloProc(c, 0) \/ proc = SoloProc(c, 1)
    /\ \A c \in Channel :
        MuteProc(c) \in Proc /\ SoloProc(c, 0) \in Proc /\ SoloProc(c, 1) \in Proc
    /\ \A c, d \in Channel, g, h \in Generation :
        /\ MuteProc(c) # SoloProc(d, g)
        /\ MuteProc(c) = MuteProc(d) => c = d
        /\ SoloProc(c, g) = SoloProc(d, h) => c = d /\ g = h
  BY DEF Proc, MuteProc, SoloProc, Generation

\* The two generations.
LEMMA Generations ==
    \A g \in Generation : /\ Other(g) \in Generation /\ Other(g) # g
                          /\ Other(Other(g)) = g
                          /\ \A h \in Generation : h = g \/ h = Other(g)
  BY DEF Generation, Other

\* What is made for the parameters of a channel.
LEMMA MadeFacts ==
    ASSUME NEW groups, NEW g, NEW c \in Channel
    PROVE  /\ Made(groups, g)[Mute(c)] = MuteProc(c)
           /\ Made(groups, g)[Solo(c)] = IF groups[c] # None THEN SoloProc(c, g) ELSE None
<1>1. Mute(c)[1] = "mute" /\ Mute(c)[2] = c /\ Solo(c)[1] = "solo" /\ Solo(c)[2] = c
  BY DEF Mute, Solo
<1>2. Mute(c) \in Param /\ Solo(c) \in Param
  BY Params
<1> QED
  BY <1>1, <1>2 DEF Made

\* The groups of the routes.
LEMMA GroupsType ==
    ASSUME NEW out \in [Channel -> Target]
    PROVE  Groups(out) \in [Channel -> Owner \cup {None}]
  BY DEF Groups

\* Each parameter has processors of its own among those of finds.
OwnProcs(finds) ==
    \A c \in Channel :
        finds[Mute(c)] = MuteProc(c) /\ finds[Solo(c)] \in {None, SoloProc(c, 0), SoloProc(c, 1)}

\* No two parameters have the same.
LEMMA OwnProcsDiffer ==
    ASSUME NEW finds, OwnProcs(finds), NEW p \in Param, NEW q \in Param,
           finds[p] = finds[q], finds[p] # None
    PROVE  p = q
<1>1. PICK c \in Channel : p = Mute(c) \/ p = Solo(c)
  BY Params
<1>2. PICK d \in Channel : q = Mute(d) \/ q = Solo(d)
  BY Params
<1>3. 0 \in Generation /\ 1 \in Generation
  BY DEF Generation
<1>4. CASE p = Mute(c) /\ q = Mute(d)
  BY <1>3, <1>4, Procs DEF OwnProcs
<1>5. CASE p = Mute(c) /\ q = Solo(d)
  BY <1>3, <1>5, Procs DEF OwnProcs
<1>6. CASE p = Solo(c) /\ q = Mute(d)
  BY <1>3, <1>6, Procs DEF OwnProcs
<1>7. CASE p = Solo(c) /\ q = Solo(d)
  <2>1. finds[p] \in {SoloProc(c, 0), SoloProc(c, 1)} /\ finds[q] \in {SoloProc(d, 0), SoloProc(d, 1)}
    BY <1>7 DEF OwnProcs
  <2> QED
    BY <1>3, <1>7, <2>1, Procs
<1> QED
  BY <1>1, <1>2, <1>4, <1>5, <1>6, <1>7

LEMMA OwnProcsAreProcs ==
    ASSUME NEW finds, OwnProcs(finds), NEW p \in Param, finds[p] # None
    PROVE  finds[p] \in Proc
<1>1. PICK c \in Channel : p = Mute(c) \/ p = Solo(c)
  BY Params
<1> QED
  BY <1>1, Procs DEF OwnProcs

\* What is made, and what is found, are of that kind.
LEMMA MadeAreOwn ==
    ASSUME NEW groups, NEW g \in Generation
    PROVE  OwnProcs(Made(groups, g))
  BY MadeFacts DEF OwnProcs, Generation

LEMMA FoundAreOwnProcs ==
    ASSUME FlowTypes, FoundAreOwn
    PROVE  OwnProcs(found)
<1>1. running.generation \in Generation
  BY DEF FlowTypes
<1>2. Other(running.generation) \in {0, 1} /\ running.generation \in {0, 1}
  BY <1>1, Generations DEF Generation
<1> QED
  BY <1>2 DEF OwnProcs, FoundAreOwn, RunningSolo, NextSolo

\* initialize sets what is found to the values of the state, and nothing else.
LEMMA InitializedFacts ==
    ASSUME NEW slots \in [Proc -> BOOLEAN \cup {None}], NEW finds, OwnProcs(finds),
           value \in [Param -> BOOLEAN]
    PROVE  /\ Initialized(slots, finds) \in [Proc -> BOOLEAN \cup {None}]
           /\ \A p \in Param : finds[p] # None => Initialized(slots, finds)[finds[p]] = value[p]
           /\ \A proc \in Proc :
                (\A p \in Param : finds[p] # proc) => Initialized(slots, finds)[proc] = slots[proc]
           /\ \A proc \in Proc : slots[proc] # None => Initialized(slots, finds)[proc] # None
<1>1. ASSUME NEW proc \in Proc, \E p \in Param : finds[p] = proc
      PROVE  \E p \in Param : finds[p] = proc /\ Initialized(slots, finds)[proc] = value[p]
  <2>1. (CHOOSE p \in Param : finds[p] = proc) \in Param
        /\ finds[CHOOSE p \in Param : finds[p] = proc] = proc
    BY <1>1
  <2> QED
    BY <1>1, <2>1 DEF Initialized
<1>2. ASSUME NEW proc \in Proc, \A p \in Param : finds[p] # proc
      PROVE  Initialized(slots, finds)[proc] = slots[proc]
  BY <1>2 DEF Initialized
<1>3. ASSUME NEW p \in Param, finds[p] # None
      PROVE  Initialized(slots, finds)[finds[p]] = value[p]
  <2>1. finds[p] \in Proc
    BY <1>3, OwnProcsAreProcs
  <2>2. PICK q \in Param : finds[q] = finds[p] /\ Initialized(slots, finds)[finds[p]] = value[q]
    BY <1>1, <2>1
  <2> QED
    BY <1>3, <2>2, OwnProcsDiffer
<1>4. \A proc \in Proc : Initialized(slots, finds)[proc] \in BOOLEAN \cup {None}
  BY <1>1, <1>2
<1>5. Initialized(slots, finds) \in [Proc -> BOOLEAN \cup {None}]
  <2>1. Initialized(slots, finds) = [proc \in Proc |-> Initialized(slots, finds)[proc]]
    BY DEF Initialized
  <2> QED
    BY <1>4, <2>1
<1>6. \A proc \in Proc : slots[proc] # None => Initialized(slots, finds)[proc] # None
  BY <1>1, <1>2, FlowAssumption
<1> QED
  BY <1>2, <1>3, <1>5, <1>6

\* The parameters and processors of a channel, while an engine runs.
LEMMA ChannelFacts ==
    ASSUME FlowTypes, NEW c \in Channel
    PROVE  /\ MuteProc(c) \in Proc /\ RunningSolo(c) \in Proc /\ NextSolo(c) \in Proc
           /\ MuteProc(c) # None /\ RunningSolo(c) # None /\ NextSolo(c) # None
           /\ Mute(c) \in Param /\ Solo(c) \in Param
           /\ value[Mute(c)] \in BOOLEAN /\ value[Solo(c)] \in BOOLEAN
           /\ value[Mute(c)] # None /\ value[Solo(c)] # None
           /\ \A d \in Channel :
                /\ RunningSolo(c) # NextSolo(d)
                /\ MuteProc(d) # RunningSolo(c) /\ MuteProc(d) # NextSolo(c)
<1>1. running.generation \in Generation /\ Other(running.generation) \in Generation
      /\ Other(running.generation) # running.generation
  BY Generations DEF FlowTypes
<1>2. MuteProc(c) \in Proc /\ RunningSolo(c) \in Proc /\ NextSolo(c) \in Proc
  BY <1>1, Procs DEF RunningSolo, NextSolo, Generation
<1>3. Mute(c) \in Param /\ Solo(c) \in Param
  BY Params
<1>4. value[Mute(c)] \in BOOLEAN /\ value[Solo(c)] \in BOOLEAN
  BY <1>3 DEF FlowTypes
<1>5. \A d \in Channel :
        /\ RunningSolo(c) # NextSolo(d)
        /\ MuteProc(d) # RunningSolo(c) /\ MuteProc(d) # NextSolo(c)
  <2>1. ASSUME NEW d \in Channel, NEW g \in Generation, NEW h \in Generation, g # h
        PROVE  /\ SoloProc(c, g) # SoloProc(d, h)
               /\ MuteProc(d) # SoloProc(c, g) /\ MuteProc(d) # SoloProc(c, h)
    BY <2>1, Procs
  <2> QED
    BY <1>1, <2>1 DEF RunningSolo, NextSolo
<1> QED
  BY <1>2, <1>3, <1>4, <1>5, FlowAssumption

-----------------------------------------------------------------------------
\* The steps of the main thread.

LEMMA InitIInv == FlowInit => IInv
<1> SUFFICES ASSUME FlowInit PROVE IInv
  OBVIOUS
<1> DEFINE empty == [proc \in Proc |-> None]
<1>1. running = [generation |-> 0, groups |-> Groups(route)] /\ found = Made(running.groups, 0)
      /\ 0 \in Generation /\ running.groups = Groups(route)
  BY DEF FlowInit, Generation
<1>2. OwnProcs(found)
  BY <1>1, MadeAreOwn
<1>3. in_value = Initialized(empty, found) /\ empty \in [Proc -> BOOLEAN \cup {None}]
      /\ value \in [Param -> BOOLEAN]
  BY DEF FlowInit
<1>4. /\ in_value \in [Proc -> BOOLEAN \cup {None}]
      /\ \A p \in Param : found[p] # None => in_value[found[p]] = value[p]
  <2> HIDE DEF empty
  <2> QED
    BY <1>2, <1>3, InitializedFacts
<1>5. running.groups \in [Channel -> Owner \cup {None}]
  BY <1>1, GroupsType DEF FlowInit
<1>6. found \in [Param -> Proc \cup {None}]
  <2>1. \A p \in Param : found[p] \in Proc \cup {None}
    BY <1>2, OwnProcsAreProcs
  <2>2. found = [p \in Param |-> found[p]]
    BY <1>1 DEF Made
  <2> QED
    BY <2>1, <2>2
<1>7. FlowTypes
  <2>1. running \in [generation : Generation, groups : [Channel -> Owner \cup {None}]]
    BY <1>1, <1>5
  <2>2. /\ out_value \in [Proc -> BOOLEAN \cup {None}]
        /\ m_solo_group \in [Channel -> BOOLEAN]
        /\ m_last \in [Channel -> [mute : BOOLEAN, muted_by_solo : BOOLEAN]]
    BY DEF FlowInit
  <2>3. value \in [Param -> BOOLEAN] /\ route \in [Channel -> Target] /\ main = "idle" /\ failed = FALSE
    BY DEF FlowInit
  <2> QED
    BY <1>4, <1>6, <2>1, <2>2, <2>3 DEF FlowTypes
<1>8. \A c \in Channel : /\ found[Mute(c)] = MuteProc(c)
                         /\ found[Solo(c)] = IF running.groups[c] # None THEN RunningSolo(c) ELSE None
  BY <1>1, MadeFacts DEF RunningSolo
<1>9. FoundAreOwn /\ FoundAreWired
  BY <1>7, <1>8, ChannelFacts DEF FoundAreOwn, FoundAreWired
<1>10. \A proc \in Proc : out_value[proc] = None
  BY DEF FlowInit
<1>11. OfferedAreInitialized
  <2>1. main = "idle"
    BY DEF FlowInit
  <2> QED
    BY <1>7, <1>10, <2>1, ChannelFacts DEF OfferedAreInitialized
<1>12. \A c \in Channel : in_value[MuteProc(c)] = value[Mute(c)] /\ out_value[MuteProc(c)] = None
  BY <1>4, <1>7, <1>8, <1>10, ChannelFacts
<1>13. \A c \in Channel : running.groups[c] # None =>
            /\ in_value[RunningSolo(c)] = value[Solo(c)] /\ out_value[RunningSolo(c)] = None
            /\ in_value[RunningSolo(c)] # None
  BY <1>4, <1>7, <1>8, <1>10, ChannelFacts
<1> QED
  BY <1>7, <1>9, <1>11, <1>12, <1>13
     DEF IInv, MutesArrive, SolosArrive, GroupsAreTold, Arrives

\* A value set: where it is wired, it waits for the next cycle.
LEMMA SetParameterStep ==
    ASSUME IInv, NEW p \in Param, NEW x \in BOOLEAN, SetParameter(p, x)
    PROVE  IInv'
<1> USE DEF IInv
<1>1. /\ main = "idle" /\ main' = main /\ failed' = failed /\ route' = route
      /\ found' = found /\ out_value' = out_value /\ running' = running
      /\ m_solo_group' = m_solo_group /\ m_last' = m_last
      /\ value' = [value EXCEPT ![p] = x]
      /\ crossed' = Crossed({p})
  BY DEF SetParameter
<1>2. in_value' = IF found[p] = None THEN in_value ELSE [in_value EXCEPT ![found[p]] = x]
  BY DEF SetParameter
<1>3. OwnProcs(found)
  BY FoundAreOwnProcs
<1>4. /\ value' \in [Param -> BOOLEAN]
      /\ in_value' \in [Proc -> BOOLEAN \cup {None}]
  BY <1>1, <1>2 DEF FlowTypes
<1>5. FlowTypes'
  BY <1>1, <1>4 DEF FlowTypes
<1>6. \A c \in Channel : RunningSolo(c)' = RunningSolo(c) /\ NextSolo(c)' = NextSolo(c)
  BY <1>1 DEF RunningSolo, NextSolo
<1>7. FoundAreOwn' /\ FoundAreWired' /\ OfferedAreInitialized'
  BY <1>1, <1>6 DEF FoundAreOwn, FoundAreWired, OfferedAreInitialized
<1>8. ASSUME NEW q \in Param, NEW played, found[q] # None, Arrives(q, found[q], played)
      PROVE  Arrives(q, found[q], played)'
  <2>1. found[q] \in Proc
    BY <1>3, <1>8, OwnProcsAreProcs
  <2>2. CASE q = p
    <3>1. value'[q] = x /\ in_value'[found[q]] = x
      BY <1>1, <1>2, <1>8, <2>1, <2>2 DEF FlowTypes
    <3>2. out_value[found[q]] # None => q \in crossed'
      BY <1>1, <1>8, <2>2 DEF Crossed, Unread
    <3> QED
      BY <1>1, <3>1, <3>2 DEF Arrives
  <2>3. CASE q # p
    <3>1. value'[q] = value[q] /\ (q \in crossed => q \in crossed')
      BY <1>1, <2>3 DEF FlowTypes, Crossed
    <3>2. found[q] # found[p]
      BY <1>3, <1>8, <2>3, OwnProcsDiffer
    <3>3. in_value'[found[q]] = in_value[found[q]]
      BY <1>2, <2>1, <3>2 DEF FlowTypes
    <3> QED
      BY <1>1, <1>8, <3>1, <3>3 DEF Arrives
  <2> QED
    BY <2>2, <2>3
<1>9. MutesArrive'
  BY <1>1, <1>8, ChannelFacts DEF MutesArrive, FoundAreOwn
<1>10. SolosArrive'
  BY <1>1, <1>6, <1>8, ChannelFacts DEF SolosArrive, FoundAreWired
<1>11. GroupsAreTold'
  <2>1. \A c \in Channel : in_value[RunningSolo(c)] # None => in_value'[RunningSolo(c)] # None
    BY <1>2, ChannelFacts, FlowAssumption DEF FlowTypes
  <2> QED
    BY <1>1, <1>6, <2>1 DEF GroupsAreTold, MutedBySolo
<1> QED
  BY <1>5, <1>7, <1>9, <1>10, <1>11

\* A value that the engine played reaches the state.
LEMMA RequestUpdateStep ==
    ASSUME IInv, NEW p \in Param, RequestUpdate(p)
    PROVE  IInv'
<1> USE DEF IInv
<1>1. /\ main = "idle" /\ main' = main /\ failed' = failed /\ route' = route
      /\ found' = found /\ in_value' = in_value /\ running' = running
      /\ m_solo_group' = m_solo_group /\ m_last' = m_last /\ crossed' = crossed
      /\ value' = [value EXCEPT ![p] = out_value[found[p]]]
      /\ out_value' = [out_value EXCEPT ![found[p]] = None]
  BY DEF RequestUpdate
<1>2. found[p] # None /\ out_value[found[p]] # None
  BY DEF RequestUpdate, Unread
<1>3. OwnProcs(found)
  BY FoundAreOwnProcs
<1>4. found[p] \in Proc /\ out_value[found[p]] \in BOOLEAN
  BY <1>2, <1>3, OwnProcsAreProcs DEF FlowTypes
<1>5. /\ value' \in [Param -> BOOLEAN]
      /\ out_value' \in [Proc -> BOOLEAN \cup {None}]
  BY <1>1, <1>4 DEF FlowTypes
<1>6. FlowTypes'
  BY <1>1, <1>5 DEF FlowTypes
<1>7. \A c \in Channel : RunningSolo(c)' = RunningSolo(c) /\ NextSolo(c)' = NextSolo(c)
  BY <1>1 DEF RunningSolo, NextSolo
<1>8. \A c \in Channel : out_value'[NextSolo(c)] = None
  BY <1>1, ChannelFacts DEF OfferedAreInitialized, FlowTypes
<1>9. FoundAreOwn' /\ FoundAreWired' /\ OfferedAreInitialized'
  BY <1>1, <1>7, <1>8 DEF FoundAreOwn, FoundAreWired, OfferedAreInitialized
<1>10. ASSUME NEW q \in Param, NEW played, found[q] # None, Arrives(q, found[q], played)
       PROVE  Arrives(q, found[q], played)'
  <2>1. found[q] \in Proc
    BY <1>3, <1>10, OwnProcsAreProcs
  <2>2. CASE q = p
    <3>1. value'[q] = out_value[found[q]] /\ out_value'[found[q]] = None
      BY <1>1, <1>4, <2>2 DEF FlowTypes
    <3> QED
      BY <1>1, <1>2, <1>10, <2>2, <3>1 DEF Arrives
  <2>3. CASE q # p
    <3>1. found[q] # found[p]
      BY <1>3, <1>10, <2>3, OwnProcsDiffer
    <3>2. value'[q] = value[q] /\ out_value'[found[q]] = out_value[found[q]]
      BY <1>1, <2>1, <2>3, <3>1 DEF FlowTypes
    <3> QED
      BY <1>1, <1>10, <3>2 DEF Arrives
  <2> QED
    BY <2>2, <2>3
<1>11. MutesArrive'
  BY <1>1, <1>10, ChannelFacts DEF MutesArrive, FoundAreOwn
<1>12. SolosArrive'
  BY <1>1, <1>7, <1>10, ChannelFacts DEF SolosArrive, FoundAreWired
<1>13. GroupsAreTold'
  BY <1>1, <1>7 DEF GroupsAreTold, MutedBySolo
<1> QED
  BY <1>6, <1>9, <1>11, <1>12, <1>13

\* An engine built and offered: its processors have the values of the state.
LEMMA BuildEngineStep ==
    ASSUME IInv, NEW c \in Channel, NEW target \in Target, BuildEngine(c, target)
    PROVE  IInv'
<1> USE DEF IInv
<1> DEFINE made == Made(Groups(route'), Other(running.generation))
<1>1. /\ main = "idle" /\ main' = "waiting" /\ failed' = failed /\ value' = value
      /\ out_value' = out_value /\ running' = running
      /\ m_solo_group' = m_solo_group /\ m_last' = m_last
      /\ route' = [route EXCEPT ![c] = target]
      /\ found' = [p \in Param |-> IF made[p] # None THEN made[p] ELSE found[p]]
      /\ in_value' = Initialized(in_value, found')
      /\ crossed' = Crossed({Mute(d) : d \in Channel}) \ {Solo(d) : d \in Channel}
  BY DEF BuildEngine
<1>2. \A d \in Channel :
        /\ made[Mute(d)] = MuteProc(d)
        /\ made[Solo(d)] = IF Groups(route')[d] # None THEN NextSolo(d) ELSE None
  BY MadeFacts DEF NextSolo
<1> HIDE DEF made
<1>3. \A d \in Channel :
        /\ found'[Mute(d)] = MuteProc(d)
        /\ found'[Solo(d)] = IF Groups(route')[d] # None THEN NextSolo(d) ELSE found[Solo(d)]
  BY <1>1, <1>2, ChannelFacts
<1>4. \A d \in Channel : RunningSolo(d)' = RunningSolo(d) /\ NextSolo(d)' = NextSolo(d)
  BY <1>1 DEF RunningSolo, NextSolo
<1>5. FoundAreOwn'
  BY <1>1, <1>3, <1>4 DEF FoundAreOwn
<1>6. OwnProcs(found')
  <2>1. running.generation \in {0, 1} /\ Other(running.generation) \in {0, 1}
    BY Generations DEF FlowTypes, Generation
  <2> QED
    BY <1>3, <2>1 DEF OwnProcs, FoundAreOwn, RunningSolo, NextSolo
<1>7. /\ in_value' \in [Proc -> BOOLEAN \cup {None}]
      /\ \A p \in Param : found'[p] # None => in_value'[found'[p]] = value[p]
      /\ \A proc \in Proc : in_value[proc] # None => in_value'[proc] # None
  <2>1. in_value \in [Proc -> BOOLEAN \cup {None}] /\ value \in [Param -> BOOLEAN]
    BY DEF FlowTypes
  <2>2. in_value' = Initialized(in_value, found')
    BY <1>1
  <2> QED
    BY <1>6, <2>1, <2>2, InitializedFacts
<1>8. FlowTypes'
  <2>1. \A p \in Param : found'[p] \in Proc \cup {None}
    BY <1>6, OwnProcsAreProcs
  <2>2. found' \in [Param -> Proc \cup {None}] /\ route' \in [Channel -> Target]
    BY <1>1, <2>1 DEF FlowTypes
  <2> QED
    BY <1>1, <1>7, <2>2 DEF FlowTypes
<1>9. OfferedAreInitialized'
  <2>1. ASSUME NEW d \in Channel, Groups(route')[d] # None
        PROVE  found'[Solo(d)] = NextSolo(d) /\ in_value'[NextSolo(d)] = value[Solo(d)]
    BY <1>3, <1>7, <2>1, ChannelFacts
  <2>2. \A d \in Channel : Solo(d) \notin crossed'
    BY <1>1
  <2> QED
    BY <1>1, <1>4, <2>1, <2>2 DEF OfferedAreInitialized
<1>10. MutesArrive'
  <2> SUFFICES ASSUME NEW d \in Channel
               PROVE  Arrives(Mute(d), MuteProc(d), m_last[d].mute)'
    BY DEF MutesArrive
  <2>1. in_value'[MuteProc(d)] = value[Mute(d)]
    BY <1>3, <1>7, ChannelFacts
  <2>2. out_value[MuteProc(d)] # None => Mute(d) \in crossed'
    BY <1>1, Params, ChannelFacts DEF Crossed, Unread, FoundAreOwn
  <2> QED
    BY <1>1, <2>1, <2>2 DEF Arrives
<1>11. FoundAreWired' /\ SolosArrive'
  BY <1>1 DEF FoundAreWired, SolosArrive
<1>12. GroupsAreTold'
  BY <1>1, <1>4, <1>7, ChannelFacts DEF GroupsAreTold, MutedBySolo
<1> QED
  BY <1>5, <1>8, <1>9, <1>10, <1>11, <1>12

\* The processors of a generation destroyed: its slots, and pointers to it.
LEMMA ExpireFacts ==
    ASSUME FlowTypes, NEW g \in Generation, NEW h \in Generation, g # h, Expire(g)
    PROVE  /\ found' \in [Param -> Proc \cup {None}]
           /\ in_value' \in [Proc -> BOOLEAN \cup {None}]
           /\ out_value' \in [Proc -> BOOLEAN \cup {None}]
           /\ \A c \in Channel :
                /\ found[Mute(c)] = MuteProc(c) => found'[Mute(c)] = MuteProc(c)
                /\ found'[Solo(c)] = IF found[Solo(c)] = SoloProc(c, g) THEN None ELSE found[Solo(c)]
                /\ in_value'[MuteProc(c)] = in_value[MuteProc(c)]
                /\ out_value'[MuteProc(c)] = out_value[MuteProc(c)]
                /\ in_value'[SoloProc(c, h)] = in_value[SoloProc(c, h)]
                /\ out_value'[SoloProc(c, h)] = out_value[SoloProc(c, h)]
                /\ out_value'[SoloProc(c, g)] = None
<1>1. \A c \in Channel : MuteProc(c) \in Proc /\ SoloProc(c, g) \in Proc /\ SoloProc(c, h) \in Proc
  BY Procs DEF Generation
<1>2. ASSUME NEW c \in Channel, NEW d \in Channel
      PROVE  MuteProc(c) # SoloProc(d, g) /\ SoloProc(c, h) # SoloProc(d, g)
  BY Procs
<1>3. \A c \in Channel : Mute(c) \in Param /\ Mute(c)[2] = c /\ Solo(c) \in Param /\ Solo(c)[2] = c
  BY Params DEF Mute, Solo
<1>4. \A c \in Channel :
        /\ found[Mute(c)] = MuteProc(c) => found'[Mute(c)] = MuteProc(c)
        /\ found'[Solo(c)] = IF found[Solo(c)] = SoloProc(c, g) THEN None ELSE found[Solo(c)]
  BY <1>2, <1>3 DEF Expire
<1>5. \A c \in Channel :
        /\ in_value'[MuteProc(c)] = in_value[MuteProc(c)]
        /\ out_value'[MuteProc(c)] = out_value[MuteProc(c)]
        /\ in_value'[SoloProc(c, h)] = in_value[SoloProc(c, h)]
        /\ out_value'[SoloProc(c, h)] = out_value[SoloProc(c, h)]
        /\ out_value'[SoloProc(c, g)] = None
  BY <1>1, <1>2 DEF Expire
<1>6. /\ found' \in [Param -> Proc \cup {None}]
      /\ in_value' \in [Proc -> BOOLEAN \cup {None}]
      /\ out_value' \in [Proc -> BOOLEAN \cup {None}]
  BY DEF Expire, FlowTypes
<1> QED
  BY <1>4, <1>5, <1>6

\* The engine offered runs: its processors are those that are found.
LEMMA SwapSucceededStep ==
    ASSUME IInv, SwapSucceeded
    PROVE  IInv'
<1> USE DEF IInv
<1>1. /\ main = "waiting" /\ main' = "idle" /\ value' = value /\ route' = route
      /\ m_last' = m_last /\ crossed' = crossed /\ failed' = FALSE
      /\ running' = [generation |-> Other(running.generation), groups |-> Groups(route)]
      /\ m_solo_group' = [c \in Channel |-> FALSE]
      /\ Expire(running.generation)
  BY DEF SwapSucceeded
<1>2. running.generation \in Generation /\ Other(running.generation) \in Generation
      /\ running.generation # Other(running.generation)
      /\ Other(Other(running.generation)) = running.generation
  BY Generations DEF FlowTypes
<1>3. \A c \in Channel : RunningSolo(c)' = NextSolo(c) /\ NextSolo(c)' = RunningSolo(c)
  BY <1>1, <1>2 DEF RunningSolo, NextSolo
<1>4. /\ found' \in [Param -> Proc \cup {None}]
      /\ in_value' \in [Proc -> BOOLEAN \cup {None}]
      /\ out_value' \in [Proc -> BOOLEAN \cup {None}]
      /\ \A c \in Channel :
            /\ found[Mute(c)] = MuteProc(c) => found'[Mute(c)] = MuteProc(c)
            /\ found'[Solo(c)] = IF found[Solo(c)] = RunningSolo(c) THEN None ELSE found[Solo(c)]
            /\ in_value'[MuteProc(c)] = in_value[MuteProc(c)]
            /\ out_value'[MuteProc(c)] = out_value[MuteProc(c)]
            /\ in_value'[NextSolo(c)] = in_value[NextSolo(c)]
            /\ out_value'[NextSolo(c)] = out_value[NextSolo(c)]
            /\ out_value'[RunningSolo(c)] = None
  BY <1>1, <1>2, ExpireFacts DEF RunningSolo, NextSolo
<1>5. running'.groups = Groups(route) /\ Groups(route) \in [Channel -> Owner \cup {None}]
  BY <1>1, GroupsType DEF FlowTypes
<1>6. FlowTypes'
  <2>1. running' \in [generation : Generation, groups : [Channel -> Owner \cup {None}]]
    BY <1>1, <1>2, <1>5
  <2>2. m_solo_group' \in [Channel -> BOOLEAN]
    BY <1>1
  <2> QED
    BY <1>1, <1>4, <2>1, <2>2 DEF FlowTypes
<1>7. FoundAreOwn'
  BY <1>1, <1>3, <1>4, ChannelFacts DEF FoundAreOwn
<1>8. ASSUME NEW c \in Channel, running'.groups[c] # None
      PROVE  /\ found'[Solo(c)] = NextSolo(c) /\ Solo(c) \notin crossed
             /\ in_value'[NextSolo(c)] = value[Solo(c)] /\ out_value'[NextSolo(c)] = None
             /\ in_value'[NextSolo(c)] # None
  BY <1>1, <1>4, <1>5, <1>8, ChannelFacts DEF OfferedAreInitialized
<1>9. FoundAreWired'
  BY <1>3, <1>8 DEF FoundAreWired
<1>10. OfferedAreInitialized'
  BY <1>1, <1>3, <1>4 DEF OfferedAreInitialized
<1>11. MutesArrive'
  BY <1>1, <1>4 DEF MutesArrive, Arrives
<1>12. SolosArrive'
  BY <1>1, <1>3, <1>8 DEF SolosArrive, Arrives
<1>13. GroupsAreTold'
  BY <1>3, <1>8 DEF GroupsAreTold
<1> QED
  BY <1>6, <1>7, <1>9, <1>10, <1>11, <1>12, <1>13

\* The engine offered is withdrawn: what runs goes on.
LEMMA SwapFailedStep ==
    ASSUME IInv, SwapFailed
    PROVE  IInv'
<1> USE DEF IInv
<1>1. /\ main = "waiting" /\ main' = "idle" /\ value' = value /\ route' = route
      /\ m_last' = m_last /\ crossed' = crossed /\ failed' = TRUE
      /\ running' = running /\ m_solo_group' = m_solo_group
      /\ Expire(Other(running.generation))
  BY DEF SwapFailed
<1>2. running.generation \in Generation /\ Other(running.generation) \in Generation
      /\ Other(running.generation) # running.generation
  BY Generations DEF FlowTypes
<1>3. \A c \in Channel : RunningSolo(c)' = RunningSolo(c) /\ NextSolo(c)' = NextSolo(c)
  BY <1>1 DEF RunningSolo, NextSolo
<1>4. /\ found' \in [Param -> Proc \cup {None}]
      /\ in_value' \in [Proc -> BOOLEAN \cup {None}]
      /\ out_value' \in [Proc -> BOOLEAN \cup {None}]
      /\ \A c \in Channel :
            /\ found[Mute(c)] = MuteProc(c) => found'[Mute(c)] = MuteProc(c)
            /\ found'[Solo(c)] = IF found[Solo(c)] = NextSolo(c) THEN None ELSE found[Solo(c)]
            /\ in_value'[MuteProc(c)] = in_value[MuteProc(c)]
            /\ out_value'[MuteProc(c)] = out_value[MuteProc(c)]
            /\ in_value'[RunningSolo(c)] = in_value[RunningSolo(c)]
            /\ out_value'[RunningSolo(c)] = out_value[RunningSolo(c)]
            /\ out_value'[NextSolo(c)] = None
  BY <1>1, <1>2, ExpireFacts DEF RunningSolo, NextSolo
<1>5. FlowTypes'
  BY <1>1, <1>4 DEF FlowTypes
<1>6. FoundAreOwn'
  BY <1>1, <1>3, <1>4, ChannelFacts DEF FoundAreOwn
<1>7. FoundAreWired' /\ SolosArrive'
  BY <1>1 DEF FoundAreWired, SolosArrive
<1>8. OfferedAreInitialized'
  BY <1>1, <1>3, <1>4 DEF OfferedAreInitialized
<1>9. MutesArrive'
  BY <1>1, <1>4 DEF MutesArrive, Arrives
<1>10. GroupsAreTold'
  BY <1>1, <1>3, <1>4 DEF GroupsAreTold, MutedBySolo
<1> QED
  BY <1>5, <1>6, <1>7, <1>8, <1>9, <1>10

-----------------------------------------------------------------------------
\* The cycle of the audio thread.

\* What the running engine runs for a channel.
LEMMA WiredFacts ==
    ASSUME FlowTypes
    PROVE  /\ OwnProcs([p \in Param |-> Wired(p)])
           /\ \A c \in Channel :
                /\ Wired(Mute(c)) = MuteProc(c)
                /\ Wired(Solo(c)) = IF running.groups[c] # None THEN RunningSolo(c) ELSE None
           /\ \A p \in Param : Wired(p) # None => Wired(p) \in Proc
           /\ \A p, q \in Param : Wired(p) = Wired(q) /\ Wired(p) # None => p = q
           /\ \A p \in Param, c \in Channel : Wired(p) # NextSolo(c)
<1>1. running.generation \in Generation
  BY DEF FlowTypes
<1>2. \A c \in Channel :
        /\ Wired(Mute(c)) = MuteProc(c)
        /\ Wired(Solo(c)) = IF running.groups[c] # None THEN RunningSolo(c) ELSE None
  BY MadeFacts DEF Wired, RunningSolo
<1>3. OwnProcs([p \in Param |-> Wired(p)])
  <2>1. \A c \in Channel : RunningSolo(c) \in {SoloProc(c, 0), SoloProc(c, 1)}
    BY <1>1 DEF RunningSolo, Generation
  <2> QED
    BY <1>2, <2>1, Params DEF OwnProcs
<1>4. \A p \in Param : Wired(p) # None => Wired(p) \in Proc
  BY <1>2, Params, ChannelFacts
<1>5. ASSUME NEW p \in Param, NEW q \in Param, Wired(p) = Wired(q), Wired(p) # None
      PROVE  p = q
  <2> DEFINE finds == [r \in Param |-> Wired(r)]
  <2>1. finds[p] = finds[q] /\ finds[p] # None /\ OwnProcs(finds)
    BY <1>3, <1>5
  <2> HIDE DEF finds
  <2> QED
    BY <2>1, OwnProcsDiffer
<1>6. ASSUME NEW p \in Param, NEW c \in Channel PROVE Wired(p) # NextSolo(c)
  BY <1>2, Params, ChannelFacts
<1> QED
  BY <1>2, <1>3, <1>4, <1>5, <1>6

\* The events that MIDI may play.
Playable(midi) ==
    /\ DOMAIN midi \subseteq Param
    /\ \A p \in DOMAIN midi : midi[p] \in BOOLEAN /\ Wired(p) # None

\* The last input of a processor, after the events.
After(p, midi, played) ==
    IF p \in DOMAIN midi THEN midi[p]
    ELSE IF in_value[Wired(p)] # None THEN in_value[Wired(p)] ELSE played

LEMMA CycleStep ==
    ASSUME IInv, NEW midi, Playable(midi), Cycle(midi)
    PROVE  IInv'
<1> USE DEF IInv
<1> DEFINE events == Received(midi)
           told == Informed(events)
<1>1. /\ value' = value /\ route' = route /\ main' = main /\ failed' = failed
      /\ found' = found /\ running' = running
      /\ crossed' = crossed \ DOMAIN midi
      /\ m_last' = Converted(events, told)
      /\ m_solo_group' = Soloed(events)
  BY DEF Cycle
<1>2. \A p \in Param :
        /\ Wired(p) # None => Wired(p) \in Proc
        /\ \A q \in Param : Wired(p) = Wired(q) /\ Wired(p) # None => p = q
        /\ \A c \in Channel : Wired(p) # NextSolo(c)
  BY WiredFacts
<1>3. \A c \in Channel :
        /\ Wired(Mute(c)) = MuteProc(c)
        /\ Wired(Solo(c)) = IF running.groups[c] # None THEN RunningSolo(c) ELSE None
  BY WiredFacts
\* What is in the slots after the cycle.
<1>4. \A p \in Param : Wired(p) # None => in_value'[Wired(p)] = None
  BY <1>2 DEF Cycle
<1>5. ASSUME NEW p \in Param, Wired(p) # None
      PROVE  out_value'[Wired(p)] = IF p \in DOMAIN midi THEN midi[p] ELSE out_value[Wired(p)]
  <2>1. Wired(p) \in Proc
    BY <1>2, <1>5
  <2>2. CASE p \in DOMAIN midi
    <3>1. (CHOOSE q \in DOMAIN midi : Wired(q) = Wired(p)) = p
      BY <1>2, <1>5, <2>2 DEF Playable
    <3> QED
      BY <2>1, <2>2, <3>1 DEF Cycle
  <2>3. CASE p \notin DOMAIN midi
    <3>1. \A q \in DOMAIN midi : Wired(q) # Wired(p)
      BY <1>2, <1>5, <2>3 DEF Playable
    <3> QED
      BY <2>1, <2>3, <3>1 DEF Cycle
  <2> QED
    BY <2>2, <2>3
<1>6. \A c \in Channel : in_value'[NextSolo(c)] = in_value[NextSolo(c)]
                         /\ out_value'[NextSolo(c)] = out_value[NextSolo(c)]
  BY <1>2, ChannelFacts DEF Cycle, Playable
\* What the processors received.
<1>7. \A p \in Param :
        /\ p \in DOMAIN events <=> Wired(p) # None /\ (in_value[Wired(p)] # None \/ p \in DOMAIN midi)
        /\ p \in DOMAIN events => events[p] = IF p \in DOMAIN midi THEN midi[p] ELSE in_value[Wired(p)]
  BY DEF Received
<1>8. DOMAIN events \subseteq Param
  BY DEF Received
<1>9. \A p \in DOMAIN events : events[p] \in BOOLEAN
  BY <1>2, <1>7, <1>8 DEF FlowTypes, Playable
<1> HIDE DEF events
<1>10. \A c \in Channel : running.groups[c] # None =>
        (c \in told <=> \E d \in Members(running.groups, running.groups[c]) : Solo(d) \in DOMAIN events)
  BY DEF Informed
<1>11. \A c \in Channel : m_solo_group'[c] = IF Solo(c) \in DOMAIN events THEN events[Solo(c)] ELSE m_solo_group[c]
  BY <1>1 DEF Soloed
<1>12. \A c \in Channel :
        /\ m_last'[c].mute = IF Mute(c) \in DOMAIN events THEN events[Mute(c)] ELSE m_last[c].mute
        /\ m_last'[c].muted_by_solo = IF c \in told THEN MutedBySolo(Soloed(events), c)
                                      ELSE m_last[c].muted_by_solo
  BY <1>1 DEF Converted
\* The types.
<1>13. in_value' \in [Proc -> BOOLEAN \cup {None}]
  BY DEF Cycle, FlowTypes
<1>14. out_value' \in [Proc -> BOOLEAN \cup {None}]
  <2>1. ASSUME NEW proc \in Proc PROVE out_value'[proc] \in BOOLEAN \cup {None}
    <3>1. CASE \E p \in DOMAIN midi : Wired(p) = proc
      BY <1>5, <2>1, <3>1 DEF Playable, FlowTypes
    <3>2. CASE ~\E p \in DOMAIN midi : Wired(p) = proc
      BY <2>1, <3>2 DEF Cycle, FlowTypes
    <3> QED
      BY <3>1, <3>2
  <2>2. out_value' = [proc \in Proc |-> out_value'[proc]]
    BY DEF Cycle
  <2> QED
    BY <2>1, <2>2
<1>15. m_solo_group' \in [Channel -> BOOLEAN]
  BY <1>1, <1>9, <1>11 DEF Soloed, FlowTypes
<1>16. m_last' \in [Channel -> [mute : BOOLEAN, muted_by_solo : BOOLEAN]]
  <2>1. \A c \in Channel : MutedBySolo(Soloed(events), c) \in BOOLEAN
    BY DEF MutedBySolo
  <2>2. \A c \in Channel : m_last[c] \in [mute : BOOLEAN, muted_by_solo : BOOLEAN]
    BY DEF FlowTypes
  <2> QED
    BY <1>1, <1>9, <2>1, <2>2 DEF Converted
<1>17. FlowTypes'
  BY <1>1, <1>13, <1>14, <1>15, <1>16 DEF FlowTypes
\* Who finds what.
<1>18. \A c \in Channel : RunningSolo(c)' = RunningSolo(c) /\ NextSolo(c)' = NextSolo(c)
  BY <1>1 DEF RunningSolo, NextSolo
<1>19. FoundAreOwn' /\ FoundAreWired'
  BY <1>1, <1>18 DEF FoundAreOwn, FoundAreWired
<1>20. OfferedAreInitialized'
  BY <1>1, <1>6, <1>18 DEF OfferedAreInitialized
\* What was on its way.
<1>21. ASSUME NEW p \in Param, NEW played, NEW then, then = After(p, midi, played),
              Wired(p) # None, Arrives(p, Wired(p), played)
       PROVE  Arrives(p, Wired(p), then)'
  <2>1. Wired(p)' = Wired(p) /\ Wired(p) \in Proc
    BY <1>1, <1>2, <1>21 DEF Wired
  <2>2. /\ in_value'[Wired(p)] = None
        /\ out_value'[Wired(p)] = IF p \in DOMAIN midi THEN midi[p] ELSE out_value[Wired(p)]
    BY <1>4, <1>5, <1>21
  <2>3. p \in DOMAIN midi => out_value'[Wired(p)] = then
    BY <1>21, <2>2 DEF After
  <2>4. p \notin DOMAIN midi /\ p \notin crossed =>
            out_value'[Wired(p)] = then \/ (out_value'[Wired(p)] = None /\ value[p] = then)
    <3>1. value[p] # None
      BY FlowAssumption DEF FlowTypes
    <3> QED
      BY <1>21, <2>2, <3>1 DEF After, Arrives
  <2> QED
    BY <1>1, <2>1, <2>2, <2>3, <2>4 DEF Arrives
<1>22. MutesArrive'
  <2> SUFFICES ASSUME NEW c \in Channel
               PROVE  Arrives(Mute(c), MuteProc(c), m_last[c].mute)'
    BY DEF MutesArrive
  <2>1. Mute(c) \in Param /\ Wired(Mute(c)) = MuteProc(c) /\ MuteProc(c) # None
    BY <1>3, ChannelFacts
  <2>2. m_last'[c].mute = After(Mute(c), midi, m_last[c].mute)
    BY <1>7, <1>12, <2>1 DEF After
  <2>3. Arrives(Mute(c), Wired(Mute(c)), m_last[c].mute)
    BY <2>1 DEF MutesArrive
  <2>4. Arrives(Mute(c), Wired(Mute(c)), m_last[c].mute)'
    BY <1>21, <2>1, <2>2, <2>3
  <2>5. Wired(Mute(c))' = MuteProc(c)
    BY <1>1, <2>1 DEF Wired
  <2> QED
    BY <2>4, <2>5 DEF Arrives
<1>23. SolosArrive'
  <2> SUFFICES ASSUME main = "idle", ~failed, NEW c \in Channel, running.groups[c] # None
               PROVE  Arrives(Solo(c), RunningSolo(c), m_solo_group[c])'
    BY <1>1 DEF SolosArrive
  <2>1. Solo(c) \in Param /\ Wired(Solo(c)) = RunningSolo(c) /\ RunningSolo(c) # None
    BY <1>3, ChannelFacts
  <2>2. m_solo_group'[c] = After(Solo(c), midi, m_solo_group[c])
    BY <1>7, <1>11, <2>1 DEF After
  <2>3. Arrives(Solo(c), Wired(Solo(c)), m_solo_group[c])
    BY <2>1 DEF SolosArrive
  <2>4. Arrives(Solo(c), Wired(Solo(c)), m_solo_group[c])'
    BY <1>21, <2>1, <2>2, <2>3
  <2>5. Wired(Solo(c))' = RunningSolo(c)'
    BY <1>1, <1>18, <2>1 DEF Wired
  <2> QED
    BY <2>4, <2>5 DEF Arrives
\* Who silences whom.
<1>24. GroupsAreTold'
  <2> SUFFICES ASSUME NEW c \in Channel, running.groups[c] # None,
                      in_value'[RunningSolo(c)] = None
               PROVE  m_last'[c].muted_by_solo = MutedBySolo(m_solo_group, c)'
    BY <1>1, <1>18 DEF GroupsAreTold
  <2>1. MutedBySolo(m_solo_group, c)' = MutedBySolo(Soloed(events), c)
    BY <1>1 DEF MutedBySolo
  <2>2. CASE c \in told
    BY <1>12, <2>1, <2>2
  <2>3. CASE c \notin told
    <3>1. \A d \in Members(running.groups, running.groups[c]) :
                d \in Channel /\ Solo(d) \notin DOMAIN events
      BY <1>10, <2>3 DEF Members
    <3>2. c \in Members(running.groups, running.groups[c])
      BY DEF Members
    <3>3. in_value[RunningSolo(c)] = None
      BY <1>3, <1>7, <3>1, <3>2, ChannelFacts
    <3>4. m_last[c].muted_by_solo = MutedBySolo(m_solo_group, c)
      BY <3>3 DEF GroupsAreTold
    <3>5. \A d \in Members(running.groups, running.groups[c]) :
                Soloed(events)[d] = m_solo_group[d]
      BY <3>1 DEF Soloed
    <3>6. MutedBySolo(Soloed(events), c) = MutedBySolo(m_solo_group, c)
      BY <3>2, <3>5 DEF MutedBySolo
    <3> QED
      BY <1>12, <2>1, <2>3, <3>4, <3>6
  <2> QED
    BY <2>2, <2>3
<1> QED
  BY <1>17, <1>19, <1>20, <1>22, <1>23, <1>24

-----------------------------------------------------------------------------
LEMMA StepIInv == IInv /\ [FlowNext]_flowVars => IInv'
<1> SUFFICES ASSUME IInv, [FlowNext]_flowVars PROVE IInv'
  OBVIOUS
<1>1. ASSUME NEW p \in Param, NEW x \in BOOLEAN, SetParameter(p, x) PROVE IInv'
  BY <1>1, SetParameterStep
<1>2. ASSUME NEW p \in Param, RequestUpdate(p) PROVE IInv'
  BY <1>2, RequestUpdateStep
<1>3. ASSUME NEW c \in Channel, NEW target \in Target, BuildEngine(c, target) PROVE IInv'
  BY <1>3, BuildEngineStep
<1>4. CASE SwapSucceeded
  BY <1>4, SwapSucceededStep
<1>5. CASE SwapFailed
  BY <1>5, SwapFailedStep
<1>6. CASE PlayCycle
  <2> DEFINE midi == [p \in {} |-> FALSE]
  <2>1. Cycle(midi)
    BY <1>6 DEF PlayCycle
  <2>2. Playable(midi)
    BY DEF Playable
  <2> HIDE DEF midi
  <2> QED
    BY <2>1, <2>2, CycleStep
<1>7. ASSUME NEW p \in MidiParam, NEW x \in BOOLEAN, PlayMidi(p, x) PROVE IInv'
  <2> DEFINE midi == [q \in {p} |-> x]
  <2>1. Cycle(midi) /\ Wired(p) # None
    BY <1>7 DEF PlayMidi
  <2>2. Playable(midi)
    BY <2>1, FlowAssumption DEF Playable
  <2> HIDE DEF midi
  <2> QED
    BY <2>1, <2>2, CycleStep
<1>8. CASE UNCHANGED flowVars
  <2> USE <1>8 DEF flowVars, IInv
  <2>1. \A c \in Channel : RunningSolo(c)' = RunningSolo(c) /\ NextSolo(c)' = NextSolo(c)
    BY DEF RunningSolo, NextSolo
  <2>2. FlowTypes' /\ FoundAreOwn' /\ FoundAreWired' /\ OfferedAreInitialized'
    BY <2>1 DEF FlowTypes, FoundAreOwn, FoundAreWired, OfferedAreInitialized
  <2>3. MutesArrive' /\ SolosArrive' /\ GroupsAreTold'
    BY <2>1 DEF MutesArrive, SolosArrive, GroupsAreTold, Arrives, MutedBySolo
  <2> QED
    BY <2>2, <2>3
<1> QED
  BY <1>1, <1>2, <1>3, <1>4, <1>5, <1>6, <1>7, <1>8 DEF FlowNext

\* What is under way arrives: the invariant from which the two properties follow.
THEOREM SpecIInv == FlowSpec => []IInv
<1>1. FlowInit => IInv
  BY InitIInv
<1>2. IInv /\ [FlowNext]_flowVars => IInv'
  BY StepIInv
<1> QED
  BY <1>1, <1>2, PTL DEF FlowSpec

\* When nothing is under way and the last rebuild did not fail, the engine plays
\* the mutes and solos of the state, those that crossed a value excepted.
THEOREM SpecParametersAgree == FlowSpec => []ParametersAgree
<1>1. IInv => ParametersAgree
  <2> SUFFICES ASSUME IInv, Quiet, NEW c \in Channel
               PROVE  /\ Mute(c) \notin crossed => m_last[c].mute = value[Mute(c)]
                      /\ running.groups[c] # None /\ Solo(c) \notin crossed
                            => m_solo_group[c] = value[Solo(c)]
    BY DEF ParametersAgree
  <2> USE DEF IInv
  <2>1. main = "idle" /\ ~failed
    BY DEF Quiet
  <2>2. \A p \in Param : found[p] # None => in_value[found[p]] = None /\ out_value[found[p]] = None
    BY DEF Quiet
  <2>3. /\ value[Mute(c)] # None /\ Mute(c) \in Param /\ MuteProc(c) # None
        /\ value[Solo(c)] # None /\ Solo(c) \in Param /\ RunningSolo(c) # None
    BY ChannelFacts
  <2>4. m_last[c].mute # None /\ m_solo_group[c] # None
    BY FlowAssumption DEF FlowTypes
  <2>5. Mute(c) \notin crossed => m_last[c].mute = value[Mute(c)]
    <3>1. in_value[MuteProc(c)] = None /\ out_value[MuteProc(c)] = None
      BY <2>2, <2>3 DEF FoundAreOwn
    <3>2. Arrives(Mute(c), MuteProc(c), m_last[c].mute)
      BY DEF MutesArrive
    <3> QED
      BY <2>3, <2>4, <3>1, <3>2 DEF Arrives
  <2>6. running.groups[c] # None /\ Solo(c) \notin crossed => m_solo_group[c] = value[Solo(c)]
    <3> SUFFICES ASSUME running.groups[c] # None, Solo(c) \notin crossed
                 PROVE  m_solo_group[c] = value[Solo(c)]
      OBVIOUS
    <3>1. in_value[RunningSolo(c)] = None /\ out_value[RunningSolo(c)] = None
      BY <2>1, <2>2, <2>3 DEF FoundAreWired
    <3>2. Arrives(Solo(c), RunningSolo(c), m_solo_group[c])
      BY <2>1 DEF SolosArrive
    <3> QED
      BY <2>3, <2>4, <3>1, <3>2 DEF Arrives
  <2> QED
    BY <2>5, <2>6
<1> QED
  BY <1>1, SpecIInv, PTL

\* And the channels of a group are silenced by each other's solos, whatever
\* groups they were in before.
THEOREM SpecSoloGroupsAgree == FlowSpec => []SoloGroupsAgree
<1>1. IInv => SoloGroupsAgree
  <2> SUFFICES ASSUME IInv, Quiet, NEW c \in Channel, running.groups[c] # None
               PROVE  m_last[c].muted_by_solo = MutedBySolo(m_solo_group, c)
    BY DEF SoloGroupsAgree
  <2>1. main = "idle" /\ ~failed
    BY DEF Quiet
  <2>2. \A p \in Param : found[p] # None => in_value[found[p]] = None
    BY DEF Quiet
  <2>3. in_value[RunningSolo(c)] = None
    BY <2>1, <2>2, ChannelFacts DEF IInv, FoundAreWired
  <2> QED
    BY <2>3 DEF IInv, GroupsAreTold
<1> QED
  BY <1>1, SpecIInv, PTL
=============================================================================
