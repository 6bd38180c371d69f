------------------------- MODULE DagExecutorProofs -------------------------
(***************************************************************************)
(* For every graph, every number of threads and of cycles, and every size  *)
(* of the stack: when the workers have parked before a cycle begins, the   *)
(* executor implements DagSchedule, and its counter never underflows.      *)
(*                                                                         *)
(* The threads share the counters of the parents, the stack and the        *)
(* counter of the nodes.  The invariant says what the counters count, the  *)
(* parents that have not told a child yet and the nodes not counted down,  *)
(* and that a node whose parents have all told it is in one place at most: *)
(* to be pushed, on the stack, or with one thread.                         *)
(*                                                                         *)
(* Then its threads, the workers, and one of the things its nodes do: what *)
(* comes out of the filter is what the parameters say at each frame.       *)
(***************************************************************************)
EXTENDS DagExecutor, Worker, FilterFx, FiniteSetTheorems, SequenceTheorems,
    WellFoundedInduction, TLAPS

Node0 == Node \cup {NoNode}

TypeOK ==
    /\ m_run_queue \in Seq(Node)
    /\ initial \subseteq Node
    /\ caller \in {"idle", "push", "wakeup", "work"}
    /\ waking \in Nat /\ cycle \in Nat
    /\ parents_to_process \in [Node -> Nat]
    /\ pc \in [Thread -> {"parked", "load", "pop", "task", "children"}]
    /\ node \in [Thread -> Node0]
    /\ next \in [Thread -> Node0]
    /\ todo \in [Thread -> SUBSET Node]
    /\ finished \subseteq Node

\* The thread t has run p, and not told n yet.
Tells(t, p, n) == pc[t] = "children" /\ node[t] = p /\ n \in todo[t]

\* The parents that have not told n.
Pending(n) == {p \in Parents(n) : p \notin finished \/ \E t \in Thread : Tells(t, p, n)}

\* The nodes that no thread has counted down.
Uncounted ==
    {n \in Node : n \notin finished \/ \E t \in Thread : pc[t] = "children" /\ node[t] = n}

Ready(n) == n \in Node /\ n \notin finished /\ Pending(n) = {}

Queued == {m_run_queue[i] : i \in DOMAIN m_run_queue}

\* The node that the thread t is going to run.
Held(t) ==
    IF pc[t] = "task" THEN node[t] ELSE IF pc[t] = "children" THEN next[t] ELSE NoNode

Distinct(s) == \A i, j \in DOMAIN s : s[i] = s[j] => i = j

\* What the counters count.
ParentsAreCounted == \A n \in Node : parents_to_process[n] = Cardinality(Pending(n))
NodesAreCounted == caller # "push" => m_nodes_to_process = Cardinality(Uncounted)

\* A node that ran was told by all its parents.
FinishedWereReady == \A n \in finished : Pending(n) = {}

\* A node waits once on the stack, or with one thread.
ReadyHavePlaces ==
    /\ Distinct(m_run_queue)
    /\ \A n \in Queued : Ready(n)
    /\ \A t \in Thread : Held(t) # NoNode => Ready(Held(t)) /\ Held(t) \notin Queued
    /\ \A t, u \in Thread : Held(t) # NoNode /\ Held(t) = Held(u) => t = u

\* A thread that tells the children of a node is the only one of that node.
NodesHaveThreads ==
    /\ \A t \in Thread : pc[t] = "task" => node[t] \in Node
    /\ \A t \in Thread : pc[t] = "children" =>
            node[t] \in finished /\ todo[t] \subseteq Children[node[t]]
    /\ \A t, u \in Thread :
            pc[t] = "children" /\ pc[u] = "children" /\ node[t] = node[u] => t = u

\* The caller pushes while the threads are parked, and returns when all ran.
CallerPushesAlone ==
    /\ caller = "push" => finished = {} /\ \A t \in Thread : pc[t] = "parked"
    /\ caller # "push" => initial = {} /\ pushing = <<>>
    /\ \A n \in initial : Ready(n) /\ n \notin Queued
    /\ pushing # <<>> =>
            \E n \in Node \ (Queued \cup initial) : pushing = <<n, m_run_queue>> /\ Ready(n)
    /\ caller # "work" => pc[Main] = "parked"
    /\ caller = "idle" \/ (caller = "work" /\ pc[Main] = "parked") => finished = Node

IInv ==
    /\ TypeOK
    /\ ParentsAreCounted
    /\ NodesAreCounted
    /\ FinishedWereReady
    /\ ReadyHavePlaces
    /\ NodesHaveThreads
    /\ CallerPushesAlone

-----------------------------------------------------------------------------
\* Counters.

\* The sets that are counted are finite, and smaller than a counter.
LEMMA SmallSets ==
    ASSUME NEW S \in SUBSET Node
    PROVE  IsFiniteSet(S) /\ Cardinality(S) \in Nat /\ Cardinality(S) < CounterSize
<1>1. IsFiniteSet(Node) /\ Cardinality(Node) < CounterSize /\ CounterSize \in Nat
  BY GraphAssumption, NumbersAssumption
<1>2. IsFiniteSet(S) /\ Cardinality(S) <= Cardinality(Node)
  BY <1>1, FS_Subset
<1>3. Cardinality(S) \in Nat /\ Cardinality(Node) \in Nat
  BY <1>1, <1>2, FS_CardinalityType
<1> QED
  BY <1>1, <1>2, <1>3

\* Counting down is taking an element away.
LEMMA DecrementedIsRemoved ==
    ASSUME NEW S \in SUBSET Node, NEW x \in S
    PROVE  Decremented(Cardinality(S)) = Cardinality(S \ {x})
<1>1. /\ IsFiniteSet(S) /\ Cardinality(S) \in Nat /\ Cardinality(S) < CounterSize
      /\ Cardinality(S \ {x}) \in Nat
  BY SmallSets
<1>2. Cardinality(S \ {x}) = Cardinality(S) - 1
  BY <1>1, FS_RemoveElement
<1>3. \A k \in Nat : k - 1 \in Nat /\ k < CounterSize => (k - 1) % CounterSize = k - 1
  BY NumbersAssumption
<1> QED
  BY <1>1, <1>2, <1>3 DEF Decremented

\* The counters of parents count nodes.
LEMMA PendingIsSet ==
    ASSUME NEW n
    PROVE  Pending(n) \in SUBSET Node /\ Parents(n) \in SUBSET Node /\ Uncounted \in SUBSET Node
  BY DEF Pending, Parents, Uncounted

-----------------------------------------------------------------------------
\* The stack.

\* Pushing a node that is not on the stack puts it there once, or not at all.
LEMMA PushedFacts ==
    ASSUME NEW n \in Node, NEW s \in Seq(Node), Distinct(s),
           \A i \in DOMAIN s : s[i] # n
    PROVE  /\ Pushed(n, s) \in Seq(Node) /\ Distinct(Pushed(n, s))
           /\ \A i \in DOMAIN Pushed(n, s) :
                Pushed(n, s)[i] = n \/ \E j \in DOMAIN s : Pushed(n, s)[i] = s[j]
<1> DEFINE p == <<n>> \o s
<1>1. /\ p \in Seq(Node) /\ DOMAIN p = 1 .. Len(s) + 1 /\ DOMAIN s = 1 .. Len(s)
      /\ Len(s) \in Nat /\ p[1] = n
      /\ \A i \in 1 .. Len(s) + 1 : i # 1 => i - 1 \in 1 .. Len(s) /\ p[i] = s[i - 1]
  OBVIOUS
<1> HIDE DEF p
<1>2. Distinct(p)
  <2> SUFFICES ASSUME NEW i \in DOMAIN p, NEW j \in DOMAIN p, p[i] = p[j] PROVE i = j
    BY DEF Distinct
  <2>1. CASE i = 1 \/ j = 1
    BY <2>1, <1>1
  <2>2. CASE i # 1 /\ j # 1
    <3>1. i - 1 = j - 1
      BY <2>2, <1>1 DEF Distinct
    <3> QED
      BY <3>1, <1>1
  <2> QED
    BY <2>1, <2>2
<1>3. \A i \in DOMAIN p : p[i] = n \/ \E j \in DOMAIN s : p[i] = s[j]
  BY <1>1
<1>4. Pushed(n, s) = p \/ Pushed(n, s) = s
  BY DEF Pushed, p
<1> QED
  BY <1>1, <1>2, <1>3, <1>4

\* Taking the top of the stack takes it away.
LEMMA PoppedFacts ==
    ASSUME NEW s \in Seq(Node), s # <<>>, Distinct(s)
    PROVE  /\ Head(s) \in Node /\ Tail(s) \in Seq(Node) /\ Distinct(Tail(s))
           /\ \E j \in DOMAIN s : Head(s) = s[j]
           /\ \A i \in DOMAIN Tail(s) :
                Tail(s)[i] # Head(s) /\ \E j \in DOMAIN s : Tail(s)[i] = s[j]
<1> DEFINE p == Tail(s)
<1>1. /\ p \in Seq(Node) /\ DOMAIN p = 1 .. Len(s) - 1 /\ DOMAIN s = 1 .. Len(s)
      /\ Len(s) \in Nat \ {0} /\ Head(s) = s[1] /\ s[1] \in Node
      /\ \A i \in 1 .. Len(s) - 1 : p[i] = s[i + 1]
  OBVIOUS
<1> HIDE DEF p
<1>2. \A i \in DOMAIN p : i + 1 \in DOMAIN s /\ i + 1 # 1 /\ 1 \in DOMAIN s /\ p[i] = s[i + 1]
  BY <1>1
<1>3. Distinct(p)
  <2> SUFFICES ASSUME NEW i \in DOMAIN p, NEW j \in DOMAIN p, p[i] = p[j] PROVE i = j
    BY DEF Distinct
  <2>1. i + 1 = j + 1
    BY <1>2 DEF Distinct
  <2> QED
    BY <2>1, <1>1
<1>4. \A i \in DOMAIN p : p[i] # s[1] /\ \E j \in DOMAIN s : p[i] = s[j]
  BY <1>2 DEF Distinct
<1>5. 1 \in DOMAIN s
  BY <1>1
<1> QED
  BY <1>1, <1>3, <1>4, <1>5 DEF p

-----------------------------------------------------------------------------
\* Nothing is told or counted by a step that leaves the nodes that ran alone,
\* and the threads that tell children at it.
LEMMA NothingTold ==
    ASSUME finished' = finished,
           \A t \in Thread : pc[t] = "children" <=> pc'[t] = "children",
           \A t \in Thread : pc[t] = "children" =>
                node'[t] = node[t] /\ todo'[t] = todo[t]
    PROVE  /\ \A n : Pending(n)' = Pending(n) /\ (Ready(n)' <=> Ready(n))
           /\ Uncounted' = Uncounted
<1>1. \A t \in Thread : \A p, n : Tells(t, p, n)' <=> Tells(t, p, n)
  BY DEF Tells
<1>2. \A n : Pending(n)' = Pending(n)
  BY <1>1 DEF Pending, Parents
<1>3. Uncounted' = Uncounted
  BY DEF Uncounted
<1> QED
  BY <1>2, <1>3 DEF Ready

-----------------------------------------------------------------------------
\* Steps of the caller.

\* At first nothing waits, and all nodes count as run.
LEMMA InitIInv == Init => IInv
<1> SUFFICES ASSUME Init PROVE IInv
  OBVIOUS
<1>1. TypeOK
  BY DEF Init, TypeOK, Node0
<1>2. \A n : Pending(n) = {}
  BY DEF Init, Pending, Parents, Tells
<1>3. Uncounted = {}
  BY DEF Init, Uncounted
<1>4. Cardinality({}) = 0
  BY FS_EmptySet
<1>5. ParentsAreCounted /\ NodesAreCounted /\ FinishedWereReady
  BY <1>2, <1>3, <1>4 DEF Init, ParentsAreCounted, NodesAreCounted, FinishedWereReady
<1>6. m_run_queue = <<>> /\ DOMAIN m_run_queue = {} /\ \A t \in Thread : pc[t] = "parked"
  BY DEF Init
<1>7. ReadyHavePlaces /\ NodesHaveThreads
  BY <1>6 DEF ReadyHavePlaces, NodesHaveThreads, Distinct, Queued, Held
<1>8. CallerPushesAlone
  BY DEF Init, CallerPushesAlone, Main, Thread
<1> QED
  BY <1>1, <1>5, <1>7, <1>8 DEF IInv

\* A cycle begins: each node waits for its parents, and nothing is left of the
\* cycle before, since what is left would be ready and not run.
LEMMA BeginCycleStep ==
    ASSUME IInv, BeginCycle, AllParked
    PROVE  IInv' /\ finished = Node
<1>1. /\ TypeOK /\ caller = "idle" /\ finished = Node /\ initial = {} /\ pushing = <<>>
      /\ \A t \in Thread : pc[t] = "parked"
      /\ m_run_queue \in Seq(Node)
  BY DEF IInv, BeginCycle, AllParked, CallerPushesAlone, TypeOK, Thread, Main
<1>2. /\ cycle' = cycle + 1 /\ finished' = {} /\ caller' = "push" /\ initial' = InitialTasks
      /\ parents_to_process' = [n \in Node |-> NumParents(n)]
      /\ UNCHANGED <<m_nodes_to_process, m_run_queue, pushing, waking, pc, node, next, todo>>
  BY DEF BeginCycle, threadVars
<1>3. Queued = {}
  BY <1>1 DEF IInv, ReadyHavePlaces, Ready
<1>4. \A n \in Node : NumParents(n) \in Nat
  BY PendingIsSet, SmallSets DEF NumParents
<1>5. TypeOK'
  BY <1>1, <1>2, <1>4 DEF TypeOK, InitialTasks
<1>6. \A n : Pending(n)' = Parents(n)
  BY <1>2 DEF Pending, Parents
<1>7. ParentsAreCounted' /\ NodesAreCounted' /\ FinishedWereReady'
  BY <1>2, <1>6 DEF ParentsAreCounted, NodesAreCounted, FinishedWereReady, NumParents
<1>8. /\ m_run_queue' = m_run_queue /\ Queued' = {}
      /\ \A t \in Thread : pc'[t] = "parked"
  BY <1>1, <1>2, <1>3 DEF Queued
<1>9. Distinct(m_run_queue)
  BY DEF IInv, ReadyHavePlaces
<1>10. ReadyHavePlaces' /\ NodesHaveThreads'
  BY <1>8, <1>9 DEF ReadyHavePlaces, NodesHaveThreads, Distinct, Held
<1>11. \A n \in InitialTasks : Ready(n)'
  <2> SUFFICES ASSUME NEW n \in InitialTasks PROVE Ready(n)'
    OBVIOUS
  <2>1. n \in Node /\ Cardinality(Parents(n)) = 0
    BY DEF InitialTasks, NumParents
  <2>2. Parents(n) = {}
    BY <2>1, PendingIsSet, SmallSets, FS_EmptySet
  <2> QED
    BY <2>1, <2>2, <1>2, <1>6 DEF Ready
<1>12. CallerPushesAlone'
  BY <1>1, <1>2, <1>8, <1>11 DEF CallerPushesAlone, Main, Thread
<1> QED
  BY <1>1, <1>5, <1>7, <1>10, <1>12 DEF IInv

\* What a step of the caller leaves alone, while nothing is told.
LEMMA CallerQuiet ==
    ASSUME IInv, UNCHANGED <<parents_to_process, finished, node, next, todo, m_run_queue>>,
           \A t \in Thread : pc'[t] = pc[t] \/ {pc[t], pc'[t]} \subseteq {"parked", "load", "pop"},
           TypeOK'
    PROVE  /\ ParentsAreCounted' /\ FinishedWereReady' /\ ReadyHavePlaces' /\ NodesHaveThreads'
           /\ Uncounted' = Uncounted /\ Queued' = Queued
           /\ \A n : Ready(n)' <=> Ready(n)
<1>1. \A t \in Thread : /\ pc[t] = "children" <=> pc'[t] = "children"
                        /\ pc[t] = "task" <=> pc'[t] = "task"
  OBVIOUS
<1>2. /\ \A n : Pending(n)' = Pending(n) /\ (Ready(n)' <=> Ready(n))
      /\ Uncounted' = Uncounted
  BY <1>1, NothingTold
<1>3. Queued' = Queued /\ \A t \in Thread : Held(t)' = Held(t)
  BY <1>1 DEF Queued, Held
<1>4. ParentsAreCounted' /\ FinishedWereReady'
  BY <1>2 DEF IInv, ParentsAreCounted, FinishedWereReady
<1>5. ReadyHavePlaces'
  BY <1>2, <1>3 DEF IInv, ReadyHavePlaces
<1>6. NodesHaveThreads'
  BY <1>1 DEF IInv, NodesHaveThreads
<1> QED
  BY <1>2, <1>3, <1>4, <1>5, <1>6

\* An initial task is about to be pushed on the stack as it was seen.
LEMMA PushInitialReadStep ==
    ASSUME IInv, PushInitialRead
    PROVE  IInv'
<1>1. PICK n \in initial : pushing' = <<n, m_run_queue>> /\ initial' = initial \ {n}
  BY DEF PushInitialRead
<1>2. /\ caller = "push" /\ pushing = <<>>
      /\ UNCHANGED <<parents_to_process, m_nodes_to_process, m_run_queue, caller, waking,
                     cycle, finished, pc, node, next, todo>>
  BY DEF PushInitialRead, threadVars
<1>3. TypeOK'
  BY <1>1, <1>2 DEF IInv, TypeOK
<1>4. /\ ParentsAreCounted' /\ FinishedWereReady' /\ ReadyHavePlaces' /\ NodesHaveThreads'
      /\ Uncounted' = Uncounted /\ Queued' = Queued
      /\ \A m : Ready(m)' <=> Ready(m)
  BY <1>2, <1>3, CallerQuiet
<1>5. NodesAreCounted'
  BY <1>2, <1>4 DEF IInv, NodesAreCounted
<1>6. Ready(n) /\ n \in Node \ (Queued \cup initial')
  BY <1>1 DEF IInv, CallerPushesAlone, Ready
<1>7. CallerPushesAlone'
  BY <1>1, <1>2, <1>4, <1>6 DEF IInv, CallerPushesAlone
<1> QED
  BY <1>3, <1>4, <1>5, <1>7 DEF IInv

\* It is pushed on that stack, which nobody touched.
LEMMA PushInitialWriteStep ==
    ASSUME IInv, PushInitialWrite
    PROVE  IInv'
<1>1. /\ caller = "push" /\ pushing # <<>> /\ pushing' = <<>>
      /\ m_run_queue' = Pushed(pushing[1], pushing[2])
      /\ UNCHANGED <<parents_to_process, m_nodes_to_process, caller, initial, waking,
                     cycle, finished, pc, node, next, todo>>
  BY DEF PushInitialWrite, threadVars
<1>2. PICK n \in Node \ (Queued \cup initial) : pushing = <<n, m_run_queue>> /\ Ready(n)
  BY <1>1 DEF IInv, CallerPushesAlone
<1>3. m_run_queue' = Pushed(n, m_run_queue)
  BY <1>1, <1>2
<1>4. m_run_queue \in Seq(Node) /\ Distinct(m_run_queue) /\ \A i \in DOMAIN m_run_queue : m_run_queue[i] # n
  BY <1>2 DEF IInv, TypeOK, ReadyHavePlaces, Queued
<1>5. /\ m_run_queue' \in Seq(Node) /\ Distinct(m_run_queue')
      /\ Queued' \subseteq Queued \cup {n}
  <2>1. /\ m_run_queue' \in Seq(Node) /\ Distinct(m_run_queue')
        /\ \A i \in DOMAIN m_run_queue' :
             m_run_queue'[i] = n \/ \E j \in DOMAIN m_run_queue : m_run_queue'[i] = m_run_queue[j]
    BY <1>2, <1>3, <1>4, PushedFacts
  <2> QED
    BY <2>1 DEF Queued
<1>6. TypeOK'
  BY <1>1, <1>5 DEF IInv, TypeOK
<1>7. /\ \A m : Pending(m)' = Pending(m) /\ (Ready(m)' <=> Ready(m))
      /\ Uncounted' = Uncounted
  BY <1>1, NothingTold
<1>8. ParentsAreCounted' /\ NodesAreCounted' /\ FinishedWereReady'
  BY <1>1, <1>7 DEF IInv, ParentsAreCounted, NodesAreCounted, FinishedWereReady
<1>9. (\A t \in Thread : pc[t] = "parked") /\ NodesHaveThreads'
  BY <1>1 DEF IInv, CallerPushesAlone, NodesHaveThreads
<1>10. ReadyHavePlaces'
  BY <1>1, <1>2, <1>5, <1>7, <1>9 DEF IInv, ReadyHavePlaces, Held
<1>11. CallerPushesAlone'
  BY <1>1, <1>2, <1>5, <1>7 DEF IInv, CallerPushesAlone
<1> QED
  BY <1>6, <1>8, <1>9, <1>10, <1>11 DEF IInv

\* The count is stored while no node has run.
LEMMA StoreNodesToProcessStep ==
    ASSUME IInv, StoreNodesToProcess
    PROVE  IInv'
<1>1. /\ caller = "push" /\ initial = {} /\ pushing = <<>> /\ caller' = "wakeup" /\ waking' = 1
      /\ m_nodes_to_process' = Cardinality(Node)
      /\ UNCHANGED <<parents_to_process, m_run_queue, initial, pushing, cycle, finished,
                     pc, node, next, todo>>
  BY DEF StoreNodesToProcess, threadVars
<1>2. TypeOK'
  BY <1>1 DEF IInv, TypeOK
<1>3. /\ ParentsAreCounted' /\ FinishedWereReady' /\ ReadyHavePlaces' /\ NodesHaveThreads'
      /\ Uncounted' = Uncounted
  BY <1>1, <1>2, CallerQuiet
<1>4. Uncounted = Node
  BY <1>1 DEF IInv, CallerPushesAlone, Uncounted
<1>5. NodesAreCounted'
  BY <1>1, <1>3, <1>4 DEF NodesAreCounted
<1>6. CallerPushesAlone'
  BY <1>1 DEF IInv, CallerPushesAlone
<1> QED
  BY <1>2, <1>3, <1>5, <1>6 DEF IInv

\* A worker is woken up.
LEMMA WakeupWorkerStep ==
    ASSUME IInv, WakeupWorker
    PROVE  IInv'
<1>1. /\ caller = "wakeup" /\ waking \in Worker /\ pc[waking] = "parked"
      /\ pc' = [pc EXCEPT ![waking] = "load"] /\ waking' = waking + 1
      /\ UNCHANGED <<parents_to_process, m_nodes_to_process, m_run_queue, caller, initial,
                     pushing, cycle, finished, node, next, todo>>
  BY DEF WakeupWorker
<1>2. waking \in Thread /\ waking # Main /\ Main \in Thread
  BY <1>1, NumbersAssumption DEF Worker, Thread, Main
<1>3. TypeOK'
  BY <1>1, <1>2 DEF IInv, TypeOK
<1>4. \A t \in Thread : pc'[t] = IF t = waking THEN "load" ELSE pc[t]
  BY <1>1, <1>2 DEF IInv, TypeOK
<1>5. /\ ParentsAreCounted' /\ FinishedWereReady' /\ ReadyHavePlaces' /\ NodesHaveThreads'
      /\ Uncounted' = Uncounted
  BY <1>1, <1>3, <1>4, CallerQuiet
<1>6. NodesAreCounted'
  BY <1>1, <1>5 DEF IInv, NodesAreCounted
<1>7. CallerPushesAlone'
  BY <1>1, <1>2, <1>4 DEF IInv, CallerPushesAlone
<1> QED
  BY <1>3, <1>5, <1>6, <1>7 DEF IInv

\* The caller works, too.
LEMMA RunMainWorkerStep ==
    ASSUME IInv, RunMainWorker
    PROVE  IInv'
<1>1. /\ caller = "wakeup" /\ caller' = "work" /\ pc' = [pc EXCEPT ![Main] = "load"]
      /\ UNCHANGED <<parents_to_process, m_nodes_to_process, m_run_queue, initial, pushing,
                     waking, cycle, finished, node, next, todo>>
  BY DEF RunMainWorker
<1>2. Main \in Thread /\ pc[Main] = "parked"
  BY <1>1 DEF IInv, CallerPushesAlone, Thread
<1>3. TypeOK'
  BY <1>1, <1>2 DEF IInv, TypeOK
<1>4. \A t \in Thread : pc'[t] = IF t = Main THEN "load" ELSE pc[t]
  BY <1>1, <1>2 DEF IInv, TypeOK
<1>5. /\ ParentsAreCounted' /\ FinishedWereReady' /\ ReadyHavePlaces' /\ NodesHaveThreads'
      /\ Uncounted' = Uncounted
  BY <1>1, <1>2, <1>3, <1>4, CallerQuiet
<1>6. NodesAreCounted'
  BY <1>1, <1>5 DEF IInv, NodesAreCounted
<1>7. CallerPushesAlone'
  BY <1>1, <1>2, <1>4 DEF IInv, CallerPushesAlone
<1> QED
  BY <1>3, <1>5, <1>6, <1>7 DEF IInv

\* The caller's own part has ended.
LEMMA EndCycleStep ==
    ASSUME IInv, EndCycle
    PROVE  IInv'
<1>1. /\ caller = "work" /\ pc[Main] = "parked" /\ caller' = "idle"
      /\ UNCHANGED <<parents_to_process, m_nodes_to_process, m_run_queue, initial, pushing,
                     waking, cycle, finished, pc, node, next, todo>>
  BY DEF EndCycle, threadVars
<1>2. TypeOK'
  BY <1>1 DEF IInv, TypeOK
<1>3. /\ ParentsAreCounted' /\ FinishedWereReady' /\ ReadyHavePlaces' /\ NodesHaveThreads'
      /\ Uncounted' = Uncounted
  BY <1>1, <1>2, CallerQuiet
<1>4. NodesAreCounted' /\ CallerPushesAlone'
  BY <1>1, <1>3 DEF IInv, NodesAreCounted, CallerPushesAlone
<1> QED
  BY <1>2, <1>3, <1>4 DEF IInv

-----------------------------------------------------------------------------
\* Steps of a thread.

\* A thread that is not parked works in a cycle, and the caller has pushed all.
LEMMA WorkingFacts ==
    ASSUME IInv, NEW t \in Thread, pc[t] # "parked"
    PROVE  caller # "push" /\ initial = {} /\ pushing = <<>> /\ (t = Main => caller = "work")
  BY DEF IInv, CallerPushesAlone

\* What remains of CallerPushesAlone is what the caller's return means.
LEMMA WorkingKeepsCaller ==
    ASSUME IInv, NEW t \in Thread, pc[t] # "parked",
           UNCHANGED <<caller, initial, pushing>>,
           \A u \in Thread \ {t} : pc'[u] = pc[u],
           finished \subseteq finished', finished' \subseteq Node,
           t = Main /\ pc'[Main] = "parked" => finished' = Node
    PROVE  CallerPushesAlone'
<1>1. caller # "push" /\ initial = {} /\ pushing = <<>> /\ (t = Main => caller = "work")
  BY WorkingFacts
<1>2. Main \in Thread
  BY DEF Thread
<1>3. caller # "work" => pc'[Main] = "parked"
  BY <1>1, <1>2 DEF IInv, CallerPushesAlone
<1>4. caller = "idle" \/ (caller = "work" /\ pc'[Main] = "parked") => finished' = Node
  BY <1>1, <1>2 DEF IInv, CallerPushesAlone
<1> QED
  BY <1>1, <1>3, <1>4 DEF CallerPushesAlone

\* A thread that finds nothing left to count has seen all nodes run.
LEMMA LoadStep ==
    ASSUME IInv, NEW t \in Thread, LoadNodesToProcess(t)
    PROVE  IInv' /\ UNCHANGED <<cycle, finished>>
<1>1. /\ pc[t] = "load"
      /\ pc' = [pc EXCEPT ![t] = IF m_nodes_to_process = 0 THEN "parked" ELSE "pop"]
      /\ UNCHANGED <<parents_to_process, m_nodes_to_process, m_run_queue, finished, node,
                     next, todo, caller, initial, pushing, waking, cycle>>
  BY DEF LoadNodesToProcess, callerVars
<1>2. TypeOK'
  BY <1>1 DEF IInv, TypeOK
<1>3. \A u \in Thread :
        pc'[u] = IF u = t THEN (IF m_nodes_to_process = 0 THEN "parked" ELSE "pop") ELSE pc[u]
  BY <1>1 DEF IInv, TypeOK
<1>4. /\ ParentsAreCounted' /\ FinishedWereReady' /\ ReadyHavePlaces' /\ NodesHaveThreads'
      /\ Uncounted' = Uncounted
  BY <1>1, <1>2, <1>3, CallerQuiet
<1>5. NodesAreCounted'
  BY <1>1, <1>4 DEF IInv, NodesAreCounted
<1>6. m_nodes_to_process = 0 => finished = Node
  <2> SUFFICES ASSUME m_nodes_to_process = 0 PROVE finished = Node
    OBVIOUS
  <2>1. Cardinality(Uncounted) = 0
    BY <1>1, WorkingFacts DEF IInv, NodesAreCounted
  <2>2. Uncounted = {}
    BY <2>1, PendingIsSet, SmallSets, FS_EmptySet
  <2> QED
    BY <2>2 DEF IInv, TypeOK, Uncounted
<1>7. finished \subseteq Node /\ Main \in Thread
  BY DEF IInv, TypeOK, Thread
<1>8. t = Main /\ pc'[Main] = "parked" => finished' = Node
  BY <1>1, <1>3, <1>6, <1>7
<1>9. CallerPushesAlone'
  BY <1>1, <1>3, <1>7, <1>8, WorkingKeepsCaller
<1> QED
  BY <1>1, <1>2, <1>4, <1>5, <1>9 DEF IInv

\* A thread takes the top of the stack.
LEMMA PopStep ==
    ASSUME IInv, NEW t \in Thread, Pop(t)
    PROVE  IInv' /\ UNCHANGED <<cycle, finished>>
<1>1. /\ pc[t] = "pop"
      /\ UNCHANGED <<parents_to_process, m_nodes_to_process, finished, next, todo,
                     caller, initial, pushing, waking, cycle>>
  BY DEF Pop, callerVars
<1>2. CASE m_run_queue = <<>>
  <2>1. pc' = [pc EXCEPT ![t] = "load"] /\ UNCHANGED <<m_run_queue, node>>
    BY <1>2 DEF Pop
  <2>2. TypeOK'
    BY <1>1, <2>1 DEF IInv, TypeOK
  <2>3. \A u \in Thread : pc'[u] = IF u = t THEN "load" ELSE pc[u]
    BY <2>1 DEF IInv, TypeOK
  <2>4. /\ ParentsAreCounted' /\ FinishedWereReady' /\ ReadyHavePlaces' /\ NodesHaveThreads'
        /\ Uncounted' = Uncounted
    BY <1>1, <2>1, <2>2, <2>3, CallerQuiet
  <2>5. NodesAreCounted'
    BY <1>1, <2>4 DEF IInv, NodesAreCounted
  <2>6. finished \subseteq Node
    BY DEF IInv, TypeOK
  <2>7. CallerPushesAlone'
    BY <1>1, <2>3, <2>6, WorkingKeepsCaller
  <2> QED
    BY <1>1, <2>2, <2>4, <2>5, <2>7 DEF IInv
<1>3. CASE m_run_queue # <<>>
  <2> DEFINE h == Head(m_run_queue)
  <2>1. /\ pc' = [pc EXCEPT ![t] = "task"] /\ node' = [node EXCEPT ![t] = h]
        /\ m_run_queue' = Tail(m_run_queue)
    BY <1>3 DEF Pop
  <2>2. /\ h \in Node /\ m_run_queue' \in Seq(Node) /\ Distinct(m_run_queue')
        /\ h \in Queued /\ Queued' \subseteq Queued \ {h}
    <3>1. m_run_queue \in Seq(Node) /\ Distinct(m_run_queue)
      BY DEF IInv, TypeOK, ReadyHavePlaces
    <3>2. /\ h \in Node /\ m_run_queue' \in Seq(Node) /\ Distinct(m_run_queue')
          /\ \E j \in DOMAIN m_run_queue : h = m_run_queue[j]
          /\ \A i \in DOMAIN m_run_queue' :
               m_run_queue'[i] # h /\ \E j \in DOMAIN m_run_queue : m_run_queue'[i] = m_run_queue[j]
      BY <1>3, <2>1, <3>1, PoppedFacts
    <3> QED
      BY <3>2 DEF Queued
  <2> HIDE DEF h
  <2>3. TypeOK'
    BY <1>1, <2>1, <2>2 DEF IInv, TypeOK, Node0
  <2>4. \A u \in Thread : /\ pc'[u] = IF u = t THEN "task" ELSE pc[u]
                          /\ node'[u] = IF u = t THEN h ELSE node[u]
    BY <2>1 DEF IInv, TypeOK
  <2>5. /\ \A m : Pending(m)' = Pending(m) /\ (Ready(m)' <=> Ready(m))
        /\ Uncounted' = Uncounted
    BY <1>1, <2>4, NothingTold
  <2>6. ParentsAreCounted' /\ NodesAreCounted' /\ FinishedWereReady'
    BY <1>1, <2>5 DEF IInv, ParentsAreCounted, NodesAreCounted, FinishedWereReady
  <2>7. \A u \in Thread : Held(u)' = IF u = t THEN h ELSE Held(u)
    BY <1>1, <2>4 DEF Held
  <2>8. ReadyHavePlaces'
    BY <2>2, <2>5, <2>7 DEF IInv, ReadyHavePlaces
  <2>9. NodesHaveThreads'
    BY <1>1, <2>2, <2>4 DEF IInv, NodesHaveThreads
  <2>10. finished \subseteq Node
    BY DEF IInv, TypeOK
  <2>11. CallerPushesAlone'
    BY <1>1, <2>4, <2>10, WorkingKeepsCaller
  <2> QED
    BY <1>1, <2>3, <2>6, <2>8, <2>9, <2>11 DEF IInv
<1> QED
  BY <1>2, <1>3

\* A thread runs the node it holds: its parents have run, and it has not.
LEMMA TaskStep ==
    ASSUME IInv, NEW t \in Thread, Task(t)
    PROVE  IInv' /\ Schedule!Run(node[t]) /\ node[t] \in Node
<1> DEFINE n == node[t]
<1>1. /\ pc[t] = "task" /\ finished' = finished \cup {n}
      /\ todo' = [todo EXCEPT ![t] = Children[n]]
      /\ next' = [next EXCEPT ![t] = NoNode]
      /\ pc' = [pc EXCEPT ![t] = "children"]
      /\ UNCHANGED <<parents_to_process, m_nodes_to_process, m_run_queue, node,
                     caller, initial, pushing, waking, cycle>>
  BY DEF Task, callerVars
<1>2. n \in Node /\ n # NoNode /\ Held(t) = n
  BY <1>1, GraphAssumption DEF IInv, NodesHaveThreads, Held
<1>3. n \notin finished /\ Pending(n) = {}
  BY <1>2 DEF IInv, ReadyHavePlaces, Ready
<1> HIDE DEF n
<1>4. Schedule!Run(n)
  <2>1. Parents(n) \subseteq finished
    BY <1>3 DEF Pending
  <2> QED
    BY <1>1, <1>3, <2>1 DEF Schedule!Run, Schedule!Parents, Parents
<1>5. Children[n] \in SUBSET Node
  BY <1>2, GraphAssumption
<1>6. TypeOK'
  BY <1>1, <1>2, <1>5 DEF IInv, TypeOK, Node0
<1>7. \A u \in Thread :
        /\ pc'[u] = IF u = t THEN "children" ELSE pc[u]
        /\ todo'[u] = IF u = t THEN Children[n] ELSE todo[u]
        /\ next'[u] = IF u = t THEN NoNode ELSE next[u]
        /\ node'[u] = node[u]
        /\ node'[t] = n
  BY <1>1 DEF IInv, TypeOK, n
<1>8. \A u \in Thread : \A p, m : Tells(u, p, m)' <=>
        Tells(u, p, m) \/ (u = t /\ p = n /\ m \in Children[n])
  BY <1>1, <1>7 DEF Tells
<1>9. \A m : Pending(m)' = Pending(m)
  BY <1>1, <1>3, <1>8 DEF Pending, Parents
<1>10. Uncounted' = Uncounted
  BY <1>1, <1>2, <1>3, <1>7 DEF Uncounted
<1>11. \A m : m # n => (Ready(m)' <=> Ready(m))
  BY <1>1, <1>9 DEF Ready
<1>12. ParentsAreCounted' /\ NodesAreCounted' /\ FinishedWereReady'
  BY <1>1, <1>3, <1>9, <1>10 DEF IInv, ParentsAreCounted, NodesAreCounted, FinishedWereReady
<1>13. Queued' = Queued /\ \A u \in Thread : Held(u)' = IF u = t THEN NoNode ELSE Held(u)
  BY <1>1, <1>7 DEF Queued, Held
<1>14. ReadyHavePlaces'
  BY <1>1, <1>2, <1>11, <1>13 DEF IInv, ReadyHavePlaces
<1>15. NodesHaveThreads'
  BY <1>1, <1>3, <1>7 DEF IInv, NodesHaveThreads
<1>16. finished \subseteq finished' /\ finished' \subseteq Node /\ (t = Main => pc'[Main] # "parked")
  BY <1>1, <1>2, <1>7 DEF IInv, TypeOK
<1>17. CallerPushesAlone'
  BY <1>1, <1>7, <1>16, WorkingKeepsCaller
<1> QED
  BY <1>2, <1>4, <1>6, <1>12, <1>14, <1>15, <1>17 DEF IInv, n

\* A thread tells a child: the child has one parent less to wait for, and when
\* there is none left it has nowhere been yet.
LEMMA NotifyChildStep ==
    ASSUME IInv, NEW t \in Thread, NotifyChild(t)
    PROVE  IInv' /\ UNCHANGED <<cycle, finished>>
<1>1. PICK c \in todo[t] :
        /\ todo' = [todo EXCEPT ![t] = @ \ {c}]
        /\ parents_to_process' = [parents_to_process EXCEPT ![c] = Decremented(@)]
        /\ IF parents_to_process[c] # 1
           THEN UNCHANGED <<next, m_run_queue>>
           ELSE IF next[t] = NoNode
                THEN /\ next' = [next EXCEPT ![t] = c]
                     /\ UNCHANGED m_run_queue
                ELSE /\ m_run_queue' = Pushed(c, m_run_queue)
                     /\ UNCHANGED next
  BY DEF NotifyChild
<1>2. /\ pc[t] = "children"
      /\ UNCHANGED <<m_nodes_to_process, finished, pc, node, caller, initial, pushing,
                     waking, cycle>>
  BY DEF NotifyChild, callerVars
<1> DEFINE n == node[t]
<1>3. n \in finished /\ n \in Node /\ todo[t] \subseteq Children[n] /\ c \in Node
  BY <1>1, <1>2 DEF IInv, NodesHaveThreads, TypeOK
<1>4. \A u \in Thread : pc[u] = "children" /\ node[u] = n => u = t
  BY <1>2 DEF IInv, NodesHaveThreads
<1>5. \A u \in Thread : todo'[u] = IF u = t THEN todo[t] \ {c} ELSE todo[u]
  BY <1>1 DEF IInv, TypeOK
<1>6. n \in Pending(c)
  BY <1>1, <1>2, <1>3 DEF Pending, Parents, Tells
<1>7. \A u \in Thread : \A p, m : Tells(u, p, m)' <=> Tells(u, p, m) /\ ~(p = n /\ m = c)
  BY <1>2, <1>4, <1>5 DEF Tells
<1> HIDE DEF n
<1>8. Pending(c)' = Pending(c) \ {n}
  BY <1>2, <1>3, <1>7 DEF Pending, Parents
<1>9. \A m : m # c => Pending(m)' = Pending(m)
  BY <1>2, <1>7 DEF Pending, Parents
<1>10. parents_to_process[c] = Cardinality(Pending(c))
  BY <1>3 DEF IInv, ParentsAreCounted
<1>11. Decremented(parents_to_process[c]) = Cardinality(Pending(c)')
  BY <1>6, <1>8, <1>10, PendingIsSet, DecrementedIsRemoved
<1>12. /\ parents_to_process \in [Node -> Nat]
       /\ parents_to_process' = [parents_to_process EXCEPT ![c] = Cardinality(Pending(c)')]
       /\ parents_to_process' \in [Node -> Nat]
  <2>1. Cardinality(Pending(c)') \in Nat
    BY <1>8, PendingIsSet, SmallSets
  <2> QED
    BY <1>1, <1>11, <2>1 DEF IInv, TypeOK
<1>13. ParentsAreCounted'
  BY <1>3, <1>9, <1>12 DEF IInv, ParentsAreCounted
<1>14. Uncounted' = Uncounted
  BY <1>2 DEF Uncounted
<1>15. NodesAreCounted'
  BY <1>2, <1>14 DEF IInv, NodesAreCounted
<1>16. FinishedWereReady'
  BY <1>2, <1>6, <1>9 DEF IInv, FinishedWereReady
<1>17. c \notin finished /\ ~Ready(c)
  BY <1>6 DEF IInv, FinishedWereReady, Ready
<1>18. \A m : Ready(m) => Ready(m)' /\ m # c
  BY <1>2, <1>9, <1>17 DEF Ready
<1>19. c \notin Queued /\ \A u \in Thread : Held(u) # c
  BY <1>3, <1>17, GraphAssumption DEF IInv, ReadyHavePlaces
<1>20. NodesHaveThreads'
  BY <1>2, <1>5 DEF IInv, NodesHaveThreads
<1>21. CallerPushesAlone'
  <2>1. finished \subseteq Node /\ (t = Main => pc'[Main] # "parked")
    BY <1>2 DEF IInv, TypeOK
  <2> QED
    BY <1>2, <2>1, WorkingKeepsCaller
<1>22. parents_to_process[c] = 1 => Ready(c)'
  <2> SUFFICES ASSUME parents_to_process[c] = 1 PROVE Ready(c)'
    OBVIOUS
  <2>1. IsFiniteSet(Pending(c)) /\ Cardinality(Pending(c)) = 1
    BY <1>10, PendingIsSet, SmallSets
  <2>2. Pending(c) = {n}
    BY <2>1, <1>6, FS_Singleton
  <2> QED
    BY <2>2, <1>2, <1>3, <1>8, <1>17 DEF Ready
<1>23. todo' \in [Thread -> SUBSET Node]
  BY <1>1 DEF IInv, TypeOK
<1>24. ReadyHavePlaces' /\ TypeOK'
  <2>1. CASE UNCHANGED <<next, m_run_queue>>
    <3>1. Queued' = Queued /\ \A u \in Thread : Held(u)' = Held(u)
      BY <1>2, <2>1 DEF Queued, Held
    <3>2. ReadyHavePlaces'
      BY <2>1, <3>1, <1>18 DEF IInv, ReadyHavePlaces
    <3>3. TypeOK'
      BY <1>2, <1>12, <1>23, <2>1 DEF IInv, TypeOK
    <3> QED
      BY <3>2, <3>3
  <2>2. CASE /\ parents_to_process[c] = 1 /\ next[t] = NoNode
             /\ next' = [next EXCEPT ![t] = c] /\ UNCHANGED m_run_queue
    <3>1. next' \in [Thread -> Node0] /\ next'[t] = c
          /\ \A u \in Thread \ {t} : next'[u] = next[u]
      BY <2>2, <1>3 DEF IInv, TypeOK, Node0
    <3>2. Queued' = Queued /\ \A u \in Thread : Held(u)' = IF u = t THEN c ELSE Held(u)
      BY <1>2, <2>2, <3>1 DEF Queued, Held
    <3>3. ReadyHavePlaces'
      BY <2>2, <3>2, <1>18, <1>19, <1>22 DEF IInv, ReadyHavePlaces
    <3>4. TypeOK'
      BY <1>2, <1>12, <1>23, <2>2, <3>1 DEF IInv, TypeOK
    <3> QED
      BY <3>3, <3>4
  <2>3. CASE /\ parents_to_process[c] = 1
             /\ m_run_queue' = Pushed(c, m_run_queue) /\ UNCHANGED next
    <3>1. /\ m_run_queue \in Seq(Node) /\ Distinct(m_run_queue)
          /\ \A i \in DOMAIN m_run_queue : m_run_queue[i] # c
      BY <1>19 DEF IInv, TypeOK, ReadyHavePlaces, Queued
    <3>2. /\ m_run_queue' \in Seq(Node) /\ Distinct(m_run_queue')
          /\ \A i \in DOMAIN m_run_queue' :
               m_run_queue'[i] = c \/ \E j \in DOMAIN m_run_queue : m_run_queue'[i] = m_run_queue[j]
      BY <1>3, <2>3, <3>1, PushedFacts
    <3>3. Queued' \subseteq Queued \cup {c} /\ \A u \in Thread : Held(u)' = Held(u)
      BY <1>2, <2>3, <3>2 DEF Queued, Held
    <3>4. ReadyHavePlaces'
      BY <2>3, <3>2, <3>3, <1>18, <1>19, <1>22 DEF IInv, ReadyHavePlaces
    <3>5. TypeOK'
      BY <1>2, <1>12, <1>23, <2>3, <3>2 DEF IInv, TypeOK
    <3> QED
      BY <3>4, <3>5
  <2> QED
    BY <1>1, <2>1, <2>2, <2>3
<1> QED
  BY <1>2, <1>13, <1>15, <1>16, <1>20, <1>21, <1>24 DEF IInv

\* A thread counts its node down, and goes on with the child it kept.
LEMMA CountNodeStep ==
    ASSUME IInv, NEW t \in Thread, CountNode(t)
    PROVE  IInv' /\ UNCHANGED <<cycle, finished>>
<1> DEFINE n == node[t]
<1>1. /\ pc[t] = "children" /\ todo[t] = {}
      /\ m_nodes_to_process' = Decremented(m_nodes_to_process)
      /\ node' = [node EXCEPT ![t] = next[t]]
      /\ pc' = [pc EXCEPT ![t] = IF next[t] = NoNode THEN "load" ELSE "task"]
      /\ UNCHANGED <<parents_to_process, m_run_queue, finished, next, todo,
                     caller, initial, pushing, waking, cycle>>
  BY DEF CountNode, callerVars
<1>2. n \in finished /\ n \in Node /\ next[t] \in Node0
  BY <1>1 DEF IInv, NodesHaveThreads, TypeOK
<1>3. \A u \in Thread : pc[u] = "children" /\ node[u] = n => u = t
  BY <1>1 DEF IInv, NodesHaveThreads
<1>4. \A u \in Thread :
        /\ pc'[u] = IF u = t THEN (IF next[t] = NoNode THEN "load" ELSE "task") ELSE pc[u]
        /\ node'[u] = IF u = t THEN next[t] ELSE node[u]
  BY <1>1 DEF IInv, TypeOK
<1>5. TypeOK'
  BY <1>1, <1>2 DEF IInv, TypeOK, NodesAreCounted
<1>6. n \in Uncounted
  BY <1>1, <1>2 DEF Uncounted
<1>7. \A m \in Node : (\E u \in Thread : pc'[u] = "children" /\ node'[u] = m)
                      <=> (m # n /\ \E u \in Thread : pc[u] = "children" /\ node[u] = m)
  BY <1>3, <1>4
<1>8. \A u \in Thread : \A p, m : Tells(u, p, m)' <=> Tells(u, p, m)
  BY <1>1, <1>4 DEF Tells
<1> HIDE DEF n
<1>9. Uncounted' = Uncounted \ {n}
  BY <1>1, <1>2, <1>7 DEF Uncounted
<1>10. NodesAreCounted'
  <2>1. m_nodes_to_process = Cardinality(Uncounted)
    BY <1>1, WorkingFacts DEF IInv, NodesAreCounted
  <2>2. m_nodes_to_process' = Cardinality(Uncounted')
    BY <1>1, <1>6, <1>9, <2>1, PendingIsSet, DecrementedIsRemoved
  <2> QED
    BY <2>2 DEF NodesAreCounted
<1>11. \A m : Pending(m)' = Pending(m)
  BY <1>1, <1>8 DEF Pending, Parents
<1>12. \A m : Ready(m)' <=> Ready(m)
  BY <1>1, <1>11 DEF Ready
<1>13. ParentsAreCounted' /\ FinishedWereReady'
  BY <1>1, <1>11 DEF IInv, ParentsAreCounted, FinishedWereReady
<1>14. Queued' = Queued /\ \A u \in Thread : Held(u)' = Held(u)
  BY <1>1, <1>4 DEF Queued, Held
<1>15. ReadyHavePlaces'
  BY <1>1, <1>12, <1>14 DEF IInv, ReadyHavePlaces
<1>16. NodesHaveThreads'
  BY <1>1, <1>2, <1>4 DEF IInv, NodesHaveThreads, Node0
<1>17. finished \subseteq Node /\ (t = Main => pc'[Main] # "parked")
  BY <1>1, <1>4 DEF IInv, TypeOK
<1>18. CallerPushesAlone'
  BY <1>1, <1>4, <1>17, WorkingKeepsCaller
<1> QED
  BY <1>1, <1>5, <1>10, <1>13, <1>15, <1>16, <1>18 DEF IInv

-----------------------------------------------------------------------------
\* Every timely step keeps the invariant, and is one of DagSchedule or none.
LEMMA StepIInv ==
    ASSUME IInv, [TimelyNext]_vars
    PROVE  IInv' /\ [Schedule!Next]_(Schedule!vars)
<1>1. CASE BeginCycle
  <2>1. cycle' # cycle
    BY <1>1 DEF BeginCycle, IInv, TypeOK
  <2>2. AllParked
    BY <1>1, <2>1 DEF TimelyNext, vars, callerVars
  <2>3. IInv' /\ finished = Node
    BY <1>1, <2>2, BeginCycleStep
  <2>4. Schedule!StartCycle
    BY <1>1, <2>3 DEF BeginCycle, Schedule!StartCycle
  <2> QED
    BY <2>3, <2>4 DEF Schedule!Next
<1>2. CASE Caller /\ ~BeginCycle
  <2>1. IInv'
    BY <1>2, PushInitialReadStep, PushInitialWriteStep, StoreNodesToProcessStep,
       WakeupWorkerStep, RunMainWorkerStep, EndCycleStep DEF Caller
  <2>2. UNCHANGED <<cycle, finished>>
    BY <1>2 DEF Caller, PushInitialRead, PushInitialWrite, StoreNodesToProcess,
       WakeupWorker, RunMainWorker, EndCycle
  <2> QED
    BY <2>1, <2>2 DEF Schedule!vars
<1>3. ASSUME NEW t \in Thread, ThreadStep(t)
      PROVE  IInv' /\ [Schedule!Next]_(Schedule!vars)
  <2>1. CASE Task(t)
    BY <2>1, TaskStep DEF Schedule!Next
  <2>2. CASE LoadNodesToProcess(t) \/ Pop(t) \/ NotifyChild(t) \/ CountNode(t)
    BY <2>2, LoadStep, PopStep, NotifyChildStep, CountNodeStep DEF Schedule!vars
  <2> QED
    BY <1>3, <2>1, <2>2 DEF ThreadStep
<1>4. CASE UNCHANGED vars
  <2>1. UNCHANGED <<parents_to_process, m_nodes_to_process, m_run_queue, finished, pc, node,
                    next, todo, caller, initial, pushing, waking, cycle>>
    BY <1>4 DEF vars, threadVars, callerVars
  <2>2. TypeOK'
    BY <2>1 DEF IInv, TypeOK
  <2>3. /\ ParentsAreCounted' /\ FinishedWereReady' /\ ReadyHavePlaces' /\ NodesHaveThreads'
        /\ Uncounted' = Uncounted /\ Queued' = Queued
        /\ \A n : Ready(n)' <=> Ready(n)
    BY <2>1, <2>2, CallerQuiet
  <2>4. NodesAreCounted' /\ CallerPushesAlone'
    BY <2>1, <2>3 DEF IInv, NodesAreCounted, CallerPushesAlone
  <2> QED
    BY <2>1, <2>2, <2>3, <2>4 DEF IInv, Schedule!vars
<1> QED
  BY <1>1, <1>2, <1>3, <1>4 DEF TimelyNext, Next

\* The invariant holds as long as the workers park in time.
THEOREM SpecIInv == TimelySpec => []IInv
<1>1. IInv /\ [TimelyNext]_vars => IInv'
  BY StepIInv
<1> QED
  BY <1>1, InitIInv, PTL DEF TimelySpec

\* Every cycle runs each node of the graph exactly once and after its parents,
\* and operator() does not begin another one before: however the threads share
\* the stack, and whatever does not fit into it.
THEOREM SpecImplementsDagSchedule == TimelySpec => ImplementsDagSchedule
<1>1. Init => Schedule!Init
  BY DEF Init, Schedule!Init
<1>2. IInv /\ [TimelyNext]_vars => [Schedule!Next]_(Schedule!vars)
  BY StepIInv
<1> QED
  BY <1>1, <1>2, SpecIInv, PTL DEF TimelySpec, ImplementsDagSchedule, Schedule!Spec

\* The counter that process_node verifies is positive whenever a thread counts
\* its node down: that the workers park in time is all that it takes.
THEOREM SpecCounterNeverUnderflows == TimelySpec => []CounterNeverUnderflows
<1>1. IInv => CounterNeverUnderflows
  <2> SUFFICES ASSUME IInv, NEW t \in Thread, pc[t] = "children"
               PROVE  m_nodes_to_process > 0
    BY DEF CounterNeverUnderflows
  <2>1. node[t] \in Uncounted
    BY DEF IInv, NodesHaveThreads, TypeOK, Uncounted
  <2>2. m_nodes_to_process = Cardinality(Uncounted)
    BY WorkingFacts DEF IInv, NodesAreCounted
  <2>3. IsFiniteSet(Uncounted) /\ Cardinality(Uncounted) \in Nat
    BY PendingIsSet, SmallSets
  <2>4. Cardinality(Uncounted) # 0
    BY <2>1, <2>3, FS_EmptySet
  <2> QED
    BY <2>2, <2>3, <2>4
<1> QED
  BY <1>1, SpecIInv, PTL

-----------------------------------------------------------------------------
(***************************************************************************)
(* The threads are workers (Worker), for every number of tasks.  The       *)
(* argument is a token: exactly one of sem_finished, the owner, sem_work   *)
(* and the thread holds the right to touch m_task, and the token's place   *)
(* tells how far the thread is behind the owner.                           *)
(***************************************************************************)

\* sem_finished holds the token: the thread waits and every task ran.
Parked == m_sem_finished = 1 =>
    /\ m_sem_work = 0
    /\ owner = "idle"
    /\ thread = "acquire"
    /\ executed = m_task
    /\ ~stop_requested

\* The owner holds it: the thread waits for work.
Owned == Owning =>
    /\ m_sem_work = 0
    /\ m_sem_finished = 0
    /\ thread = "acquire"
    /\ stop_requested <=> owner = "release_stop"
    /\ m_task = IF owner = "release" THEN executed + 1 ELSE executed

\* sem_work holds it: the thread is about to start.
HandedOver == m_sem_work = 1 =>
    /\ m_sem_finished = 0
    /\ thread = "acquire"
    /\ owner \in {"idle", "join"}
    /\ m_task = IF stop_requested THEN executed ELSE executed + 1

\* The thread holds it.
ThreadHolds == Working =>
    /\ m_sem_work = 0
    /\ m_sem_finished = 0
    /\ owner \in {"idle", "join"}
    /\ m_task = IF stop_requested \/ thread = "release"
                THEN executed ELSE executed + 1
    /\ stop_requested => thread = "check"

\* Somebody holds it until the thread exits; a stop comes from the destructor.
Stopping ==
    /\ m_sem_work \in {0, 1}
    /\ m_sem_finished \in {0, 1}
    /\ stop_requested <=> owner \in {"release_stop", "join", "destroyed"}
    /\ thread = "exited" => stop_requested /\ executed = m_task
    /\ thread = "exited" => m_sem_work = 0 /\ m_sem_finished = 0
    /\ owner \in {"join", "destroyed"} => executed = m_task
    /\ owner = "assign" => m_task < MaxTasks

TokenInv == WorkerTypeOK /\ Parked /\ Owned /\ HandedOver /\ ThreadHolds /\ Stopping

\* The token of a new worker is in m_sem_finished.
LEMMA InitTokenInv == WorkerInit => TokenInv
<1> SUFFICES ASSUME WorkerInit PROVE TokenInv
  OBVIOUS
<1> USE MaxTasksAssumption DEF WorkerInit
<1>1. WorkerTypeOK
  <2>1. stop_requested \in BOOLEAN
    BY Zenon
  <2> QED BY <2>1 DEF WorkerTypeOK
<1>2. Parked
  BY DEF Parked
<1>3. ~Owning /\ ~Working
  BY DEF Owning, Working
<1>4. Owned /\ HandedOver /\ ThreadHolds
  BY <1>3 DEF Owned, HandedOver, ThreadHolds
<1>5. Stopping
  BY DEF Stopping
<1> QED BY <1>1, <1>2, <1>4, <1>5 DEF TokenInv

\* Each step of the owner and of the thread keeps or moves the token.
LEMMA StepTokenInv == TokenInv /\ [WorkerNext]_workerVars => TokenInv'
<1> SUFFICES ASSUME TokenInv, [WorkerNext]_workerVars PROVE TokenInv'
  OBVIOUS
<1> USE MaxTasksAssumption
    DEF TokenInv, WorkerTypeOK, Parked, Owned, HandedOver, ThreadHolds, Stopping, Owning,
        Working
<1>1. CASE WakeupAcquire
  BY <1>1 DEF WakeupAcquire
<1>2. CASE WakeupAssign
  BY <1>2 DEF WakeupAssign
<1>3. CASE WakeupRelease
  BY <1>3 DEF WakeupRelease
<1>4. CASE DestroyAcquire
  BY <1>4 DEF DestroyAcquire
<1>5. CASE DestroyRequestStop
  BY <1>5 DEF DestroyRequestStop
<1>6. CASE DestroyRelease
  BY <1>6 DEF DestroyRelease
<1>7. CASE DestroyJoin
  BY <1>7 DEF DestroyJoin
<1>8. CASE ThreadAcquire
  BY <1>8 DEF ThreadAcquire
<1>9. CASE ThreadCheck
  BY <1>9 DEF ThreadCheck
<1>10. CASE ThreadTask
  BY <1>10 DEF ThreadTask
<1>11. CASE ThreadRelease
  BY <1>11 DEF ThreadRelease
<1>12. CASE UNCHANGED workerVars
  BY <1>12 DEF workerVars
<1> QED
  BY <1>1, <1>2, <1>3, <1>4, <1>5, <1>6, <1>7, <1>8, <1>9, <1>10, <1>11, <1>12
     DEF WorkerNext, Wakeup, Destroy, WorkerThread

\* The inductive invariant holds throughout.
THEOREM SpecTokenInv == WorkerSpec => []TokenInv
BY InitTokenInv, StepTokenInv, PTL DEF WorkerSpec

\* The semaphores are never released beyond one (std::binary_semaphore).
THEOREM SpecSemaphoresStayBinary == WorkerSpec => []SemaphoresStayBinary
<1>1. TokenInv => SemaphoresStayBinary
  BY DEF TokenInv, Owned, ThreadHolds, Owning, Working, SemaphoresStayBinary
<1> QED BY <1>1, SpecTokenInv, PTL

\* m_task is never assigned while the thread may call it.
THEOREM SpecTaskIsNotRaced == WorkerSpec => []TaskIsNotRaced
<1>1. TokenInv => TaskIsNotRaced
  BY DEF TokenInv, Owned, ThreadHolds, Owning, Working, TaskIsNotRaced
<1> QED BY <1>1, SpecTokenInv, PTL

\* No wakeup is lost, overwritten or run twice.
THEOREM SpecTasksRunInOrder == WorkerSpec => []TasksRunInOrder
<1>1. TokenInv => TasksRunInOrder
  BY DEF TokenInv, ThreadHolds, Working, TasksRunInOrder
<1> QED BY <1>1, SpecTokenInv, PTL

\* The destructor stops the thread between two tasks only.
THEOREM SpecNoTaskLostAtStop == WorkerSpec => []NoTaskLostAtStop
<1>1. TokenInv => NoTaskLostAtStop
  BY DEF TokenInv, WorkerTypeOK, Stopping, Owned, Owning, NoTaskLostAtStop
<1> QED BY <1>1, SpecTokenInv, PTL

\* The worker implements the abstract handoff.
THEOREM SpecImplementsHandoff == WorkerSpec => ImplementsHandoff
<1>1. WorkerInit => Abstract!Init
  BY DEF WorkerInit, Abstract!Init
<1>2. TokenInv /\ [WorkerNext]_workerVars => [Abstract!Next]_Abstract!vars
  <2> SUFFICES ASSUME TokenInv, [WorkerNext]_workerVars
               PROVE  [Abstract!Next]_Abstract!vars
    OBVIOUS
  <2> USE DEF Abstract!vars, TokenInv, WorkerTypeOK, Parked, Owned, HandedOver, ThreadHolds,
              Stopping, Owning, Working
  <2>1. CASE WakeupAcquire
    BY <2>1 DEF WakeupAcquire, Abstract!Next, Abstract!Accept
  <2>2. CASE WakeupAssign
    BY <2>2 DEF WakeupAssign
  <2>3. CASE WakeupRelease
    BY <2>3 DEF WakeupRelease
  <2>4. CASE DestroyAcquire
    BY <2>4 DEF DestroyAcquire, Abstract!Next, Abstract!Stop
  <2>5. CASE DestroyRequestStop
    BY <2>5 DEF DestroyRequestStop
  <2>6. CASE DestroyRelease
    BY <2>6 DEF DestroyRelease
  <2>7. CASE DestroyJoin
    BY <2>7 DEF DestroyJoin
  <2>8. CASE ThreadAcquire
    BY <2>8 DEF ThreadAcquire
  <2>9. CASE ThreadCheck
    BY <2>9 DEF ThreadCheck
  <2>10. CASE ThreadTask
    BY <2>10 DEF ThreadTask
  <2>11. CASE ThreadRelease
    BY <2>11 DEF ThreadRelease, Abstract!Next, Abstract!Complete
  <2>12. CASE UNCHANGED workerVars
    BY <2>12 DEF workerVars
  <2> QED
    BY <2>1, <2>2, <2>3, <2>4, <2>5, <2>6, <2>7, <2>8, <2>9, <2>10, <2>11,
       <2>12 DEF WorkerNext, Wakeup, Destroy, WorkerThread
<1> QED BY <1>1, <1>2, SpecTokenInv, PTL DEF WorkerSpec, ImplementsHandoff, Abstract!Spec

-----------------------------------------------------------------------------
(***************************************************************************)
(* The filter (FilterFx), for every length of a period, all coefficients,  *)
(* signals and events.  The equation of the filter is written as what each *)
(* biquad remembers after each frame; ProcessSample is one step of that,   *)
(* so a processor after a slice, after all events, and after a period is   *)
(* the reference there, whatever the cuts.  Both the equation and the      *)
(* processor are recursive functions: that they have a value, and which,   *)
(* is by the least number at which it would not be so.                     *)
(***************************************************************************)

(* Sets of numbers, and the values of the parameters. *)

\* A set of numbers has a least one.
LEMMA LeastNumber ==
    ASSUME NEW values \in SUBSET Nat, values # {}
    PROVE  \E x \in values : \A y \in values : x <= y
<1>1. PICK x \in values : \A y \in values : ~(<<y, x>> \in OpToRel(<, Nat))
    <2>1. IsWellFoundedOn(OpToRel(<, Nat), Nat)
        BY NatLessThanWellFounded
    <2> QED
        BY <2>1, WFMin
<1>2. \A y \in values : x <= y
    <2> SUFFICES ASSUME NEW y \in values PROVE x <= y
        OBVIOUS
    <2>1. x \in Nat /\ y \in Nat
        OBVIOUS
    <2>2. ~(y < x)
        BY <1>1, <2>1 DEF OpToRel
    <2> QED
        BY <2>1, <2>2
<1> QED
    BY <1>2

\* Of numbers with a bound one is the greatest.
LEMMA GreatestNumber ==
    ASSUME NEW n \in Nat, NEW set \in SUBSET (0 .. n), set # {}
    PROVE  Max(set) \in set
<1> DEFINE Bounds == {m \in 0 .. n : \A y \in set : y <= m}
<1>1. n \in Bounds
    OBVIOUS
<1>2. PICK m \in Bounds : \A y \in Bounds : m <= y
    <2>1. Bounds \in SUBSET Nat /\ Bounds # {}
        BY <1>1
    <2> HIDE DEF Bounds
    <2> QED
        BY <2>1, LeastNumber
<1>3. m \in 0 .. n /\ \A y \in set : y <= m
    OBVIOUS
<1>4. m \in set
    <2> SUFFICES ASSUME m \notin set PROVE FALSE
        OBVIOUS
    <2>1. \A y \in set : y <= m - 1
        BY <1>3
    <2>2. PICK y \in set : TRUE
        OBVIOUS
    <2>3. m - 1 \in 0 .. n
        BY <1>3, <2>1, <2>2
    <2>4. m - 1 \in Bounds
        BY <2>1, <2>3
    <2>5. m <= m - 1
        <3> HIDE DEF Bounds
        <3> QED
            BY <1>2, <2>4
    <2> QED
        BY <1>3, <2>5
<1>5. \E x \in set : \A y \in set : x >= y
    BY <1>3, <1>4
<1> QED
    BY <1>5 DEF Max

IsValues(v) ==
    v = [p \in Parameter |-> v[p]] /\ \A p \in Parameter : v[p] \in Value(p)

IsEvents(b) ==
    \A p \in Parameter :
        /\ DOMAIN b[p] \subseteq 0 .. buffer_size - 1
        /\ \A o \in DOMAIN b[p] : b[p][o] \in Value(p)

LEMMA ValuesAre ==
    ASSUME NEW b, IsEvents(b), NEW last, IsValues(last), NEW k \in Int
    PROVE  IsValues(ValuesAt(b, k, last))
<1>1. ASSUME NEW p \in Parameter PROVE ValueAt(b, p, k, last) \in Value(p)
    <2> DEFINE past == {o \in DOMAIN b[p] : o <= k}
    <2>1. past = {} => ValueAt(b, p, k, last) = last[p]
        BY DEF ValueAt
    <2>2. past # {} => ValueAt(b, p, k, last) = b[p][Max(past)]
        BY DEF ValueAt
    <2>3. buffer_size - 1 \in Nat
        BY FilterAssumption
    <2>4. past \in SUBSET (0 .. buffer_size - 1) /\ past \subseteq DOMAIN b[p]
        BY DEF IsEvents
    <2> HIDE DEF past
    <2>5. past # {} => Max(past) \in past
        BY <2>3, <2>4, GreatestNumber
    <2>6. past # {} => b[p][Max(past)] \in Value(p)
        BY <2>4, <2>5 DEF IsEvents
    <2> QED
        BY <2>1, <2>2, <2>6 DEF IsValues
<1>2. ValuesAt(b, k, last) = [p \in Parameter |-> ValueAt(b, p, k, last)]
    BY DEF ValuesAt
<1> DEFINE v == ValuesAt(b, k, last)
<1>3. v = [p \in Parameter |-> v[p]]
    BY <1>2
<1>4. \A p \in Parameter : v[p] \in Value(p)
    BY <1>1, <1>2
<1> QED
    BY <1>3, <1>4 DEF IsValues

\* Values change where there are events.
LEMMA ValuesKeep ==
    ASSUME NEW b, IsEvents(b), NEW last, NEW k \in Int, NEW m \in Int, k <= m,
           \A o \in Offsets(b) : o <= k \/ o > m
    PROVE  ValuesAt(b, m, last) = ValuesAt(b, k, last)
<1>1. ASSUME NEW p \in Parameter
      PROVE  {o \in DOMAIN b[p] : o <= m} = {o \in DOMAIN b[p] : o <= k}
    <2>1. ASSUME NEW o \in DOMAIN b[p] PROVE o <= m <=> o <= k
        <3>1. o \in Offsets(b)
            BY DEF Offsets
        <3>2. o \in Int
            BY FilterAssumption DEF IsEvents
        <3> QED
            BY <3>1, <3>2
    <2> QED
        BY <2>1
<1>2. \A p \in Parameter : ValueAt(b, p, m, last) = ValueAt(b, p, k, last)
    BY <1>1 DEF ValueAt
<1> QED
    BY <1>2 DEF ValuesAt

LEMMA ValuesAtFirst ==
    ASSUME NEW b, IsEvents(b), NEW last, IsValues(last), NEW m \in Int,
           \A o \in Offsets(b) : o > m
    PROVE  ValuesAt(b, m, last) = last
<1>1. ASSUME NEW p \in Parameter PROVE {o \in DOMAIN b[p] : o <= m} = {}
    <2>1. ASSUME NEW o \in DOMAIN b[p] PROVE ~(o <= m)
        <3>1. o \in Offsets(b)
            BY DEF Offsets
        <3>2. o \in Int
            BY FilterAssumption DEF IsEvents
        <3> QED
            BY <3>1, <3>2
    <2> QED
        BY <2>1
<1>2. \A p \in Parameter : ValueAt(b, p, m, last) = last[p]
    BY <1>1 DEF ValueAt
<1>3. ValuesAt(b, m, last) = [p \in Parameter |-> last[p]]
    BY <1>2 DEF ValuesAt
<1> QED
    BY <1>3 DEF IsValues

IsCoefficients(c) ==
    c.b2 \in Int /\ c.b1 \in Int /\ c.a0 \in Int /\ c.a1 \in Int /\ c.a2 \in Int

LEMMA CoefficientsAre ==
    ASSUME NEW v, IsValues(v)
    PROVE  IsCoefficients(Coefficients(v))
<1>1. CASE v["type"] = "bypass"
    BY <1>1 DEF Coefficients, Through, IsCoefficients
<1>2. CASE v["type"] # "bypass"
    <2>1. /\ v["type"] \in Type /\ v["cutoff"] \in Cutoff /\ v["resonance"] \in Resonance
        BY DEF IsValues, Parameter, Value
    <2> DEFINE shape == Shape(v["type"])
               cutoff == v["cutoff"]
               res == v["resonance"]
               b2 == B2[<<shape, cutoff, res>>]
               b1 == -(1 + b2) * CosPhi[cutoff]
               a0 == CASE shape = "lp" -> (1 + b1 + b2) \div 4
                       [] shape = "hp" -> (1 - b1 + b2) \div 4
                       [] shape = "bp" -> (1 - b2) \div 2
                       [] shape = "br" -> (1 + b2) \div 2
               a1 == CASE shape = "lp" -> 2 * a0
                       [] shape = "hp" -> -2 * a0
                       [] shape = "bp" -> 0
                       [] shape = "br" -> b1
               a2 == IF shape = "bp" THEN -a0 ELSE a0
    <2>2. shape \in {"lp", "bp", "hp", "br"}
        BY <1>2, <2>1 DEF Type, Shape
    <2>3. Coefficients(v) = [b2 |-> b2, b1 |-> b1, a0 |-> a0, a1 |-> a1, a2 |-> a2]
        BY <1>2 DEF Coefficients, MakeCoefficients
    <2> HIDE DEF shape
    <2>4. b2 \in Int
        <3>1. <<shape, cutoff, res>> \in {"lp", "bp", "hp", "br"} \X Cutoff \X Resonance
            BY <2>1, <2>2
        <3> QED
            BY <3>1, FilterAssumption
    <2>5. CosPhi[cutoff] \in Int
        BY <2>1, FilterAssumption
    <2> HIDE DEF b2, cutoff
    <2>6. b1 \in Int
        BY <2>4, <2>5
    <2> HIDE DEF b1
    <2>7. \A n \in Int : n \div 4 \in Int /\ n \div 2 \in Int
        OBVIOUS
    <2>8. a0 \in Int
        <3>1. shape = "lp" => a0 = (1 + b1 + b2) \div 4
            OBVIOUS
        <3>2. shape = "hp" => a0 = (1 - b1 + b2) \div 4
            OBVIOUS
        <3>3. shape = "bp" => a0 = (1 - b2) \div 2
            OBVIOUS
        <3>4. shape = "br" => a0 = (1 + b2) \div 2
            OBVIOUS
        <3>5. 1 + b1 + b2 \in Int /\ 1 - b1 + b2 \in Int /\ 1 - b2 \in Int /\ 1 + b2 \in Int
            BY <2>4, <2>6
        <3> HIDE DEF a0
        <3> QED
            BY <2>2, <2>7, <3>1, <3>2, <3>3, <3>4, <3>5
    <2> HIDE DEF a0
    <2>9. a1 \in Int
        BY <2>2, <2>6, <2>8
    <2>10. a2 \in Int
        BY <2>8
    <2> HIDE DEF a1, a2
    <2> QED
        BY <2>3, <2>4, <2>6, <2>8, <2>9, <2>10 DEF IsCoefficients
<1> QED
    BY <1>1, <1>2

-----------------------------------------------------------------------------
(* Numbers in their order. *)

AreBelow(f, set, m) ==
    f = [n \in 0 .. m |-> IF n = 0 THEN <<>>
                          ELSE IF n - 1 \in set THEN Append(f[n - 1], n - 1) ELSE f[n - 1]]

LEMMA AscendingIs ==
    ASSUME NEW set
    PROVE  Ascending(set)
               = (CHOOSE f : AreBelow(f, set, buffer_size + 1))[buffer_size + 1]
BY DEF Ascending, AreBelow

\* The recursion has a value for every bound.
LEMMA BelowIsThere ==
    ASSUME NEW set, NEW m \in Nat
    PROVE  \E f : AreBelow(f, set, m)
<1> DEFINE There(k) == \E f : AreBelow(f, set, k)
           Lacking == {k \in 0 .. m : ~There(k)}
           After(f, n) == IF n = 0 THEN <<>>
                          ELSE IF n - 1 \in set THEN Append(f[n - 1], n - 1) ELSE f[n - 1]
<1>0. \A f, k : AreBelow(f, set, k) <=> f = [n \in 0 .. k |-> After(f, n)]
    BY DEF AreBelow
<1>n. ASSUME NEW f, NEW g, NEW n \in Nat, n # 0 => f[n - 1] = g[n - 1]
      PROVE  After(f, n) = After(g, n)
    BY <1>n
<1>z. \A f : After(f, 0) = <<>>
    OBVIOUS
<1> HIDE DEF After
<1>1. ASSUME Lacking # {} PROVE FALSE
    <2>1. PICK k \in Lacking : \A j \in Lacking : k <= j
        <3>1. Lacking \in SUBSET Nat
            OBVIOUS
        <3> HIDE DEF Lacking
        <3> QED
            BY <1>1, <3>1, LeastNumber
    <2>2. k \in 0 .. m /\ ~There(k)
        OBVIOUS
    <2>3. k \in Nat /\ k <= m
        BY <2>2
    <2>4. k # 0
        <3> DEFINE z == [n \in 0 .. 0 |-> <<>>]
        <3>1. z = [n \in 0 .. 0 |-> After(z, n)]
            <4>1. \A n \in 0 .. 0 : n = 0
                OBVIOUS
            <4>2. \A n \in 0 .. 0 : After(z, n) = <<>>
                BY <1>z, <4>1
            <4> QED
                BY <4>2
        <3>2. There(0)
            <4> HIDE DEF z
            <4> QED
                BY <1>0, <3>1
        <3> QED
            BY <2>2, <3>2
    <2>5. k - 1 \notin Lacking /\ k - 1 \in 0 .. m
        <3> HIDE DEF Lacking
        <3> QED
            BY <2>1, <2>2, <2>3, <2>4
    <2>6. PICK f : AreBelow(f, set, k - 1)
        BY <2>5
    <2> DEFINE new == After(f, k)
               g == [n \in 0 .. k |-> IF n = k THEN new ELSE f[n]]
    <2> HIDE DEF new
    <2>7. g[k] = new /\ g[k - 1] = f[k - 1] /\ \A n \in 0 .. k - 1 : g[n] = f[n]
        BY <2>3, <2>4
    <2>8. ASSUME NEW n \in 0 .. k PROVE g[n] = After(g, n)
        <3> HIDE DEF g
        <3>0. n \in Nat
            BY <2>3
        <3>1. CASE n = k
            <4>1. new = After(g, k)
                BY <1>n, <2>3, <2>7 DEF new
            <4> QED
                BY <2>7, <3>1, <4>1
        <3>2. CASE n # k
            <4>1. n \in 0 .. k - 1
                BY <2>3, <3>2
            <4>2. n # 0 => n - 1 \in 0 .. k - 1
                BY <2>3, <4>1
            <4>3. f[n] = After(f, n)
                <5>1. f = [j \in 0 .. k - 1 |-> After(f, j)]
                    BY <1>0, <2>6
                <5> QED
                    BY <4>1, <5>1
            <4>4. After(f, n) = After(g, n)
                <5>1. n # 0 => f[n - 1] = g[n - 1]
                    BY <2>7, <4>2
                <5> QED
                    BY <1>n, <3>0, <5>1
            <4> QED
                BY <2>7, <4>1, <4>3, <4>4
        <3> QED
            BY <3>1, <3>2
    <2>9. AreBelow(g, set, k)
        <3>1. g = [n \in 0 .. k |-> g[n]]
            OBVIOUS
        <3> HIDE DEF g
        <3>2. g = [n \in 0 .. k |-> After(g, n)]
            BY <2>8, <3>1
        <3> QED
            BY <1>0, <3>2
    <2>10. There(k)
        <3> HIDE DEF g
        <3> QED
            BY <2>9
    <2> QED
        BY <2>2, <2>10
<1> QED
    <2>1. m \notin Lacking /\ m \in 0 .. m
        BY <1>1
    <2> QED
        BY <2>1

\* How many of the set are below each number, and where in the list a number is.
IsCount(count, list, set) ==
    /\ \A n \in 0 .. buffer_size + 1 : count[n] \in Nat /\ count[n] <= Len(list)
    /\ count[0] = 0 /\ count[buffer_size + 1] = Len(list)
    /\ \A n \in 0 .. buffer_size :
           IF n \in set THEN count[n + 1] = count[n] + 1 /\ list[count[n + 1]] = n
           ELSE count[n + 1] = count[n]
    /\ \A m, n \in 0 .. buffer_size + 1 : m <= n => count[m] <= count[n]
    /\ \A i \in 1 .. Len(list) : list[i] \in set /\ count[list[i] + 1] = i

LEMMA AscendingFacts ==
    ASSUME NEW set \in SUBSET (0 .. buffer_size)
    PROVE  /\ Ascending(set) \in Seq(set)
           /\ \E count : IsCount(count, Ascending(set), set)
<1> DEFINE m == buffer_size + 1
           f == CHOOSE g : AreBelow(g, set, m)
           Fits(n) ==
               /\ f[n] \in Seq(set)
               /\ \A k \in 0 .. n :
                      /\ Len(f[k]) <= Len(f[n])
                      /\ \A i \in 1 .. Len(f[k]) : f[n][i] = f[k][i]
               /\ \A i \in 1 .. Len(f[n]) : f[n][i] < n /\ Len(f[f[n][i] + 1]) = i
           Wrong == {n \in 0 .. m : ~Fits(n)}
<1>1. m \in Nat /\ buffer_size \in Nat
    BY FilterAssumption
<1>2. AreBelow(f, set, m)
    <2>1. \E g : AreBelow(g, set, m)
        BY <1>1, BelowIsThere
    <2> QED
        BY <2>1
<1>3. Ascending(set) = f[m]
    BY AscendingIs
<1> HIDE DEF f
<1>4. f[0] = <<>>
    <2>1. 0 \in 0 .. m
        BY <1>1
    <2> QED
        BY <1>2, <2>1 DEF AreBelow
<1>5. ASSUME NEW n \in 0 .. buffer_size
      PROVE  f[n + 1] = IF n \in set THEN Append(f[n], n) ELSE f[n]
    <2>1. n + 1 \in 0 .. m /\ n + 1 # 0 /\ (n + 1) - 1 = n
        BY <1>1
    <2> HIDE DEF m
    <2>2. f[n + 1] = IF n + 1 = 0 THEN <<>>
                     ELSE IF (n + 1) - 1 \in set THEN Append(f[(n + 1) - 1], (n + 1) - 1)
                     ELSE f[(n + 1) - 1]
        BY <1>2, <2>1 DEF AreBelow
    <2> QED
        BY <2>1, <2>2
<1>6. Fits(0)
    <2>1. f[0] \in Seq(set) /\ Len(f[0]) = 0
        BY <1>4
    <2>2. \A k \in 0 .. 0 : k = 0
        OBVIOUS
    <2>3. \A i : ~(i \in 1 .. 0)
        OBVIOUS
    <2> QED
        BY <2>1, <2>2, <2>3
<1>7. ASSUME NEW n \in 0 .. buffer_size, Fits(n)
      PROVE  Fits(n + 1)
    <2> DEFINE old == f[n]
               new == f[n + 1]
    <2>1. /\ old \in Seq(set)
          /\ \A k \in 0 .. n : Len(f[k]) <= Len(old) /\ \A i \in 1 .. Len(f[k]) : old[i] = f[k][i]
          /\ \A i \in 1 .. Len(old) : old[i] < n /\ Len(f[old[i] + 1]) = i
        BY <1>7
    <2>2. n \in Nat /\ 0 .. n + 1 = (0 .. n) \cup {n + 1} /\ \A i \in set : i \in Nat
        BY <1>1
    <2>3. Len(old) \in Nat
        BY <2>1, LenProperties
    <2>4. CASE n \notin set
        <3>1. new = old
            BY <1>5, <2>4
        <3> DEFINE N == n + 1
        <3>2. new \in Seq(set)
            BY <2>1, <3>1
        <3>3. ASSUME NEW k \in 0 .. N
              PROVE  /\ Len(f[k]) <= Len(new)
                     /\ \A i \in 1 .. Len(f[k]) : new[i] = f[k][i]
            <4>1. CASE k = N
                BY <2>3, <3>1, <4>1
            <4>2. CASE k # N
                BY <2>1, <2>2, <3>1, <4>2
            <4> QED
                BY <4>1, <4>2
        <3>4. ASSUME NEW i \in 1 .. Len(new)
              PROVE  new[i] < N /\ Len(f[new[i] + 1]) = i
            <4>1. i \in 1 .. Len(old) /\ old[i] \in set
                BY <2>1, <3>1, ElementOfSeq
            <4>2. PICK e \in set : e = old[i]
                BY <4>1
            <4>3. e \in Nat /\ e < n /\ Len(f[e + 1]) = i
                BY <2>1, <2>2, <4>1, <4>2
            <4>4. e < N
                BY <2>2, <4>3
            <4>5. new[i] = e
                BY <3>1, <4>2
            <4> HIDE DEF old, new, N
            <4> QED
                BY <4>3, <4>4, <4>5
        <3> HIDE DEF old
        <3> QED
            BY <3>2, <3>3, <3>4
    <2>5. CASE n \in set
        <3>1. new = Append(old, n)
            BY <1>5, <2>5
        <3> HIDE DEF old, new
        <3>2. /\ new \in Seq(set) /\ Len(new) = Len(old) + 1
              /\ \A i \in 1 .. Len(old) : new[i] = old[i]
              /\ new[Len(old) + 1] = n
            BY <2>1, <2>5, <3>1
        <3>3. ASSUME NEW k \in 0 .. n + 1
              PROVE  /\ Len(f[k]) <= Len(new)
                     /\ \A i \in 1 .. Len(f[k]) : new[i] = f[k][i]
            <4>1. CASE k = n + 1
                <5>1. f[k] = new /\ Len(new) \in Nat
                    BY <2>3, <3>2, <4>1 DEF new
                <5> QED
                    BY <5>1
            <4>2. CASE k # n + 1
                <5>1. k \in 0 .. n
                    BY <2>2, <4>2
                <5> DEFINE l == Len(f[k])
                <5>2. l <= Len(old) /\ \A i \in 1 .. l : old[i] = f[k][i]
                    BY <2>1, <5>1
                <5>3. l \in Nat
                    <6>1. f[k] = <<>> \/ TRUE
                        OBVIOUS
                    <6> QED
                        BY <5>1
                <5> HIDE DEF l
                <5>4. l <= Len(new)
                    BY <2>3, <3>2, <5>2, <5>3
                <5>5. \A i \in 1 .. l : i \in 1 .. Len(old)
                    BY <2>3, <5>2, <5>3
                <5>6. \A i \in 1 .. l : new[i] = f[k][i]
                    BY <3>2, <5>2, <5>5
                <5> QED
                    BY <5>4, <5>6 DEF l
            <4> QED
                BY <4>1, <4>2
        <3>4. ASSUME NEW i \in 1 .. Len(new)
              PROVE  new[i] < n + 1 /\ Len(f[new[i] + 1]) = i
            <4>1. CASE i = Len(old) + 1
                <5>1. new[i] = n /\ f[n + 1] = new
                    BY <3>2, <4>1 DEF new
                <5> QED
                    BY <2>2, <3>2, <4>1, <5>1
            <4>2. CASE i # Len(old) + 1
                <5>1. i \in 1 .. Len(old)
                    BY <2>3, <3>2, <4>2
                <5>2. new[i] = old[i] /\ old[i] \in set
                    BY <2>1, <3>2, <5>1, ElementOfSeq
                <5>3. PICK e \in set : e = old[i]
                    BY <5>2
                <5>4. e \in Nat /\ e < n /\ Len(f[e + 1]) = i
                    BY <2>1, <2>2, <5>1, <5>3
                <5>5. e < n + 1
                    BY <2>2, <5>4
                <5> QED
                    BY <5>2, <5>3, <5>4, <5>5
            <4> QED
                BY <4>1, <4>2
        <3> QED
            BY <3>2, <3>3, <3>4 DEF new
    <2> QED
        BY <2>4, <2>5
<1> HIDE DEF Fits
<1>8. Wrong = {}
    <2> SUFFICES ASSUME Wrong # {} PROVE FALSE
        OBVIOUS
    <2>1. PICK n \in Wrong : \A j \in Wrong : n <= j
        <3>1. Wrong \in SUBSET Nat
            BY <1>1
        <3> HIDE DEF Wrong
        <3> QED
            BY <3>1, LeastNumber
    <2>2. n \in 0 .. m /\ ~Fits(n)
        OBVIOUS
    <2>3. n # 0
        BY <1>6, <2>2
    <2>4. n - 1 \in 0 .. buffer_size /\ n - 1 \in 0 .. m /\ (n - 1) + 1 = n /\ ~(n <= n - 1)
        BY <1>1, <2>2, <2>3
    <2>5. Fits(n - 1)
        <3>1. n - 1 \notin Wrong
            <4> HIDE DEF Wrong
            <4> QED
                BY <2>1, <2>4
        <3> QED
            BY <2>4, <3>1
    <2>6. Fits((n - 1) + 1)
        BY <1>7, <2>4, <2>5
    <2> QED
        BY <2>2, <2>4, <2>6
<1>9. \A n \in 0 .. m : Fits(n)
    BY <1>8
<1> DEFINE list == f[m]
           count == [n \in 0 .. m |-> Len(f[n])]
<1>10. /\ list \in Seq(set)
       /\ \A k \in 0 .. m : Len(f[k]) <= Len(list) /\ \A i \in 1 .. Len(f[k]) : list[i] = f[k][i]
       /\ \A i \in 1 .. Len(list) : list[i] < m /\ Len(f[list[i] + 1]) = i
    BY <1>1, <1>9 DEF Fits
<1>11. \A n \in 0 .. m : f[n] \in Seq(set) /\ Len(f[n]) \in Nat
    BY <1>9, LenProperties DEF Fits
<1>12. \A n \in 0 .. m : count[n] = Len(f[n])
    OBVIOUS
<1> HIDE DEF count
<1>13. \A n \in 0 .. m : count[n] \in Nat /\ count[n] <= Len(list)
    BY <1>10, <1>11, <1>12
<1>14. count[0] = 0 /\ count[m] = Len(list)
    BY <1>1, <1>4, <1>12
<1>15. ASSUME NEW n \in 0 .. buffer_size
       PROVE  IF n \in set THEN count[n + 1] = count[n] + 1 /\ list[count[n + 1]] = n
              ELSE count[n + 1] = count[n]
    <2>1. n \in 0 .. m /\ n + 1 \in 0 .. m
        BY <1>1
    <2>2. count[n] = Len(f[n]) /\ count[n + 1] = Len(f[n + 1])
        BY <1>12, <2>1
    <2>3. CASE n \notin set
        BY <1>5, <2>2, <2>3
    <2>4. CASE n \in set
        <3>1. f[n + 1] = Append(f[n], n) /\ f[n] \in Seq(set)
            BY <1>5, <1>11, <2>1, <2>4
        <3>2. Len(f[n + 1]) = Len(f[n]) + 1 /\ f[n + 1][Len(f[n]) + 1] = n
            BY <2>4, <3>1
        <3>3. Len(f[n + 1]) \in 1 .. Len(f[n + 1])
            BY <1>11, <2>1, <3>2
        <3>4. list[Len(f[n + 1])] = f[n + 1][Len(f[n + 1])]
            BY <1>10, <2>1, <3>3
        <3> QED
            BY <2>2, <2>4, <3>2, <3>4
    <2> QED
        BY <2>3, <2>4
<1>16. ASSUME NEW k \in 0 .. m, NEW n \in 0 .. m, k <= n PROVE count[k] <= count[n]
    <2>1. k \in 0 .. n
        BY <1>1, <1>16
    <2>2. Len(f[k]) <= Len(f[n])
        BY <1>9, <2>1 DEF Fits
    <2> QED
        BY <1>12, <2>2
<1>17. ASSUME NEW i \in 1 .. Len(list) PROVE list[i] \in set /\ count[list[i] + 1] = i
    <2>1. list[i] \in set
        BY <1>10, ElementOfSeq
    <2>2. list[i] + 1 \in 0 .. m
        <3>1. \A e \in set : e + 1 \in 0 .. m
            BY <1>1
        <3> HIDE DEF list, m
        <3> QED
            BY <2>1, <3>1
    <2> QED
        BY <1>10, <1>12, <2>1, <2>2
<1>18. IsCount(count, list, set)
    <2> HIDE DEF list
    <2> QED
        BY <1>13, <1>14, <1>15, <1>16, <1>17 DEF IsCount
<1> QED
    BY <1>3, <1>10, <1>18

-----------------------------------------------------------------------------
(* The equation of a filter. *)

AnswerAt(y, x, coeffs, bq, k) ==
    coeffs[k].a0 * x[k]
    + (IF k = 1 THEN bq.z1 ELSE coeffs[k - 1].a1 * x[k - 1] - coeffs[k - 1].b1 * y[k - 1])
    + (CASE k = 1 -> 0
         [] k = 2 -> bq.z2
         [] k > 2 -> coeffs[k - 2].a2 * x[k - 2] - coeffs[k - 2].b2 * y[k - 2])

AreAnswers(y, x, coeffs, bq, m) ==
    y = [k \in 1 .. m |-> AnswerAt(y, x, coeffs, bq, k)]

LEMMA ResponseIs ==
    ASSUME NEW x, NEW coeffs, NEW bq, NEW m, DOMAIN x = 1 .. m
    PROVE  Response(x, coeffs, bq) = CHOOSE y : AreAnswers(y, x, coeffs, bq, m)
<1>1. Response(x, coeffs, bq)
          = CHOOSE y : y = [k \in DOMAIN x |-> AnswerAt(y, x, coeffs, bq, k)]
    BY DEF Response, AnswerAt
<1> QED
    BY <1>1 DEF AreAnswers

\* An answer depends on the two before it.
LEMMA AnswerDependsOn ==
    ASSUME NEW x, NEW coeffs, NEW bq, NEW f, NEW g, NEW n \in Nat \ {0},
           n > 1 => f[n - 1] = g[n - 1], n > 2 => f[n - 2] = g[n - 2]
    PROVE  AnswerAt(f, x, coeffs, bq, n) = AnswerAt(g, x, coeffs, bq, n)
<1>1. CASE n = 1
    BY <1>1 DEF AnswerAt
<1>2. CASE n = 2
    BY <1>2 DEF AnswerAt
<1>3. CASE n > 2
    <2>1. n # 1 /\ n # 2 /\ n > 1
        BY <1>3
    <2>2. f[n - 1] = g[n - 1] /\ f[n - 2] = g[n - 2]
        BY <1>3, <2>1
    <2> QED
        BY <1>3, <2>1, <2>2 DEF AnswerAt
<1> QED
    BY <1>1, <1>2, <1>3

LEMMA AnswersAreThere ==
    ASSUME NEW x, NEW coeffs, NEW bq, NEW m \in Nat
    PROVE  \E y : AreAnswers(y, x, coeffs, bq, m)
<1> DEFINE After(f, n) == AnswerAt(f, x, coeffs, bq, n)
           Are(f, k) == AreAnswers(f, x, coeffs, bq, k)
           There(k) == \E f : Are(f, k)
           Lacking == {k \in 0 .. m : ~There(k)}
<1>0. \A f, k : Are(f, k) <=> f = [n \in 1 .. k |-> After(f, n)]
    BY DEF AreAnswers
<1>n. ASSUME NEW f, NEW g, NEW n \in Nat \ {0},
             n > 1 => f[n - 1] = g[n - 1], n > 2 => f[n - 2] = g[n - 2]
      PROVE  After(f, n) = After(g, n)
    BY <1>n, AnswerDependsOn
<1> HIDE DEF After, Are
<1>1. ASSUME Lacking # {} PROVE FALSE
    <2>1. PICK k \in Lacking : \A j \in Lacking : k <= j
        <3>1. Lacking \in SUBSET Nat
            OBVIOUS
        <3> HIDE DEF Lacking
        <3> QED
            BY <1>1, <3>1, LeastNumber
    <2>2. k \in 0 .. m /\ ~There(k)
        OBVIOUS
    <2>3. k \in Nat /\ k <= m
        BY <2>2
    <2>4. k # 0
        <3> DEFINE z == [n \in 1 .. 0 |-> <<>>]
        <3>1. z = [n \in 1 .. 0 |-> After(z, n)]
            OBVIOUS
        <3>2. There(0)
            <4> HIDE DEF z
            <4> QED
                BY <1>0, <3>1
        <3> QED
            BY <2>2, <3>2
    <2>5. k - 1 \notin Lacking /\ k - 1 \in 0 .. m
        <3> HIDE DEF Lacking
        <3> QED
            BY <2>1, <2>2, <2>3, <2>4
    <2>6. PICK f : Are(f, k - 1)
        BY <2>5
    <2> DEFINE new == After(f, k)
               g == [n \in 1 .. k |-> IF n = k THEN new ELSE f[n]]
    <2> HIDE DEF new
    <2>7. g[k] = new /\ \A n \in 1 .. k - 1 : g[n] = f[n]
        BY <2>3, <2>4
    <2>8. ASSUME NEW n \in 1 .. k PROVE g[n] = After(g, n)
        <3> HIDE DEF g
        <3>0. n \in Nat \ {0}
            BY <2>3
        <3>1. /\ n > 1 => f[n - 1] = g[n - 1]
              /\ n > 2 => f[n - 2] = g[n - 2]
            <4>1. n > 1 => n - 1 \in 1 .. k - 1
                BY <2>3
            <4>2. n > 2 => n - 2 \in 1 .. k - 1
                BY <2>3
            <4> QED
                BY <2>7, <4>1, <4>2
        <3>2. After(f, n) = After(g, n)
            BY <1>n, <3>0, <3>1
        <3>3. CASE n = k
            BY <2>7, <3>2, <3>3 DEF new
        <3>4. CASE n # k
            <4>1. n \in 1 .. k - 1
                BY <2>3, <3>4
            <4>2. f[n] = After(f, n)
                <5>1. f = [j \in 1 .. k - 1 |-> After(f, j)]
                    BY <1>0, <2>6
                <5> QED
                    BY <4>1, <5>1
            <4> QED
                BY <2>7, <3>2, <4>1, <4>2
        <3> QED
            BY <3>3, <3>4
    <2>9. Are(g, k)
        <3>1. g = [n \in 1 .. k |-> g[n]]
            OBVIOUS
        <3> HIDE DEF g
        <3>2. g = [n \in 1 .. k |-> After(g, n)]
            BY <2>8, <3>1
        <3> QED
            BY <1>0, <3>2
    <2>10. There(k)
        <3> HIDE DEF g
        <3> QED
            BY <2>9
    <2> QED
        BY <2>2, <2>10
<1> QED
    <2>1. m \notin Lacking /\ m \in 0 .. m
        BY <1>1
    <2> QED
        BY <2>1 DEF Are

\* What the equation says, by what a biquad remembers after each number.
IsAnswer(y, x, coeffs, bq, n, z1, z2) ==
    /\ z1[0] = bq.z1 /\ z2[0] = bq.z2
    /\ \A k \in 0 .. n : z1[k] \in Int /\ z2[k] \in Int
    /\ \A k \in 1 .. n :
           /\ y[k] \in Int
           /\ y[k] = coeffs[k].a0 * x[k] + z1[k - 1]
           /\ z1[k] = coeffs[k].a1 * x[k] - coeffs[k].b1 * y[k] + z2[k - 1]
           /\ z2[k] = coeffs[k].a2 * x[k] - coeffs[k].b2 * y[k]

LEMMA ResponseFacts ==
    ASSUME NEW n \in Nat, NEW x, DOMAIN x = 1 .. n, \A k \in 1 .. n : x[k] \in Int,
           NEW coeffs, \A k \in 1 .. n : IsCoefficients(coeffs[k]),
           NEW bq, bq.z1 \in Int, bq.z2 \in Int
    PROVE  \E z1, z2 : IsAnswer(Response(x, coeffs, bq), x, coeffs, bq, n, z1, z2)
<1> DEFINE y == Response(x, coeffs, bq)
           Wrong == {k \in 1 .. n : y[k] \notin Int}
           Fed1(k) == coeffs[k].a1 * x[k] - coeffs[k].b1 * y[k]
           Fed2(k) == coeffs[k].a2 * x[k] - coeffs[k].b2 * y[k]
<1>1. AreAnswers(y, x, coeffs, bq, n)
    <2>1. \E f : AreAnswers(f, x, coeffs, bq, n)
        BY AnswersAreThere
    <2>2. y = CHOOSE f : AreAnswers(f, x, coeffs, bq, n)
        BY ResponseIs
    <2> HIDE DEF y
    <2> QED
        BY <2>1, <2>2
<1> HIDE DEF y
<1>2. ASSUME NEW k \in 1 .. n PROVE y[k] = AnswerAt(y, x, coeffs, bq, k)
    BY <1>1 DEF AreAnswers
<1>3. ASSUME NEW k \in 1 .. n
      PROVE  y[k] = coeffs[k].a0 * x[k] + (IF k = 1 THEN bq.z1 ELSE Fed1(k - 1))
                    + (IF k = 1 THEN 0 ELSE IF k = 2 THEN bq.z2 ELSE Fed2(k - 2))
    <2>1. k = 1 \/ k = 2 \/ (k > 2 /\ k # 1 /\ k # 2)
        OBVIOUS
    <2>2. CASE k = 1
        BY <1>2, <2>2 DEF AnswerAt
    <2>3. CASE k = 2
        BY <1>2, <2>3 DEF AnswerAt
    <2>4. CASE k > 2 /\ k # 1 /\ k # 2
        BY <1>2, <2>4 DEF AnswerAt
    <2> QED
        BY <2>1, <2>2, <2>3, <2>4
<1>4. ASSUME NEW k \in 1 .. n, y[k] \in Int PROVE Fed1(k) \in Int /\ Fed2(k) \in Int
    <2>1. /\ coeffs[k].a1 \in Int /\ coeffs[k].b1 \in Int
          /\ coeffs[k].a2 \in Int /\ coeffs[k].b2 \in Int
        BY DEF IsCoefficients
    <2>2. x[k] \in Int
        OBVIOUS
    <2>3. \A p, q, r, t \in Int : p * q - r * t \in Int
        OBVIOUS
    <2> QED
        BY <1>4, <2>1, <2>2, <2>3
<1> HIDE DEF Fed1, Fed2
<1>5. ASSUME NEW k \in 1 .. n,
             k > 1 => y[k - 1] \in Int, k > 2 => y[k - 2] \in Int
      PROVE  y[k] \in Int
    <2>1. k # 1 => Fed1(k - 1) \in Int
        <3>1. k # 1 => k - 1 \in 1 .. n /\ k > 1
            OBVIOUS
        <3> QED
            BY <1>4, <1>5, <3>1
    <2>2. k # 1 /\ k # 2 => Fed2(k - 2) \in Int
        <3>1. k # 1 /\ k # 2 => k - 2 \in 1 .. n /\ k > 2
            OBVIOUS
        <3> QED
            BY <1>4, <1>5, <3>1
    <2>3. coeffs[k].a0 * x[k] \in Int
        <3>1. coeffs[k].a0 \in Int /\ x[k] \in Int
            BY DEF IsCoefficients
        <3> QED
            BY <3>1
    <2> DEFINE p == coeffs[k].a0 * x[k]
               q == IF k = 1 THEN bq.z1 ELSE Fed1(k - 1)
               r == IF k = 1 THEN 0 ELSE IF k = 2 THEN bq.z2 ELSE Fed2(k - 2)
    <2>4. y[k] = p + q + r
        BY <1>3
    <2>5. p \in Int /\ q \in Int /\ r \in Int
        BY <2>1, <2>2, <2>3
    <2> HIDE DEF p, q, r
    <2> QED
        BY <2>4, <2>5
<1>6. Wrong = {}
    <2> SUFFICES ASSUME Wrong # {} PROVE FALSE
        OBVIOUS
    <2>1. PICK k \in Wrong : \A j \in Wrong : k <= j
        <3>1. Wrong \in SUBSET Nat
            OBVIOUS
        <3> HIDE DEF Wrong
        <3> QED
            BY <3>1, LeastNumber
    <2>2. k \in 1 .. n /\ y[k] \notin Int
        OBVIOUS
    <2>3. ASSUME NEW j \in 1 .. n, j < k PROVE y[j] \in Int
        <3>1. ~(k <= j)
            BY <2>2, <2>3
        <3>2. j \notin Wrong
            <4> HIDE DEF Wrong
            <4> QED
                BY <2>1, <3>1
        <3> QED
            BY <3>2
    <2>4. k > 1 => y[k - 1] \in Int
        <3>1. k > 1 => k - 1 \in 1 .. n /\ k - 1 < k
            BY <2>2
        <3> QED
            BY <2>3, <3>1
    <2>5. k > 2 => y[k - 2] \in Int
        <3>1. k > 2 => k - 2 \in 1 .. n /\ k - 2 < k
            BY <2>2
        <3> QED
            BY <2>3, <3>1
    <2> QED
        BY <1>5, <2>2, <2>4, <2>5
<1>7. \A k \in 1 .. n : y[k] \in Int
    BY <1>6
<1>8. \A k \in 1 .. n : Fed1(k) \in Int /\ Fed2(k) \in Int
    BY <1>4, <1>7
<1> DEFINE z2 == [k \in 0 .. n |-> IF k = 0 THEN bq.z2 ELSE Fed2(k)]
           z1 == [k \in 0 .. n |-> IF k = 0 THEN bq.z1 ELSE Fed1(k) + z2[k - 1]]
<1>9. z2[0] = bq.z2 /\ z1[0] = bq.z1
    <2>1. 0 \in 0 .. n
        OBVIOUS
    <2> QED
        BY <2>1
<1>10. \A k \in 1 .. n : z2[k] = Fed2(k)
    <2>1. \A k \in 1 .. n : k \in 0 .. n /\ k # 0
        OBVIOUS
    <2> QED
        BY <2>1
<1>11. \A k \in 1 .. n : z1[k] = Fed1(k) + z2[k - 1]
    <2>1. \A k \in 1 .. n : k \in 0 .. n /\ k # 0
        OBVIOUS
    <2> HIDE DEF z2
    <2> QED
        BY <2>1
<1> HIDE DEF z1, z2
<1>12. \A k \in 0 .. n : z2[k] \in Int
    <2>1. \A k \in 0 .. n : k = 0 \/ k \in 1 .. n
        OBVIOUS
    <2> QED
        BY <1>8, <1>9, <1>10, <2>1
<1>13. \A k \in 0 .. n : z1[k] \in Int
    <2>1. ASSUME NEW k \in 1 .. n PROVE z1[k] \in Int
        <3>1. k - 1 \in 0 .. n
            OBVIOUS
        <3>2. Fed1(k) \in Int /\ z2[k - 1] \in Int
            BY <1>8, <1>12, <3>1
        <3>3. \A p, q \in Int : p + q \in Int
            OBVIOUS
        <3> QED
            BY <1>11, <3>2, <3>3
    <2>2. \A k \in 0 .. n : k = 0 \/ k \in 1 .. n
        OBVIOUS
    <2> QED
        BY <1>9, <2>1, <2>2
<1>14. ASSUME NEW k \in 1 .. n PROVE y[k] = coeffs[k].a0 * x[k] + z1[k - 1]
    <2> DEFINE p == coeffs[k].a0 * x[k]
    <2>1. p \in Int
        <3>1. coeffs[k].a0 \in Int /\ x[k] \in Int
            BY DEF IsCoefficients
        <3> QED
            BY <3>1
    <2>2. CASE k = 1
        <3>1. y[k] = p + bq.z1 + 0
            BY <1>3, <2>2
        <3>2. z1[k - 1] = bq.z1
            BY <1>9, <2>2
        <3> HIDE DEF p
        <3>3. y[k] = p + z1[k - 1]
            BY <2>1, <3>1, <3>2
        <3> QED
            BY <3>3 DEF p
    <2>3. CASE k # 1
        <3>1. k - 1 \in 1 .. n
            BY <2>3
        <3>2. z1[k - 1] = Fed1(k - 1) + z2[(k - 1) - 1]
            BY <1>11, <3>1
        <3>3. z2[(k - 1) - 1] = IF k = 2 THEN bq.z2 ELSE Fed2(k - 2)
            <4>1. (k - 1) - 1 = k - 2 /\ (k = 2 => k - 2 = 0) /\ (k # 2 => k - 2 \in 1 .. n)
                BY <2>3
            <4> QED
                BY <1>9, <1>10, <4>1
        <3> DEFINE q == Fed1(k - 1)
                   r == z2[(k - 1) - 1]
        <3>4. y[k] = p + q + r
            BY <1>3, <2>3, <3>3
        <3>5. q \in Int /\ r \in Int
            <4>1. (k - 1) - 1 \in 0 .. n
                BY <2>3
            <4> QED
                BY <1>8, <1>12, <3>1, <4>1
        <3>6. z1[k - 1] = q + r
            BY <3>2
        <3> HIDE DEF p, q, r
        <3>7. y[k] = p + z1[k - 1]
            BY <2>1, <3>4, <3>5, <3>6
        <3> QED
            BY <3>7 DEF p
    <2> QED
        BY <2>2, <2>3
<1>15. IsAnswer(y, x, coeffs, bq, n, z1, z2)
    <2>1. \A k \in 1 .. n :
              z1[k] = coeffs[k].a1 * x[k] - coeffs[k].b1 * y[k] + z2[k - 1]
        BY <1>11 DEF Fed1
    <2>2. \A k \in 1 .. n : z2[k] = coeffs[k].a2 * x[k] - coeffs[k].b2 * y[k]
        BY <1>10 DEF Fed2
    <2> QED
        BY <1>7, <1>9, <1>12, <1>13, <1>14, <2>1, <2>2 DEF IsAnswer
<1> QED
    BY <1>15 DEF y


-----------------------------------------------------------------------------
(* What the equations say, number by number. *)

Four(values) == values["type"] \in {"lp4", "bp4", "hp4"}

\* Filtered, of the values at each frame, an input and a processor.
Answers(v, s, proc) ==
    LET coeffs == [k \in Frame |-> Coefficients(v[k])]
        once == Response(Frames(s), coeffs, proc.first)
        again == Ascending({k \in Frame : Four(v[k])})
        twice == Response([n \in DOMAIN again |-> once[again[n]]],
                          [n \in DOMAIN again |-> coeffs[again[n]]], proc.second)
    IN  [k \in Frame |->
            IF Four(v[k]) THEN twice[CHOOSE n \in DOMAIN again : again[n] = k] ELSE once[k]]

IsInput(s) == \A k \in Frame : At(s, k) \in Int

Remembers(proc) ==
    /\ proc.first.z1 \in Int /\ proc.first.z2 \in Int
    /\ proc.second.z1 \in Int /\ proc.second.z2 \in Int

AreValues(v) == \A k \in Frame : IsValues(v[k])

\* After each number: the two outputs, and what the two biquads remember.
IsReference(r, v, s, proc) ==
    /\ r.z1[0] = proc.first.z1 /\ r.z2[0] = proc.first.z2
    /\ r.u1[0] = proc.second.z1 /\ r.u2[0] = proc.second.z2
    /\ \A k \in 0 .. buffer_size :
           /\ r.z1[k] \in Int /\ r.z2[k] \in Int
           /\ r.u1[k] \in Int /\ r.u2[k] \in Int
    /\ \A k \in Frame : r.once[k] \in Int /\ r.out[k] \in Int
    /\ \A k \in Frame :
           /\ r.once[k] = Coefficients(v[k]).a0 * At(s, k) + r.z1[k - 1]
           /\ r.z1[k] = Coefficients(v[k]).a1 * At(s, k)
                        - Coefficients(v[k]).b1 * r.once[k] + r.z2[k - 1]
           /\ r.z2[k] = Coefficients(v[k]).a2 * At(s, k) - Coefficients(v[k]).b2 * r.once[k]
    /\ \A k \in Frame :
           IF Four(v[k])
           THEN /\ r.out[k] = Coefficients(v[k]).a0 * r.once[k] + r.u1[k - 1]
                /\ r.u1[k] = Coefficients(v[k]).a1 * r.once[k]
                             - Coefficients(v[k]).b1 * r.out[k] + r.u2[k - 1]
                /\ r.u2[k] = Coefficients(v[k]).a2 * r.once[k]
                             - Coefficients(v[k]).b2 * r.out[k]
           ELSE r.out[k] = r.once[k] /\ r.u1[k] = r.u1[k - 1] /\ r.u2[k] = r.u2[k - 1]

LEMMA AnswersAreReference ==
    ASSUME NEW v, AreValues(v), NEW s, IsInput(s), NEW proc, Remembers(proc)
    PROVE  \E r : IsReference(r, v, s, proc) /\ Answers(v, s, proc) = [k \in Frame |-> r.out[k]]
<1> DEFINE x == Frames(s)
           coeffs == [k \in Frame |-> Coefficients(v[k])]
           once == Response(x, coeffs, proc.first)
           set == {k \in Frame : Four(v[k])}
           again == Ascending(set)
           x2 == [n \in DOMAIN again |-> once[again[n]]]
           coeffs2 == [n \in DOMAIN again |-> coeffs[again[n]]]
           twice == Response(x2, coeffs2, proc.second)
           M == Len(again)
<1>0. buffer_size \in Nat /\ Frame = 1 .. buffer_size
    BY FilterAssumption DEF Frame
<1>a. Answers(v, s, proc)
          = [k \in Frame |-> IF Four(v[k]) THEN twice[CHOOSE n \in DOMAIN again : again[n] = k]
                             ELSE once[k]]
    BY DEF Answers
<1>1. DOMAIN x = 1 .. buffer_size /\ \A k \in Frame : x[k] = At(s, k) /\ x[k] \in Int
    BY <1>0 DEF Frames, IsInput
<1>2. \A k \in Frame : coeffs[k] = Coefficients(v[k])
    OBVIOUS
<1>c. \A k \in Frame : IsCoefficients(coeffs[k])
    BY <1>2, CoefficientsAre DEF AreValues
<1> HIDE DEF x, coeffs
<1>3. PICK z1, z2 : IsAnswer(once, x, coeffs, proc.first, buffer_size, z1, z2)
    <2>1. \A k \in 1 .. buffer_size : x[k] \in Int
        BY <1>0, <1>1
    <2>2. \A k \in 1 .. buffer_size : IsCoefficients(coeffs[k])
        BY <1>0, <1>c
    <2>3. proc.first.z1 \in Int /\ proc.first.z2 \in Int
        BY DEF Remembers
    <2> QED
        BY <1>0, <1>1, <2>1, <2>2, <2>3, ResponseFacts
<1> HIDE DEF once
<1>4. \A k \in Frame :
          /\ once[k] \in Int
          /\ once[k] = coeffs[k].a0 * x[k] + z1[k - 1]
          /\ z1[k] = coeffs[k].a1 * x[k] - coeffs[k].b1 * once[k] + z2[k - 1]
          /\ z2[k] = coeffs[k].a2 * x[k] - coeffs[k].b2 * once[k]
    BY <1>0, <1>3 DEF IsAnswer
<1>5. set \in SUBSET (0 .. buffer_size) /\ set \subseteq Frame /\ 0 \notin set
    BY <1>0
<1>s. \A k \in Frame : k \in set <=> Four(v[k])
    OBVIOUS
<1> HIDE DEF set
<1>6. again \in Seq(set)
    BY <1>5, AscendingFacts
<1>7. PICK count : IsCount(count, again, set)
    BY <1>5, AscendingFacts
<1> HIDE DEF again
<1>8. M \in Nat /\ DOMAIN again = 1 .. M /\ \A n \in 1 .. M : again[n] \in set
    BY <1>6, LenProperties, ElementOfSeq
<1>9. DOMAIN x2 = 1 .. M
      /\ \A n \in 1 .. M : x2[n] = once[again[n]] /\ coeffs2[n] = coeffs[again[n]]
    BY <1>8
<1> HIDE DEF M, x2, coeffs2
<1>10. PICK w1, w2 : IsAnswer(twice, x2, coeffs2, proc.second, M, w1, w2)
    <2>1. \A n \in 1 .. M : x2[n] \in Int
        BY <1>4, <1>5, <1>8, <1>9
    <2>2. \A n \in 1 .. M : IsCoefficients(coeffs2[n])
        BY <1>c, <1>5, <1>8, <1>9
    <2>3. proc.second.z1 \in Int /\ proc.second.z2 \in Int
        BY DEF Remembers
    <2> QED
        BY <1>8, <1>9, <2>1, <2>2, <2>3, ResponseFacts
<1> HIDE DEF twice
<1>11. \A n \in 1 .. M :
          /\ twice[n] \in Int
          /\ twice[n] = coeffs2[n].a0 * x2[n] + w1[n - 1]
          /\ w1[n] = coeffs2[n].a1 * x2[n] - coeffs2[n].b1 * twice[n] + w2[n - 1]
          /\ w2[n] = coeffs2[n].a2 * x2[n] - coeffs2[n].b2 * twice[n]
    BY <1>10 DEF IsAnswer
<1>12. /\ \A n \in 0 .. buffer_size + 1 : count[n] \in 0 .. M
       /\ count[0] = 0
       /\ \A n \in 0 .. buffer_size :
           IF n \in set THEN count[n + 1] = count[n] + 1 /\ again[count[n + 1]] = n
           ELSE count[n + 1] = count[n]
       /\ \A n \in 1 .. M : count[again[n] + 1] = n
    BY <1>7, <1>8 DEF IsCount, M
<1> DEFINE out == [k \in Frame |-> IF k \in set THEN twice[count[k + 1]] ELSE once[k]]
           u1 == [k \in 0 .. buffer_size |-> w1[count[k + 1]]]
           u2 == [k \in 0 .. buffer_size |-> w2[count[k + 1]]]
           r == [once |-> once, out |-> out, z1 |-> z1, z2 |-> z2, u1 |-> u1, u2 |-> u2]
<1>13. \A k \in 0 .. buffer_size :
           /\ k + 1 \in 0 .. buffer_size + 1
           /\ u1[k] = w1[count[k + 1]] /\ u2[k] = w2[count[k + 1]]
    BY <1>0
<1>14. \A k \in Frame : out[k] = IF k \in set THEN twice[count[k + 1]] ELSE once[k]
    OBVIOUS
<1>15. /\ r.once = once /\ r.out = out /\ r.z1 = z1 /\ r.z2 = z2 /\ r.u1 = u1 /\ r.u2 = u2
    OBVIOUS
<1> HIDE DEF out, u1, u2, r
<1>16. ASSUME NEW k \in set
       PROVE  /\ k \in Frame /\ count[k + 1] \in 1 .. M /\ count[k + 1] - 1 = count[k]
              /\ again[count[k + 1]] = k
    <2>1. k \in Frame /\ k \in 0 .. buffer_size
        BY <1>0, <1>5
    <2>2. count[k + 1] = count[k] + 1 /\ again[count[k + 1]] = k
        BY <1>12, <2>1
    <2>3. count[k] \in 0 .. M /\ count[k + 1] \in 0 .. M
        <3>1. k \in 0 .. buffer_size + 1 /\ k + 1 \in 0 .. buffer_size + 1
            BY <1>0, <2>1
        <3> QED
            BY <1>12, <3>1
    <2> QED
        BY <1>8, <2>1, <2>2, <2>3
<1>17. ASSUME NEW k \in Frame, k \notin set PROVE count[k + 1] = count[k]
    <2>1. k \in 0 .. buffer_size
        BY <1>0
    <2> QED
        BY <1>12, <1>17, <2>1
<1>18. Answers(v, s, proc) = [k \in Frame |-> r.out[k]]
    <2>1. ASSUME NEW k \in Frame
          PROVE  (IF Four(v[k]) THEN twice[CHOOSE n \in DOMAIN again : again[n] = k] ELSE once[k])
                     = out[k]
        <3>1. CASE k \in set
            <4>1. ASSUME NEW n \in DOMAIN again, again[n] = k PROVE n = count[k + 1]
                BY <1>8, <1>12, <4>1
            <4>2. count[k + 1] \in DOMAIN again /\ again[count[k + 1]] = k
                BY <1>8, <1>16, <3>1
            <4>3. (CHOOSE n \in DOMAIN again : again[n] = k) = count[k + 1]
                BY <4>1, <4>2
            <4> QED
                BY <1>14, <1>s, <3>1, <4>3
        <3>2. CASE k \notin set
            BY <1>14, <1>s, <3>2
        <3> QED
            BY <3>1, <3>2
    <2>2. Answers(v, s, proc) = [k \in Frame |-> out[k]]
        BY <1>a, <2>1
    <2> QED
        BY <1>15, <2>2
<1>19. /\ z1[0] = proc.first.z1 /\ z2[0] = proc.first.z2
       /\ \A k \in 0 .. buffer_size : z1[k] \in Int /\ z2[k] \in Int
    BY <1>3 DEF IsAnswer
<1>20. /\ u1[0] = proc.second.z1 /\ u2[0] = proc.second.z2
    <2>1. 0 \in 0 .. buffer_size
        BY <1>0
    <2>2. count[0 + 1] = 0
        BY <1>5, <1>12, <2>1
    <2>3. w1[0] = proc.second.z1 /\ w2[0] = proc.second.z2
        BY <1>10 DEF IsAnswer
    <2> QED
        BY <1>13, <2>1, <2>2, <2>3
<1>21. \A k \in 0 .. buffer_size : u1[k] \in Int /\ u2[k] \in Int
    <2>1. \A n \in 0 .. M : w1[n] \in Int /\ w2[n] \in Int
        BY <1>10 DEF IsAnswer
    <2> QED
        BY <1>12, <1>13, <2>1
<1>22. \A k \in Frame : once[k] \in Int /\ out[k] \in Int
    BY <1>4, <1>11, <1>14, <1>16
<1>23. ASSUME NEW k \in Frame
       PROVE  IF Four(v[k])
              THEN /\ out[k] = Coefficients(v[k]).a0 * once[k] + u1[k - 1]
                   /\ u1[k] = Coefficients(v[k]).a1 * once[k]
                              - Coefficients(v[k]).b1 * out[k] + u2[k - 1]
                   /\ u2[k] = Coefficients(v[k]).a2 * once[k] - Coefficients(v[k]).b2 * out[k]
              ELSE out[k] = once[k] /\ u1[k] = u1[k - 1] /\ u2[k] = u2[k - 1]
    <2>1. k \in 0 .. buffer_size /\ k - 1 \in 0 .. buffer_size /\ (k - 1) + 1 = k
        BY <1>0
    <2>2. /\ u1[k] = w1[count[k + 1]] /\ u2[k] = w2[count[k + 1]]
          /\ u1[k - 1] = w1[count[k]] /\ u2[k - 1] = w2[count[k]]
        BY <1>13, <2>1
    <2>3. CASE k \in set
        <3> DEFINE n == count[k + 1]
        <3>1. n \in 1 .. M /\ n - 1 = count[k] /\ again[n] = k
            BY <1>16, <2>3
        <3>2. x2[n] = once[k] /\ coeffs2[n] = Coefficients(v[k])
            BY <1>2, <1>9, <3>1
        <3>3. out[k] = twice[n]
            BY <1>14, <2>3
        <3>4. /\ u1[k] = w1[n] /\ u2[k] = w2[n] /\ u1[k - 1] = w1[n - 1] /\ u2[k - 1] = w2[n - 1]
            BY <2>2, <3>1
        <3> HIDE DEF n
        <3>5. /\ twice[n] = coeffs2[n].a0 * x2[n] + w1[n - 1]
              /\ w1[n] = coeffs2[n].a1 * x2[n] - coeffs2[n].b1 * twice[n] + w2[n - 1]
              /\ w2[n] = coeffs2[n].a2 * x2[n] - coeffs2[n].b2 * twice[n]
            BY <1>11, <3>1
        <3> QED
            BY <1>s, <2>3, <3>2, <3>3, <3>4, <3>5
    <2>4. CASE k \notin set
        BY <1>14, <1>17, <1>s, <2>2, <2>4
    <2> QED
        BY <2>3, <2>4
<1>24. ASSUME NEW k \in Frame
       PROVE  /\ once[k] = Coefficients(v[k]).a0 * At(s, k) + z1[k - 1]
              /\ z1[k] = Coefficients(v[k]).a1 * At(s, k)
                         - Coefficients(v[k]).b1 * once[k] + z2[k - 1]
              /\ z2[k] = Coefficients(v[k]).a2 * At(s, k) - Coefficients(v[k]).b2 * once[k]
    BY <1>1, <1>2, <1>4
<1>25. IsReference(r, v, s, proc)
    BY <1>15, <1>19, <1>20, <1>21, <1>22, <1>23, <1>24 DEF IsReference
<1> QED
    BY <1>18, <1>25


-----------------------------------------------------------------------------
(* What a processor does with the slices between the events. *)

\* A processor of these values, that remembers these numbers.
ProcOf(values, z1, z2, u1, u2) ==
    [type |-> values["type"], both |-> Four(values),
     first |-> [coeffs |-> Coefficients(values), z1 |-> z1, z2 |-> z2],
     second |-> [coeffs |-> IF Four(values) THEN Coefficients(values) ELSE Through,
                 z1 |-> u1, z2 |-> u2]]

Made(r, k) == [j \in 1 .. k |-> r.out[j]]

RunAt(r, values, k) ==
    [proc |-> ProcOf(values, r.z1[k], r.z2[k], r.u1[k], r.u2[k]), frames |-> Made(r, k)]

LEMMA MadeNext ==
    ASSUME NEW r, NEW k \in Nat
    PROVE  Append(Made(r, k), r.out[k + 1]) = Made(r, k + 1) /\ Len(Made(r, k)) = k
<1> DEFINE T == {r.out[j] : j \in 1 .. k + 1}
           a == Append(Made(r, k), r.out[k + 1])
<1>1. Made(r, k) \in Seq(T) /\ Len(Made(r, k)) = k
    <2>1. Made(r, k) \in [1 .. k -> T]
        <3>1. \A j \in 1 .. k : r.out[j] \in T
            OBVIOUS
        <3> HIDE DEF T
        <3> QED
            BY <3>1 DEF Made
    <2> HIDE DEF T
    <2> QED
        BY <2>1, SeqDef, LenProperties
<1>2. Made(r, k + 1) \in Seq(T) /\ Len(Made(r, k + 1)) = k + 1
    <2>1. Made(r, k + 1) \in [1 .. k + 1 -> T]
        BY DEF Made
    <2>2. k + 1 \in Nat
        OBVIOUS
    <2> HIDE DEF T
    <2> QED
        BY <2>1, <2>2, SeqDef, LenProperties
<1>3. r.out[k + 1] \in T
    OBVIOUS
<1> HIDE DEF T
<1>4. /\ a \in Seq(T) /\ Len(a) = k + 1
      /\ \A j \in 1 .. k : a[j] = Made(r, k)[j]
      /\ a[k + 1] = r.out[k + 1]
    BY <1>1, <1>3
<1> HIDE DEF a
<1>5. \A j \in 1 .. k + 1 : a[j] = Made(r, k + 1)[j]
    <2>1. \A j \in 1 .. k + 1 : Made(r, k + 1)[j] = r.out[j]
        BY DEF Made
    <2>2. \A j \in 1 .. k : Made(r, k)[j] = r.out[j]
        BY DEF Made
    <2>3. \A j \in 1 .. k + 1 : j \in 1 .. k \/ j = k + 1
        OBVIOUS
    <2> QED
        BY <1>4, <2>1, <2>2, <2>3
<1>6. a = Made(r, k + 1)
    <2>1. Len(a) = Len(Made(r, k + 1)) /\ \A j \in 1 .. Len(a) : a[j] = Made(r, k + 1)[j]
        BY <1>2, <1>4, <1>5
    <2> QED
        BY <1>2, <1>4, <2>1, SeqEqual
<1> QED
    BY <1>1, <1>6 DEF a

\* One sample is one step of the reference.
LEMMA SampleIs ==
    ASSUME NEW r, NEW v, NEW s, NEW proc, IsReference(r, v, s, proc),
           NEW k \in Frame, NEW values, v[k] = values
    PROVE  ProcessSample(RunAt(r, values, k - 1), At(s, k)) = RunAt(r, values, k)
<1> DEFINE C == Coefficients(values)
           D == IF Four(values) THEN C ELSE Through
           x == At(s, k)
           y == r.once[k]
           p == ProcOf(values, r.z1[k - 1], r.z2[k - 1], r.u1[k - 1], r.u2[k - 1])
           run == RunAt(r, values, k - 1)
           half == [p EXCEPT !.first = Fed(@, x)]
<1>0. k \in Nat /\ k - 1 \in Nat /\ (k - 1) + 1 = k
    BY FilterAssumption DEF Frame
<1>1. /\ y = C.a0 * x + r.z1[k - 1]
      /\ r.z1[k] = C.a1 * x - C.b1 * y + r.z2[k - 1]
      /\ r.z2[k] = C.a2 * x - C.b2 * y
    BY DEF IsReference
<1>2. IF Four(values)
      THEN /\ r.out[k] = C.a0 * y + r.u1[k - 1]
           /\ r.u1[k] = C.a1 * y - C.b1 * r.out[k] + r.u2[k - 1]
           /\ r.u2[k] = C.a2 * y - C.b2 * r.out[k]
      ELSE r.out[k] = y /\ r.u1[k] = r.u1[k - 1] /\ r.u2[k] = r.u2[k - 1]
    BY DEF IsReference
<1>3. p = [type |-> values["type"], both |-> Four(values),
           first |-> [coeffs |-> C, z1 |-> r.z1[k - 1], z2 |-> r.z2[k - 1]],
           second |-> [coeffs |-> D, z1 |-> r.u1[k - 1], z2 |-> r.u2[k - 1]]]
    BY DEF ProcOf
<1>4. run = [proc |-> p, frames |-> Made(r, k - 1)]
    BY DEF RunAt
<1>5. RunAt(r, values, k)
          = [proc |-> [type |-> values["type"], both |-> Four(values),
                       first |-> [coeffs |-> C, z1 |-> r.z1[k], z2 |-> r.z2[k]],
                       second |-> [coeffs |-> D, z1 |-> r.u1[k], z2 |-> r.u2[k]]],
             frames |-> Made(r, k)]
    BY DEF RunAt, ProcOf
<1>6. Append(Made(r, k - 1), r.out[k]) = Made(r, k)
    <2>1. Append(Made(r, k - 1), r.out[(k - 1) + 1]) = Made(r, (k - 1) + 1)
        BY <1>0, MadeNext
    <2> QED
        BY <1>0, <2>1
<1>7. Output(p.first, x) = y
    BY <1>1, <1>3 DEF Output
<1>8. Fed(p.first, x) = [coeffs |-> C, z1 |-> r.z1[k], z2 |-> r.z2[k]]
    <2>1. p.first = [coeffs |-> C, z1 |-> r.z1[k - 1], z2 |-> r.z2[k - 1]]
        BY <1>3
    <2> DEFINE f == p.first
    <2>2. f.coeffs = C /\ f.z2 = r.z2[k - 1]
        BY <2>1
    <2> HIDE DEF p, C, y
    <2> QED
        BY <1>1, <1>7, <2>2 DEF Fed
<1>9. half = [type |-> values["type"], both |-> Four(values),
              first |-> [coeffs |-> C, z1 |-> r.z1[k], z2 |-> r.z2[k]],
              second |-> [coeffs |-> D, z1 |-> r.u1[k - 1], z2 |-> r.u2[k - 1]]]
    <2>1. half = [p EXCEPT !.first = Fed(p.first, x)]
        OBVIOUS
    <2> HIDE DEF p, half, C, D
    <2> QED
        BY <1>3, <1>8, <2>1
<1>10. ProcessSample(run, x)
           = IF half.both
             THEN [proc |-> [half EXCEPT !.second = Fed(@, y)],
                   frames |-> Append(Made(r, k - 1), Output(half.second, y))]
             ELSE [proc |-> half, frames |-> Append(Made(r, k - 1), y)]
    <2>1. run.proc = p /\ run.frames = Made(r, k - 1)
        BY <1>4
    <2> HIDE DEF run, p, y
    <2> QED
        BY <1>7, <2>1 DEF ProcessSample
<1>11. half.both = Four(values)
    <2> HIDE DEF half
    <2> QED
        BY <1>9
<1> HIDE DEF p, half, run
<1>12. CASE Four(values)
    <2>1. D = C
        BY <1>12
    <2> HIDE DEF D
    <2>2. half.second = [coeffs |-> C, z1 |-> r.u1[k - 1], z2 |-> r.u2[k - 1]]
        BY <1>9, <2>1
    <2> DEFINE h == half.second
    <2>3. h.coeffs = C /\ h.z1 = r.u1[k - 1] /\ h.z2 = r.u2[k - 1]
        BY <2>2
    <2> HIDE DEF C, y
    <2>4. Output(h, y) = r.out[k]
        BY <1>2, <1>12, <2>3 DEF Output
    <2>5. Fed(h, y) = [coeffs |-> C, z1 |-> r.u1[k], z2 |-> r.u2[k]]
        BY <1>2, <1>12, <2>3, <2>4 DEF Fed
    <2>6. [half EXCEPT !.second = Fed(@, y)] = [half EXCEPT !.second = Fed(h, y)]
        OBVIOUS
    <2> HIDE DEF h
    <2>7. [half EXCEPT !.second = Fed(h, y)]
              = [type |-> values["type"], both |-> Four(values),
                 first |-> [coeffs |-> C, z1 |-> r.z1[k], z2 |-> r.z2[k]],
                 second |-> [coeffs |-> D, z1 |-> r.u1[k], z2 |-> r.u2[k]]]
        BY <1>9, <2>1, <2>5
    <2>8. ProcessSample(run, x)
              = [proc |-> [half EXCEPT !.second = Fed(@, y)],
                 frames |-> Append(Made(r, k - 1), Output(half.second, y))]
        BY <1>10, <1>11, <1>12
    <2>9. Append(Made(r, k - 1), Output(half.second, y)) = Made(r, k)
        BY <1>6, <2>4 DEF h
    <2> HIDE DEF x
    <2>10. ProcessSample(run, x) = RunAt(r, values, k)
        BY <1>5, <2>6, <2>7, <2>8, <2>9
    <2> QED
        BY <2>10 DEF x, run
<1>13. CASE ~Four(values)
    <2>1. r.out[k] = y /\ r.u1[k] = r.u1[k - 1] /\ r.u2[k] = r.u2[k - 1]
        BY <1>2, <1>13
    <2>2. ProcessSample(run, x) = [proc |-> half, frames |-> Append(Made(r, k - 1), y)]
        BY <1>10, <1>11, <1>13
    <2> HIDE DEF x, y, C, D
    <2>3. ProcessSample(run, x) = RunAt(r, values, k)
        BY <1>5, <1>6, <1>9, <2>1, <2>2
    <2> QED
        BY <2>3 DEF x, run
<1> QED
    BY <1>12, <1>13

\* A slice in which the values do not change.
LEMMA SliceIs ==
    ASSUME NEW r, NEW v, NEW s, NEW proc, IsReference(r, v, s, proc),
           NEW k \in 0 .. buffer_size, NEW m \in k .. buffer_size,
           NEW values, \A j \in k + 1 .. m : v[j] = values
    PROVE  ProcessSlice(RunAt(r, values, k), s, m) = RunAt(r, values, m)
<1> DEFINE run == RunAt(r, values, k)
           Sample(f, j) == IF j = k THEN run ELSE ProcessSample(f[j - 1], At(s, j))
           f == CHOOSE g : g = [j \in k .. m |-> Sample(g, j)]
           g == [j \in k .. m |-> RunAt(r, values, j)]
           Wrong == {j \in k .. m : f[j] # RunAt(r, values, j)}
<1>0. k \in Nat /\ m \in Nat /\ k <= m /\ m <= buffer_size /\ buffer_size \in Nat
    BY FilterAssumption
<1>1. Len(run.frames) = k
    <2>1. run.frames = Made(r, k)
        BY DEF RunAt
    <2> QED
        BY <1>0, <2>1, MadeNext
<1>2. ProcessSlice(run, s, m) = f[m]
    <2> HIDE DEF run
    <2> QED
        BY <1>1 DEF ProcessSlice
<1>3. ASSUME NEW j \in k .. m, j # k
      PROVE  /\ j \in Frame /\ j - 1 \in k .. m
             /\ ProcessSample(RunAt(r, values, j - 1), At(s, j)) = RunAt(r, values, j)
    <2>1. j \in Frame /\ j - 1 \in k .. m /\ j \in k + 1 .. m
        BY <1>0, <1>3 DEF Frame
    <2> QED
        BY <2>1, SampleIs
<1>4. ASSUME NEW j \in k .. m PROVE RunAt(r, values, j) = Sample(g, j)
    <2>1. CASE j = k
        BY <2>1
    <2>2. CASE j # k
        <3>1. g[j - 1] = RunAt(r, values, j - 1)
            BY <1>3, <2>2
        <3> HIDE DEF g
        <3> QED
            BY <1>3, <2>2, <3>1
    <2> QED
        BY <2>1, <2>2
<1> HIDE DEF Sample
<1>5. g = [j \in k .. m |-> Sample(g, j)]
    BY <1>4
<1>6. f = [j \in k .. m |-> Sample(f, j)]
    <2> HIDE DEF g
    <2> QED
        BY <1>5
<1> HIDE DEF f
<1>7. f[k] = run
    <2>1. k \in k .. m
        BY <1>0
    <2>2. f[k] = Sample(f, k)
        BY <1>6, <2>1
    <2> QED
        BY <2>2 DEF Sample
<1>8. ASSUME NEW j \in k .. m, j # k PROVE f[j] = ProcessSample(f[j - 1], At(s, j))
    <2>1. f[j] = Sample(f, j)
        BY <1>6
    <2> QED
        BY <1>8, <2>1 DEF Sample
<1>9. Wrong = {}
    <2> SUFFICES ASSUME Wrong # {} PROVE FALSE
        OBVIOUS
    <2>1. PICK j \in Wrong : \A i \in Wrong : j <= i
        <3>1. Wrong \in SUBSET Nat
            BY <1>0
        <3> HIDE DEF Wrong
        <3> QED
            BY <3>1, LeastNumber
    <2>2. j \in k .. m /\ f[j] # RunAt(r, values, j)
        OBVIOUS
    <2>3. j # k
        BY <1>7, <2>2
    <2>4. j - 1 \in k .. m /\ ~(j <= j - 1)
        BY <1>0, <1>3, <2>2, <2>3
    <2>5. j - 1 \notin Wrong
        <3> HIDE DEF Wrong
        <3> QED
            BY <2>1, <2>4
    <2>6. f[j - 1] = RunAt(r, values, j - 1)
        BY <2>4, <2>5
    <2>7. f[j] = RunAt(r, values, j)
        BY <1>3, <1>8, <2>2, <2>3, <2>6
    <2> QED
        BY <2>2, <2>7
<1>10. f[m] = RunAt(r, values, m)
    <2>1. m \in k .. m
        BY <1>0
    <2>2. m \notin Wrong
        BY <1>9
    <2> QED
        BY <2>1, <2>2
<1> QED
    BY <1>2, <1>10


-----------------------------------------------------------------------------
(* What a processor does with all the events of a period. *)

LEMMA AscendingSorted ==
    ASSUME NEW set \in SUBSET (0 .. buffer_size)
    PROVE  /\ Ascending(set) \in Seq(set)
           /\ \A o \in set : \E i \in 1 .. Len(Ascending(set)) : Ascending(set)[i] = o
           /\ \A i, j \in 1 .. Len(Ascending(set)) :
                  i < j => Ascending(set)[i] < Ascending(set)[j]
<1> DEFINE list == Ascending(set)
<1>1. list \in Seq(set)
    BY AscendingFacts
<1>2. PICK count : IsCount(count, list, set)
    BY AscendingFacts
<1>3. buffer_size \in Nat
    BY FilterAssumption
<1> HIDE DEF list
<1>4. ASSUME NEW o \in set PROVE \E i \in 1 .. Len(list) : list[i] = o
    <2>1. o \in 0 .. buffer_size /\ o \in 0 .. buffer_size + 1 /\ o + 1 \in 0 .. buffer_size + 1
        BY <1>3
    <2>2. count[o + 1] = count[o] + 1 /\ list[count[o + 1]] = o
        BY <1>2, <2>1 DEF IsCount
    <2>3. count[o] \in Nat /\ count[o + 1] \in Nat /\ count[o + 1] <= Len(list)
        BY <1>2, <2>1 DEF IsCount
    <2>4. Len(list) \in Nat
        BY <1>1, LenProperties
    <2>5. count[o + 1] \in 1 .. Len(list)
        BY <2>2, <2>3, <2>4
    <2> QED
        BY <2>2, <2>5
<1>5. ASSUME NEW i \in 1 .. Len(list), NEW j \in 1 .. Len(list), i < j
      PROVE  list[i] < list[j]
    <2>1. list[i] \in set /\ list[j] \in set
        BY <1>1, ElementOfSeq
    <2>2. PICK a \in set, b \in set : a = list[i] /\ b = list[j]
        BY <2>1
    <2>3. /\ a \in Nat /\ b \in Nat
          /\ a + 1 \in 0 .. buffer_size + 1 /\ b + 1 \in 0 .. buffer_size + 1
        BY <1>3
    <2>4. count[a + 1] = i /\ count[b + 1] = j
        BY <1>2, <2>2 DEF IsCount
    <2>5. b <= a => count[b + 1] <= count[a + 1]
        <3>1. b <= a => b + 1 <= a + 1
            BY <2>3
        <3> QED
            BY <1>2, <2>3, <3>1 DEF IsCount
    <2>6. Len(list) \in Nat
        BY <1>1, LenProperties
    <2>7. i \in Nat /\ j \in Nat
        BY <2>6
    <2>8. ~(b <= a)
        BY <1>5, <2>4, <2>5, <2>7
    <2>9. a < b
        BY <2>3, <2>8
    <2> QED
        BY <2>2, <2>9
<1> QED
    BY <1>1, <1>4, <1>5 DEF list

\* Where the slices end, and the values after them.
Off(list, n) == IF n = 0 THEN 0 ELSE list[n]
Val(b, last, list, n) == IF n = 0 THEN last ELSE ValuesAt(b, list[n], last)

\* The values between the events are those of the last one.
LEMMA ValuesBetween ==
    ASSUME NEW b, IsEvents(b), NEW last, IsValues(last),
           NEW n \in 0 .. Len(Ascending(Offsets(b))), NEW o \in Int,
           Off(Ascending(Offsets(b)), n) <= o,
           n < Len(Ascending(Offsets(b))) => o < Ascending(Offsets(b))[n + 1]
    PROVE  ValuesAt(b, o, last) = Val(b, last, Ascending(Offsets(b)), n)
<1> DEFINE set == Offsets(b)
           list == Ascending(set)
<1>1. set \in SUBSET (0 .. buffer_size) /\ set \subseteq Nat
    BY FilterAssumption DEF Offsets, IsEvents
<1> HIDE DEF set
<1>2. list \in Seq(set) /\ Len(list) \in Nat
    <2>1. list \in Seq(set)
        BY <1>1, AscendingSorted
    <2> QED
        BY <2>1, LenProperties
<1>3. \A e \in set : \E i \in 1 .. Len(list) : list[i] = e
    BY <1>1, AscendingSorted
<1>4. \A i, j \in 1 .. Len(list) : i < j => list[i] < list[j]
    BY <1>1, AscendingSorted
<1>5. n \in 0 .. Len(list) /\ Off(list, n) <= o /\ (n < Len(list) => o < list[n + 1])
    BY DEF set
<1> HIDE DEF list
<1>6. \A i \in 1 .. Len(list) : list[i] \in Nat
    BY <1>1, <1>2, ElementOfSeq
<1>7. ASSUME NEW e \in set PROVE (n # 0 /\ e <= list[n]) \/ e > o
    <2>1. PICK i \in 1 .. Len(list) : list[i] = e
        BY <1>3
    <2>2. e \in Nat /\ i \in Nat /\ n \in Nat
        BY <1>1, <1>2, <1>5
    <2>3. CASE i <= n
        <3>1. n # 0 /\ n \in 1 .. Len(list)
            BY <1>2, <1>5, <2>2, <2>3
        <3>2. i = n \/ i < n
            BY <2>2, <2>3
        <3>3. list[n] \in Nat
            BY <1>6, <3>1
        <3>4. i < n => list[i] < list[n]
            BY <1>4, <3>1
        <3> DEFINE l == list[n]
        <3>5. i < n => e < l
            BY <2>1, <3>4
        <3>6. i = n => e = l
            BY <2>1
        <3>7. l \in Nat
            BY <3>3
        <3> HIDE DEF l
        <3>8. e <= l
            BY <2>2, <3>2, <3>5, <3>6, <3>7
        <3> QED
            BY <3>1, <3>8 DEF l
    <2>4. CASE n < i
        <3>1. n + 1 \in 1 .. Len(list) /\ n < Len(list) /\ (i = n + 1 \/ n + 1 < i)
            BY <1>2, <1>5, <2>2, <2>4
        <3>2. o < list[n + 1] /\ list[n + 1] \in Nat
            BY <1>5, <1>6, <3>1
        <3>3. n + 1 < i => list[n + 1] < list[i]
            BY <1>4, <3>1
        <3> DEFINE l == list[n + 1]
        <3>4. n + 1 < i => l < e
            BY <2>1, <3>3
        <3>5. i = n + 1 => e = l
            BY <2>1
        <3>6. l \in Nat /\ o < l
            BY <3>2
        <3> HIDE DEF l
        <3>7. o < e
            BY <2>2, <3>1, <3>4, <3>5, <3>6
        <3> QED
            BY <2>2, <3>7
    <2> QED
        BY <2>2, <2>3, <2>4
<1>8. CASE n = 0
    <2>1. \A e \in Offsets(b) : e > o
        BY <1>7, <1>8 DEF set
    <2>2. ValuesAt(b, o, last) = last
        BY <2>1, ValuesAtFirst
    <2> QED
        BY <1>8, <2>2 DEF Val
<1>9. CASE n # 0
    <2>1. n \in 1 .. Len(list)
        BY <1>2, <1>5, <1>9
    <2>2. PICK l \in Nat : l = list[n]
        BY <1>6, <2>1
    <2>3. l <= o
        BY <1>5, <1>9, <2>2 DEF Off
    <2>4. \A e \in Offsets(b) : e <= l \/ e > o
        BY <1>7, <2>2 DEF set
    <2>5. l \in Int
        OBVIOUS
    <2>6. ValuesAt(b, o, last) = ValuesAt(b, l, last)
        BY <2>3, <2>4, <2>5, ValuesKeep
    <2>7. Val(b, last, list, n) = ValuesAt(b, l, last)
        BY <1>9, <2>2 DEF Val
    <2> QED
        BY <2>6, <2>7 DEF list, set
<1> QED
    BY <1>8, <1>9

\* Converted, of the values that were the last ones.
ConvertedFrom(b, last) ==
    LET offsets == Ascending(Offsets(b))
    IN  [n \in 1 .. Len(offsets) |-> Event(offsets[n], ValuesAt(b, offsets[n], last))]

\* The values at the frames of a period.
InPeriod(b, last) == [k \in Frame |-> ValuesAt(b, k - 1, last)]

LEMMA EventIs ==
    ASSUME NEW before0, NEW values, NEW z1, NEW z2, NEW u1, NEW u2, NEW o
    PROVE  ProcessEvent(ProcOf(before0, z1, z2, u1, u2), Event(o, values))
               = ProcOf(values, z1, z2, u1, u2)
<1> DEFINE p == ProcOf(before0, z1, z2, u1, u2)
           e == Event(o, values)
<1>1. p.first = [coeffs |-> Coefficients(before0), z1 |-> z1, z2 |-> z2]
    BY DEF ProcOf
<1>2. p.second = [coeffs |-> IF Four(before0) THEN Coefficients(before0) ELSE Through,
                  z1 |-> u1, z2 |-> u2]
    BY DEF ProcOf
<1>3. e.type = values["type"] /\ e.coeffs = Coefficients(values)
    BY DEF Event
<1> HIDE DEF p, e
<1>4. (e.type \in {"lp4", "bp4", "hp4"}) = Four(values)
    BY <1>3 DEF Four
<1>5. ProcessEvent(p, e)
          = [type |-> e.type, both |-> e.type \in {"lp4", "bp4", "hp4"},
             first |-> [p.first EXCEPT !.coeffs = e.coeffs],
             second |-> [p.second EXCEPT !.coeffs =
                            IF e.type \in {"lp4", "bp4", "hp4"} THEN e.coeffs ELSE Through]]
    BY DEF ProcessEvent
<1>6. [p.first EXCEPT !.coeffs = e.coeffs]
          = [coeffs |-> Coefficients(values), z1 |-> z1, z2 |-> z2]
    BY <1>1, <1>3
<1>7. [p.second EXCEPT !.coeffs = IF e.type \in {"lp4", "bp4", "hp4"} THEN e.coeffs ELSE Through]
          = [coeffs |-> IF Four(values) THEN Coefficients(values) ELSE Through,
             z1 |-> u1, z2 |-> u2]
    <2> DEFINE h == p.second
               D == IF e.type \in {"lp4", "bp4", "hp4"} THEN e.coeffs ELSE Through
               E == IF Four(values) THEN Coefficients(values) ELSE Through
               F == IF Four(before0) THEN Coefficients(before0) ELSE Through
    <2>1. D = E
        BY <1>3 DEF Four
    <2>2. h = [coeffs |-> F, z1 |-> u1, z2 |-> u2]
        BY <1>2
    <2> HIDE DEF h, D, E, F
    <2>3. [h EXCEPT !.coeffs = D] = [coeffs |-> E, z1 |-> u1, z2 |-> u2]
        BY <2>1, <2>2
    <2> QED
        BY <2>3 DEF h, D, E
<1>8. ProcessEvent(p, e) = ProcOf(values, z1, z2, u1, u2)
    <2> DEFINE t == values["type"]
               f == [coeffs |-> Coefficients(values), z1 |-> z1, z2 |-> z2]
               g == [coeffs |-> IF Four(values) THEN Coefficients(values) ELSE Through,
                     z1 |-> u1, z2 |-> u2]
    <2>1. ProcessEvent(p, e)
              = [type |-> t, both |-> t \in {"lp4", "bp4", "hp4"}, first |-> f, second |-> g]
        <3> HIDE DEF f, g
        <3>1. [p.first EXCEPT !.coeffs = e.coeffs] = f
            BY <1>6 DEF f
        <3>2. [p.second EXCEPT !.coeffs =
                   IF e.type \in {"lp4", "bp4", "hp4"} THEN e.coeffs ELSE Through] = g
            BY <1>7 DEF g
        <3>3. e.type = t
            BY <1>3
        <3> QED
            BY <1>5, <3>1, <3>2, <3>3
    <2>2. ProcOf(values, z1, z2, u1, u2)
              = [type |-> t, both |-> t \in {"lp4", "bp4", "hp4"}, first |-> f, second |-> g]
        BY DEF ProcOf, Four
    <2> QED
        BY <2>1, <2>2
<1> QED
    BY <1>8 DEF p, e


\* Once per event, and once more to the end of the period.
LEMMA SlicedIs ==
    ASSUME NEW b, IsEvents(b), NEW last, IsValues(last), NEW s, NEW z1, NEW z2, NEW u1, NEW u2,
           NEW r, IsReference(r, InPeriod(b, last), s, ProcOf(last, z1, z2, u1, u2)),
           ~(ConvertedFrom(b, last) = <<>> /\ last["type"] = "bypass")
    PROVE  ProcessSliced(ProcOf(last, z1, z2, u1, u2), s, ConvertedFrom(b, last))
               = [proc |-> RunAt(r, ValuesAt(b, buffer_size, last), buffer_size).proc,
                  result |-> Buffer(Made(r, buffer_size))]
<1> DEFINE p == ProcOf(last, z1, z2, u1, u2)
           set == Offsets(b)
           list == Ascending(set)
           L == Len(list)
           events == ConvertedFrom(b, last)
           v == InPeriod(b, last)
           start == [proc |-> p, frames |-> <<>>]
           off(n) == Off(list, n)
           val(n) == Val(b, last, list, n)
           Handle(f, n) ==
               IF n = 0 THEN start
               ELSE [ProcessSlice(f[n - 1], s, events[n].offset) EXCEPT
                        !.proc = ProcessEvent(@, events[n])]
           f == CHOOSE h : h = [n \in 0 .. L |-> Handle(h, n)]
           g == [n \in 0 .. L |-> RunAt(r, val(n), off(n))]
           Wrong == {n \in 0 .. L : f[n] # RunAt(r, val(n), off(n))}
<1>0. buffer_size \in Nat /\ Frame = 1 .. buffer_size
    BY FilterAssumption DEF Frame
<1>1. set \in SUBSET (0 .. buffer_size) /\ \A o \in set : o \in 0 .. buffer_size
    BY FilterAssumption DEF Offsets, IsEvents
<1>2. list \in Seq(set) /\ L \in Nat
    <2>1. list \in Seq(set)
        <3> HIDE DEF set
        <3> QED
            BY <1>1, AscendingSorted
    <2> HIDE DEF list
    <2> QED
        BY <2>1, LenProperties
<1>3. \A n \in 1 .. L : list[n] \in 0 .. buffer_size
    <2>1. \A n \in 1 .. L : list[n] \in set
        <3> HIDE DEF set, list
        <3> QED
            BY <1>2, ElementOfSeq
    <2> HIDE DEF set, list, L
    <2> QED
        BY <1>1, <2>1
<1>4. \A i, j \in 1 .. L : i < j => list[i] < list[j]
    <2> HIDE DEF set
    <2> QED
        BY <1>1, AscendingSorted
<1>5. ASSUME NEW n \in 0 .. L PROVE off(n) \in 0 .. buffer_size
    <2>1. CASE n = 0
        BY <1>0, <2>1 DEF Off
    <2>2. CASE n # 0
        <3>1. n \in 1 .. L
            BY <1>2, <2>2
        <3> HIDE DEF list, L
        <3> QED
            BY <1>3, <2>2, <3>1 DEF Off
    <2> QED
        BY <2>1, <2>2
<1>6. ASSUME NEW n \in 1 .. L
      PROVE n - 1 \in 0 .. L /\ n # 0 /\ off(n) = list[n] /\ off(n - 1) <= off(n)
    <2>1. n - 1 \in 0 .. L /\ n # 0
        BY <1>2
    <2> HIDE DEF list, L
    <2>2. off(n) = list[n]
        BY <2>1 DEF Off
    <2>3. CASE n = 1
        <3>1. off(n - 1) = 0
            BY <2>3 DEF Off
        <3> QED
            BY <1>3, <2>1, <2>2, <3>1
    <2>4. CASE n # 1
        <3>1. n - 1 \in 1 .. L /\ n - 1 # 0 /\ n - 1 < n
            BY <1>2, <2>4
        <3>2. off(n - 1) = list[n - 1]
            BY <3>1 DEF Off
        <3>3. list[n - 1] < list[n]
            BY <1>4, <3>1
        <3>4. list[n - 1] \in Nat /\ list[n] \in Nat
            BY <1>3, <3>1
        <3> QED
            BY <2>1, <2>2, <3>2, <3>3, <3>4
    <2> QED
        BY <2>1, <2>2, <2>3, <2>4
<1>7. ASSUME NEW n \in 0 .. L, NEW m \in off(n) .. buffer_size, n < L => m <= list[n + 1]
      PROVE  ProcessSlice(RunAt(r, val(n), off(n)), s, m) = RunAt(r, val(n), m)
    <2>1. ASSUME NEW j \in off(n) + 1 .. m PROVE v[j] = val(n)
        <3>1. off(n) \in 0 .. buffer_size
            BY <1>5
        <3>2. j \in Frame /\ j - 1 \in Int /\ off(n) <= j - 1 /\ j - 1 < m
            <4> DEFINE o == off(n)
            <4>1. o \in 0 .. buffer_size /\ j \in o + 1 .. m /\ m \in o .. buffer_size
                BY <3>1
            <4> HIDE DEF o
            <4>2. j \in Frame /\ j - 1 \in Int /\ o <= j - 1 /\ j - 1 < m
                BY <1>0, <4>1
            <4> QED
                BY <4>2 DEF o
        <3>3. n < L => j - 1 < list[n + 1]
            <4>1. n < L => list[n + 1] \in 0 .. buffer_size
                <5>1. n < L => n + 1 \in 1 .. L
                    BY <1>2
                <5> HIDE DEF list, L
                <5> QED
                    BY <1>3, <5>1
            <4>2. m \in Int /\ j \in Int
                BY <3>1
            <4> DEFINE l == list[n + 1]
            <4>3. n < L => m <= l /\ l \in Int
                BY <1>0, <1>7, <4>1
            <4>4. j - 1 < m
                BY <3>2
            <4> HIDE DEF l, list, L
            <4>5. n < L => j - 1 < l
                BY <4>2, <4>3, <4>4
            <4> QED
                BY <4>5 DEF l
        <3>4. ValuesAt(b, j - 1, last) = val(n)
            BY <3>2, <3>3, ValuesBetween
        <3>5. v[j] = ValuesAt(b, j - 1, last)
            BY <3>2 DEF InPeriod
        <3> QED
            BY <3>4, <3>5
    <2>2. off(n) \in 0 .. buffer_size
        BY <1>5
    <2>3. IsReference(r, v, s, p)
        OBVIOUS
    <2> HIDE DEF off, val, v, p, list, L
    <2> QED
        BY <2>1, <2>2, <2>3, SliceIs
<1>8. ASSUME NEW n \in 1 .. L
      PROVE  /\ events[n] = Event(list[n], ValuesAt(b, list[n], last))
             /\ events[n].offset = list[n]
             /\ val(n) = ValuesAt(b, list[n], last)
    <2>1. events[n] = Event(list[n], ValuesAt(b, list[n], last))
        BY DEF ConvertedFrom
    <2>2. val(n) = ValuesAt(b, list[n], last)
        <3>1. n # 0
            BY <1>2
        <3> QED
            BY <3>1 DEF Val
    <2>3. events[n].offset = list[n]
        <3> HIDE DEF events, list
        <3> QED
            BY <2>1 DEF Event
    <2> QED
        BY <2>1, <2>2, <2>3
<1>9. ASSUME NEW n \in 1 .. L
      PROVE  [ProcessSlice(RunAt(r, val(n - 1), off(n - 1)), s, events[n].offset) EXCEPT
                 !.proc = ProcessEvent(@, events[n])] = RunAt(r, val(n), off(n))
    <2> DEFINE m == list[n]
               old == RunAt(r, val(n - 1), m)
    <2>1. n - 1 \in 0 .. L /\ off(n) = m /\ off(n - 1) <= m /\ n = (n - 1) + 1
        BY <1>2, <1>6
    <2>2. m \in off(n - 1) .. buffer_size
        <3>1. off(n - 1) \in 0 .. buffer_size /\ m \in 0 .. buffer_size
            BY <1>3, <1>5, <2>1
        <3> DEFINE o == off(n - 1)
        <3>2. o <= m /\ o \in 0 .. buffer_size
            BY <2>1, <3>1
        <3> HIDE DEF o, m
        <3>3. m \in o .. buffer_size
            BY <1>0, <3>1, <3>2
        <3> QED
            BY <3>3 DEF o
    <2>3. m <= list[(n - 1) + 1]
        <3>1. m \in 0 .. buffer_size
            BY <1>3
        <3>2. list[(n - 1) + 1] = m
            BY <2>1
        <3> HIDE DEF m, list
        <3> QED
            BY <1>0, <3>1, <3>2
    <2>4. ProcessSlice(RunAt(r, val(n - 1), off(n - 1)), s, m) = old
        <3> HIDE DEF off, val, list, L, m
        <3> QED
            BY <1>7, <2>1, <2>2, <2>3
    <2>5. events[n] = Event(m, val(n)) /\ events[n].offset = m
        <3> HIDE DEF events, list, val
        <3> QED
            BY <1>8 DEF m
    <2> DEFINE x == val(n)
               y == val(n - 1)
    <2>6. old = [proc |-> ProcOf(y, r.z1[m], r.z2[m], r.u1[m], r.u2[m]), frames |-> Made(r, m)]
        BY DEF RunAt
    <2>7. RunAt(r, x, m)
              = [proc |-> ProcOf(x, r.z1[m], r.z2[m], r.u1[m], r.u2[m]), frames |-> Made(r, m)]
        BY DEF RunAt
    <2> HIDE DEF x, y, m, old
    <2>8. ProcessEvent(ProcOf(y, r.z1[m], r.z2[m], r.u1[m], r.u2[m]), Event(m, x))
              = ProcOf(x, r.z1[m], r.z2[m], r.u1[m], r.u2[m])
        BY EventIs
    <2>9. [old EXCEPT !.proc = ProcessEvent(old.proc, Event(m, x))] = RunAt(r, x, m)
        <3> DEFINE a == ProcOf(y, r.z1[m], r.z2[m], r.u1[m], r.u2[m])
                   c == ProcOf(x, r.z1[m], r.z2[m], r.u1[m], r.u2[m])
                   d == Made(r, m)
        <3>1. old = [proc |-> a, frames |-> d] /\ RunAt(r, x, m) = [proc |-> c, frames |-> d]
            BY <2>6, <2>7
        <3>2. ProcessEvent(a, Event(m, x)) = c
            BY <2>8
        <3> HIDE DEF a, c, d
        <3>3. old.proc = a
            BY <3>1
        <3>4. [old EXCEPT !.proc = c] = [proc |-> c, frames |-> d]
            BY <3>1
        <3> QED
            BY <3>1, <3>2, <3>3, <3>4
    <2>10. events[n] = Event(m, x) /\ events[n].offset = m /\ off(n) = m
        BY <2>1, <2>5 DEF x
    <2> HIDE DEF events, off
    <2>11. [old EXCEPT !.proc = ProcessEvent(@, events[n])] = RunAt(r, x, off(n))
        BY <2>9, <2>10
    <2> HIDE DEF val
    <2> QED
        BY <2>4, <2>10, <2>11 DEF x
<1>10. start = RunAt(r, val(0), off(0))
    <2>1. off(0) = 0 /\ val(0) = last
        BY DEF Off, Val
    <2>2. r.z1[0] = z1 /\ r.z2[0] = z2 /\ r.u1[0] = u1 /\ r.u2[0] = u2
        BY DEF IsReference, ProcOf
    <2>3. Made(r, 0) = <<>>
        BY DEF Made
    <2> HIDE DEF off, val
    <2> QED
        BY <2>1, <2>2, <2>3 DEF RunAt
<1>11. ASSUME NEW n \in 0 .. L PROVE RunAt(r, val(n), off(n)) = Handle(g, n)
    <2>1. CASE n = 0
        BY <1>10, <2>1
    <2>2. CASE n # 0
        <3>1. n \in 1 .. L /\ n - 1 \in 0 .. L
            BY <1>2, <2>2
        <3>2. g[n - 1] = RunAt(r, val(n - 1), off(n - 1))
            BY <3>1
        <3> HIDE DEF g, val, off, events, L
        <3>3. [ProcessSlice(g[n - 1], s, events[n].offset) EXCEPT
                 !.proc = ProcessEvent(@, events[n])] = RunAt(r, val(n), off(n))
            BY <1>9, <3>1, <3>2
        <3> QED
            BY <2>2, <3>3
    <2> QED
        BY <2>1, <2>2
<1> HIDE DEF Handle
<1>12. g = [n \in 0 .. L |-> Handle(g, n)]
    BY <1>11
<1>13. f = [n \in 0 .. L |-> Handle(f, n)]
    <2> HIDE DEF g
    <2> QED
        BY <1>12
<1>f. Len(events) = L
    <2> DEFINE T == {Event(list[n], ValuesAt(b, list[n], last)) : n \in 1 .. L}
    <2>1. events = [n \in 1 .. L |-> Event(list[n], ValuesAt(b, list[n], last))]
        BY DEF ConvertedFrom
    <2>2. \A n \in 1 .. L : Event(list[n], ValuesAt(b, list[n], last)) \in T
        OBVIOUS
    <2> HIDE DEF T, L, list, events
    <2>3. events \in [1 .. L -> T]
        BY <2>1, <2>2
    <2> QED
        BY <1>2, <2>3, SeqDef, LenProperties
<1>14. ASSUME TRUE
       PROVE  ProcessSliced(p, s, events)
           = [proc |-> ProcessSlice(f[L], s, buffer_size).proc,
              result |-> Buffer(ProcessSlice(f[L], s, buffer_size).frames)]
    <2>1. p.type = last["type"]
        BY DEF ProcOf
    <2>2. ~(events = <<>> /\ p.type = "bypass")
        BY <2>1
    <2> HIDE DEF p, events, L
    <2> QED
        BY <1>f, <2>2 DEF ProcessSliced, Handle
<1> HIDE DEF f
<1>15. f[0] = RunAt(r, val(0), off(0))
    <2>1. 0 \in 0 .. L
        BY <1>2
    <2>2. f[0] = Handle(f, 0)
        BY <1>13, <2>1
    <2>3. Handle(f, 0) = start
        BY DEF Handle
    <2> QED
        BY <1>10, <2>2, <2>3
<1>16. ASSUME NEW n \in 1 .. L, f[n - 1] = RunAt(r, val(n - 1), off(n - 1))
       PROVE  f[n] = RunAt(r, val(n), off(n))
    <2>1. n \in 0 .. L /\ n # 0
        BY <1>2
    <2>2. f[n] = Handle(f, n)
        BY <1>13, <2>1
    <2> HIDE DEF events, val, off, L
    <2>3. Handle(f, n) = [ProcessSlice(f[n - 1], s, events[n].offset) EXCEPT
                             !.proc = ProcessEvent(@, events[n])]
        BY <2>1 DEF Handle
    <2> QED
        BY <1>9, <1>16, <2>2, <2>3
<1>17. Wrong = {}
    <2> SUFFICES ASSUME Wrong # {} PROVE FALSE
        OBVIOUS
    <2>1. PICK n \in Wrong : \A i \in Wrong : n <= i
        <3>1. Wrong \in SUBSET Nat
            BY <1>2
        <3> HIDE DEF Wrong
        <3> QED
            BY <3>1, LeastNumber
    <2>2. n \in 0 .. L /\ f[n] # RunAt(r, val(n), off(n))
        OBVIOUS
    <2>3. n # 0
        BY <1>15, <2>2
    <2>4. n \in 1 .. L /\ n - 1 \in 0 .. L /\ ~(n <= n - 1)
        BY <1>2, <2>2, <2>3
    <2>5. n - 1 \notin Wrong
        <3> HIDE DEF Wrong
        <3> QED
            BY <2>1, <2>4
    <2>6. f[n - 1] = RunAt(r, val(n - 1), off(n - 1))
        BY <2>4, <2>5
    <2>7. f[n] = RunAt(r, val(n), off(n))
        BY <1>16, <2>4, <2>6
    <2> QED
        BY <2>2, <2>7
<1>18. L \in 0 .. L /\ f[L] = RunAt(r, val(L), off(L))
    <2>1. L \in 0 .. L /\ L \notin Wrong
        BY <1>2, <1>17
    <2> QED
        BY <2>1
<1>19. ProcessSlice(f[L], s, buffer_size) = RunAt(r, val(L), buffer_size)
    <2>1. ~(L < L)
        BY <1>2
    <2>2. off(L) \in 0 .. buffer_size
        BY <1>5, <1>18
    <2>3. buffer_size \in off(L) .. buffer_size
        <3> DEFINE o == off(L)
        <3>1. o \in 0 .. buffer_size
            BY <2>2
        <3> HIDE DEF o
        <3>2. buffer_size \in o .. buffer_size
            BY <1>0, <3>1
        <3> QED
            BY <3>2 DEF o
    <2> HIDE DEF off, val, L
    <2> QED
        BY <1>7, <1>18, <2>1, <2>3
<1>20. ValuesAt(b, buffer_size, last) = val(L)
    <2>1. ~(L < L) /\ buffer_size \in Int
        BY <1>0, <1>2
    <2>2. off(L) <= buffer_size
        <3>1. off(L) \in 0 .. buffer_size
            BY <1>5, <1>18
        <3> HIDE DEF off, L
        <3> QED
            BY <1>0, <3>1
    <2> QED
        BY <1>18, <2>1, <2>2, ValuesBetween
<1>21. RunAt(r, val(L), buffer_size).frames = Made(r, buffer_size)
    BY DEF RunAt
<1> HIDE DEF p, events, val, L, f
<1>22. ProcessSliced(p, s, events)
           = [proc |-> RunAt(r, val(L), buffer_size).proc, result |-> Buffer(Made(r, buffer_size))]
    BY <1>14, <1>19, <1>21
<1> QED
    BY <1>20, <1>22 DEF p, events


-----------------------------------------------------------------------------
(* A channel in a period. *)

ProcFits(p, values) ==
    Remembers(p) /\ p = ProcOf(values, p.first.z1, p.first.z2, p.second.z1, p.second.z2)

LEMMA NothingConverted ==
    ASSUME NEW b, IsEvents(b), NEW last
    PROVE  ConvertedFrom(b, last) = <<>> <=> Offsets(b) = {}
<1> DEFINE set == Offsets(b)
           list == Ascending(set)
           L == Len(list)
           events == ConvertedFrom(b, last)
<1>1. set \in SUBSET (0 .. buffer_size)
    BY FilterAssumption DEF Offsets, IsEvents
<1>e. events = [n \in 1 .. L |-> Event(list[n], ValuesAt(b, list[n], last))]
    BY DEF ConvertedFrom
<1> HIDE DEF set, events
<1>2. list \in Seq(set) /\ \A o \in set : \E i \in 1 .. Len(list) : list[i] = o
    BY <1>1, AscendingSorted
<1> HIDE DEF list
<1>3. L \in Nat
    BY <1>2, LenProperties
<1>4. \A n \in 1 .. L : list[n] \in set
    BY <1>2, ElementOfSeq
<1>5. DOMAIN events = 1 .. L
    BY <1>e
<1> HIDE DEF L
<1>6. ASSUME events = <<>> PROVE set = {}
    <2>1. 1 .. L = {}
        BY <1>5, <1>6
    <2> QED
        BY <1>2, <2>1 DEF L
<1>7. ASSUME set = {} PROVE events = <<>>
    <2>1. 1 .. L = {}
        BY <1>4, <1>7
    <2>2. events = [n \in {} |-> Event(list[n], ValuesAt(b, list[n], last))]
        BY <1>e, <2>1
    <2> QED
        BY <2>2
<1> QED
    BY <1>6, <1>7 DEF set, events

\* After two frames of a bypass the biquads remember nothing of what was before, and
\* the third passes as it is.
LEMMA BypassPasses ==
    ASSUME NEW r, NEW v, NEW s, NEW proc, IsInput(s), IsReference(r, v, s, proc),
           NEW k \in Frame, k > 2, \A j \in k - 2 .. k : v[j]["type"] = "bypass"
    PROVE  r.out[k] = At(s, k)
<1>1. k \in Nat /\ k - 1 \in Frame /\ k - 2 \in Frame /\ (k - 1) - 1 = k - 2
    BY FilterAssumption DEF Frame
<1>2. /\ v[k]["type"] = "bypass" /\ v[k - 1]["type"] = "bypass"
      /\ v[k - 2]["type"] = "bypass"
    <2>1. k \in k - 2 .. k /\ k - 1 \in k - 2 .. k /\ k - 2 \in k - 2 .. k
        BY <1>1
    <2> QED
        BY <2>1
<1>3. /\ Coefficients(v[k]) = Through /\ Coefficients(v[k - 1]) = Through
      /\ Coefficients(v[k - 2]) = Through
    BY <1>2 DEF Coefficients
<1>4. /\ Through.a0 = 1 /\ Through.a1 = 0 /\ Through.a2 = 0
      /\ Through.b1 = 0 /\ Through.b2 = 0
    BY DEF Through
<1>5. \A n \in Int : 0 * n = 0 /\ 1 * n = n
    OBVIOUS
<1>6. \A j \in Frame : At(s, j) \in Int /\ r.once[j] \in Int
    BY DEF IsInput, IsReference
<1>7. r.z2[k - 2] = 0
    <2>1. r.z2[k - 2] = Coefficients(v[k - 2]).a2 * At(s, k - 2)
                        - Coefficients(v[k - 2]).b2 * r.once[k - 2]
        BY <1>1 DEF IsReference
    <2>2. r.z2[k - 2] = 0 * At(s, k - 2) - 0 * r.once[k - 2]
        BY <1>3, <1>4, <2>1
    <2>3. 0 * At(s, k - 2) = 0 /\ 0 * r.once[k - 2] = 0
        BY <1>1, <1>5, <1>6
    <2> QED
        BY <2>2, <2>3
<1>8. r.z1[k - 1] = 0
    <2>1. r.z1[k - 1] = Coefficients(v[k - 1]).a1 * At(s, k - 1)
                        - Coefficients(v[k - 1]).b1 * r.once[k - 1] + r.z2[(k - 1) - 1]
        BY <1>1 DEF IsReference
    <2>2. r.z1[k - 1] = 0 * At(s, k - 1) - 0 * r.once[k - 1] + 0
        BY <1>1, <1>3, <1>4, <1>7, <2>1
    <2>3. 0 * At(s, k - 1) = 0 /\ 0 * r.once[k - 1] = 0
        BY <1>1, <1>5, <1>6
    <2> QED
        BY <2>2, <2>3
<1>9. r.once[k] = At(s, k)
    <2>1. r.once[k] = Coefficients(v[k]).a0 * At(s, k) + r.z1[k - 1]
        BY DEF IsReference
    <2>2. r.once[k] = 1 * At(s, k) + 0
        BY <1>3, <1>4, <1>8, <2>1
    <2>3. 1 * At(s, k) = At(s, k) /\ At(s, k) \in Int
        BY <1>5, <1>6
    <2> QED
        BY <2>2, <2>3
<1>10. ~Four(v[k])
    BY <1>2 DEF Four
<1>11. r.out[k] = r.once[k]
    BY <1>10 DEF IsReference
<1> QED
    BY <1>9, <1>11

\* What is promised of a channel.
Follows(b, last, s, p, result) ==
    /\ IF last["type"] = "bypass" /\ Offsets(b) = {} THEN result = s
       ELSE Frames(result) = Answers(InPeriod(b, last), s, p)
    /\ \A k \in Frame :
           k > 2 /\ (\A j \in k - 2 .. k : ValuesAt(b, j - 1, last)["type"] = "bypass")
               => At(result, k) = At(s, k)

LEMMA ChannelFollows ==
    ASSUME NEW b, IsEvents(b), NEW last, IsValues(last), NEW s, IsInput(s),
           NEW p, ProcFits(p, last)
    PROVE  /\ ProcFits(ProcessSliced(p, s, ConvertedFrom(b, last)).proc,
                       ValuesAt(b, buffer_size, last))
           /\ Follows(b, last, s, p, ProcessSliced(p, s, ConvertedFrom(b, last)).result)
<1> DEFINE v == InPeriod(b, last)
           events == ConvertedFrom(b, last)
           o == ProcessSliced(p, s, events)
           final == ValuesAt(b, buffer_size, last)
<1>0. buffer_size \in Nat /\ Frame = 1 .. buffer_size
    BY FilterAssumption DEF Frame
<1>1. p.type = last["type"]
    <2>1. p = ProcOf(last, p.first.z1, p.first.z2, p.second.z1, p.second.z2)
        BY DEF ProcFits
    <2>2. ProcOf(last, p.first.z1, p.first.z2, p.second.z1, p.second.z2).type = last["type"]
        BY DEF ProcOf
    <2> QED
        BY <2>1, <2>2
<1>2. events = <<>> <=> Offsets(b) = {}
    BY NothingConverted
<1>3. CASE events = <<>> /\ last["type"] = "bypass"
    <2>1. o = [proc |-> p, result |-> s]
        <3> HIDE DEF events
        <3> QED
            BY <1>1, <1>3 DEF ProcessSliced
    <2>2. final = last
        <3>1. \A e \in Offsets(b) : e > buffer_size
            BY <1>2, <1>3
        <3>2. buffer_size \in Int
            BY <1>0
        <3> QED
            BY <3>1, <3>2, ValuesAtFirst
    <2>3. o.proc = p /\ o.result = s
        <3> HIDE DEF o
        <3> QED
            BY <2>1
    <2>4. Follows(b, last, s, p, s)
        BY <1>2, <1>3 DEF Follows
    <2> HIDE DEF o, final
    <2>5. ProcFits(o.proc, final) /\ Follows(b, last, s, p, o.result)
        BY <2>2, <2>3, <2>4
    <2> QED
        BY <2>5 DEF o, final
<1>4. CASE ~(events = <<>> /\ last["type"] = "bypass")
    <2>1. AreValues(v)
        <3>1. ASSUME NEW k \in Frame PROVE IsValues(v[k])
            <4>1. k - 1 \in Int /\ v[k] = ValuesAt(b, k - 1, last)
                BY <1>0 DEF InPeriod
            <4>2. IsValues(ValuesAt(b, k - 1, last))
                BY <4>1, ValuesAre
            <4> QED
                BY <4>1, <4>2
        <3> QED
            BY <3>1 DEF AreValues
    <2>2. Remembers(p)
        BY DEF ProcFits
    <2>3. PICK r : IsReference(r, v, s, p) /\ Answers(v, s, p) = [k \in Frame |-> r.out[k]]
        <3> HIDE DEF v
        <3> QED
            BY <2>1, <2>2, AnswersAreReference
    <2>4. o = [proc |-> RunAt(r, final, buffer_size).proc, result |-> Buffer(Made(r, buffer_size))]
        <3> DEFINE q == ProcOf(last, p.first.z1, p.first.z2, p.second.z1, p.second.z2)
        <3>1. p = q
            BY DEF ProcFits
        <3>2. IsReference(r, v, s, q)
            BY <2>3, <3>1
        <3>3. ProcessSliced(q, s, events)
                  = [proc |-> RunAt(r, final, buffer_size).proc,
                     result |-> Buffer(Made(r, buffer_size))]
            BY <1>4, <3>2, SlicedIs
        <3> QED
            BY <3>1, <3>3
    <2> HIDE DEF o, final
    <2>5. ProcFits(o.proc, final)
        <3> DEFINE n == buffer_size
        <3>1. o.proc = ProcOf(final, r.z1[n], r.z2[n], r.u1[n], r.u2[n])
            BY <2>4 DEF RunAt
        <3>2. r.z1[n] \in Int /\ r.z2[n] \in Int /\ r.u1[n] \in Int /\ r.u2[n] \in Int
            <4>1. n \in 0 .. buffer_size
                BY <1>0
            <4> QED
                BY <2>3, <4>1 DEF IsReference
        <3> DEFINE q == o.proc
        <3>3. /\ q.first.z1 = r.z1[n] /\ q.first.z2 = r.z2[n]
              /\ q.second.z1 = r.u1[n] /\ q.second.z2 = r.u2[n]
            BY <3>1 DEF ProcOf
        <3> HIDE DEF q, n
        <3>4. Remembers(q)
            BY <3>2, <3>3 DEF Remembers
        <3>5. q = ProcOf(final, q.first.z1, q.first.z2, q.second.z1, q.second.z2)
            BY <3>1, <3>3 DEF q
        <3> QED
            BY <3>4, <3>5 DEF ProcFits, q
    <2>6. ASSUME NEW k \in Frame PROVE At(o.result, k) = r.out[k]
        <3>1. o.result = [frames |-> Made(r, buffer_size)]
            BY <2>4 DEF Buffer
        <3>2. ~IsConstant(o.result)
            <4>1. DOMAIN o.result = {"frames"}
                BY <3>1
            <4> QED
                BY <4>1 DEF IsConstant
        <3>3. At(o.result, k) = Made(r, buffer_size)[k]
            BY <3>1, <3>2 DEF At
        <3> QED
            BY <1>0, <3>3 DEF Made
    <2>7. Frames(o.result) = Answers(v, s, p)
        <3>1. Frames(o.result) = [k \in Frame |-> At(o.result, k)]
            BY DEF Frames
        <3> QED
            BY <2>3, <2>6, <3>1
    <2>8. ASSUME NEW k \in Frame, k > 2,
                 \A j \in k - 2 .. k : ValuesAt(b, j - 1, last)["type"] = "bypass"
          PROVE  At(o.result, k) = At(s, k)
        <3>1. ASSUME NEW j \in k - 2 .. k PROVE v[j]["type"] = "bypass"
            <4>1. j \in Frame
                BY <1>0, <2>8
            <4>2. v[j] = ValuesAt(b, j - 1, last)
                BY <4>1 DEF InPeriod
            <4> QED
                BY <2>8, <4>2
        <3> HIDE DEF v
        <3>2. r.out[k] = At(s, k)
            BY <2>3, <2>8, <3>1, BypassPasses
        <3> QED
            BY <2>6, <3>2
    <2>9. Follows(b, last, s, p, o.result)
        <3>1. ~(last["type"] = "bypass" /\ Offsets(b) = {})
            BY <1>2, <1>4
        <3> QED
            BY <2>7, <2>8, <3>1 DEF Follows
    <2> QED
        BY <2>5, <2>9 DEF o, final
<1> QED
    BY <1>3, <1>4


-----------------------------------------------------------------------------
(* The effect. *)

FilterInv ==
    /\ bus_type \in {"mono", "stereo"}
    /\ cycles \in Nat
    /\ IsValues(m_last)
    /\ \A c \in Channel : ProcFits(procs[c], m_last)
    /\ FilterFollowsParameters

LEMMA NewProcessorFits ==
    ASSUME NEW v, v = [p \in Parameter |-> IF p = "type" THEN "bypass" ELSE 0]
    PROVE  IsValues(v) /\ ProcFits(NewProcessor, v)
<1>1. v["type"] = "bypass" /\ v["cutoff"] = 0 /\ v["resonance"] = 0
    BY DEF Parameter
<1>2. IsValues(v)
    <2>1. v["type"] \in Value("type") /\ v["cutoff"] \in Value("cutoff")
          /\ v["resonance"] \in Value("resonance")
        BY <1>1, FilterAssumption DEF Value, Type
    <2>2. v = [p \in Parameter |-> v[p]]
        OBVIOUS
    <2> QED
        BY <2>1, <2>2 DEF IsValues, Parameter
<1>3. ~Four(v) /\ Coefficients(v) = Through
    BY <1>1 DEF Four, Coefficients
<1> DEFINE p == NewProcessor
<1>4. p = [type |-> "bypass", first |-> Biquad, second |-> Biquad, both |-> FALSE]
    BY DEF NewProcessor
<1>5. Biquad = [coeffs |-> Through, z1 |-> 0, z2 |-> 0]
    BY DEF Biquad
<1>6. /\ p.first.z1 = 0 /\ p.first.z2 = 0 /\ p.second.z1 = 0 /\ p.second.z2 = 0
    BY <1>4, <1>5
<1>7. ProcOf(v, 0, 0, 0, 0)
          = [type |-> "bypass", both |-> FALSE,
             first |-> [coeffs |-> Through, z1 |-> 0, z2 |-> 0],
             second |-> [coeffs |-> Through, z1 |-> 0, z2 |-> 0]]
    <2> DEFINE D == IF Four(v) THEN Coefficients(v) ELSE Through
    <2>1. Four(v) = FALSE
        BY <1>3 DEF Four
    <2>2. D = Through
        BY <1>3
    <2>3. ProcOf(v, 0, 0, 0, 0)
              = [type |-> v["type"], both |-> Four(v),
                 first |-> [coeffs |-> Coefficients(v), z1 |-> 0, z2 |-> 0],
                 second |-> [coeffs |-> D, z1 |-> 0, z2 |-> 0]]
        BY DEF ProcOf
    <2> HIDE DEF D
    <2> QED
        BY <1>1, <1>3, <2>1, <2>2, <2>3, Zenon
<1>8. p = ProcOf(v, 0, 0, 0, 0)
    BY <1>4, <1>5, <1>7
<1> HIDE DEF p
<1>9. ProcFits(p, v)
    BY <1>6, <1>8 DEF ProcFits, Remembers
<1> QED
    BY <1>2, <1>9 DEF p

LEMMA FilterInitially ==
    FilterInit => FilterInv
<1> SUFFICES ASSUME FilterInit PROVE FilterInv
    OBVIOUS
<1>1. bus_type \in {"mono", "stereo"} /\ cycles = 0
    BY DEF FilterInit
<1>2. IsValues(m_last) /\ ProcFits(NewProcessor, m_last)
    BY NewProcessorFits DEF FilterInit
<1>3. \A c \in Channel : procs[c] = NewProcessor
    BY DEF FilterInit
<1>4. FilterFollowsParameters
    BY <1>1 DEF FilterFollowsParameters
<1> QED
    BY <1>1, <1>2, <1>3, <1>4 DEF FilterInv

LEMMA FilteredIs ==
    \A c : Filtered(c) = Answers(InPeriod(bufs, before.values), inputs[c], before.procs[c])
<1> SUFFICES ASSUME NEW c
             PROVE  Filtered(c)
                        = Answers(InPeriod(bufs, before.values), inputs[c], before.procs[c])
    OBVIOUS
<1> DEFINE v == InPeriod(bufs, before.values)
           p == before.procs[c]
           coeffs == [k \in Frame |-> Coefficients(v[k])]
           once == Response(Frames(inputs[c]), coeffs, p.first)
           again == Ascending({k \in Frame : Four(v[k])})
           twice == Response([n \in DOMAIN again |-> once[again[n]]],
                             [n \in DOMAIN again |-> coeffs[again[n]]], p.second)
           coeffsIn == [k \in Frame |-> Coefficients(InForce(k))]
           onceIn == Response(Frames(inputs[c]), coeffsIn, p.first)
           againIn == Ascending({k \in Frame : FourPole(k)})
           twiceIn == Response([n \in DOMAIN againIn |-> onceIn[againIn[n]]],
                               [n \in DOMAIN againIn |-> coeffsIn[againIn[n]]], p.second)
<1>1. Answers(v, inputs[c], p)
          = [k \in Frame |->
                IF Four(v[k]) THEN twice[CHOOSE n \in DOMAIN again : again[n] = k] ELSE once[k]]
    BY DEF Answers
<1>2. Filtered(c)
          = [k \in Frame |->
                IF FourPole(k) THEN twiceIn[CHOOSE n \in DOMAIN againIn : againIn[n] = k]
                ELSE onceIn[k]]
    BY DEF Filtered
<1>3. \A k \in Frame : InForce(k) = v[k]
    BY DEF InForce, InPeriod
<1> HIDE DEF v
<1>4. \A k \in Frame : FourPole(k) <=> Four(v[k])
    BY <1>3 DEF FourPole, Four
<1>5. coeffsIn = coeffs
    BY <1>3
<1>6. {k \in Frame : FourPole(k)} = {k \in Frame : Four(v[k])}
    BY <1>4
<1>7. againIn = again
    BY <1>6
<1> HIDE DEF coeffs, coeffsIn, again, againIn
<1>8. onceIn = once
    BY <1>5
<1> HIDE DEF once, onceIn
<1>9. twiceIn = twice
    BY <1>5, <1>7, <1>8
<1> HIDE DEF twice, twiceIn
<1>10. Filtered(c) = Answers(v, inputs[c], p)
    BY <1>1, <1>2, <1>4, <1>7, <1>8, <1>9
<1> QED
    BY <1>10 DEF v

LEMMA FilteredIsNext ==
    \A c : Filtered(c)'
               = Answers(InPeriod(bufs', before'.values), inputs'[c], before'.procs[c])
<1>1. (\A c : Filtered(c) = Answers(InPeriod(bufs, before.values), inputs[c], before.procs[c]))'
    BY FilteredIs, PTL
<1> QED
    BY <1>1

LEMMA FilterUnchanged ==
    ASSUME FilterInv, UNCHANGED filterVars
    PROVE  FilterInv'
<1>1. /\ bus_type' = bus_type /\ m_last' = m_last /\ procs' = procs /\ bufs' = bufs
      /\ inputs' = inputs /\ results' = results /\ stream' = stream /\ before' = before
      /\ cycles' = cycles
    BY DEF filterVars
<1>2. Channel' = Channel /\ num_channels' = num_channels /\ ShownChannel' = ShownChannel
    BY <1>1 DEF Channel, num_channels, ShownChannel
<1>3. \A k : InForce(k)' = InForce(k)
    BY <1>1 DEF InForce
<1>5. \A c : Filtered(c)' = Filtered(c)
    BY <1>1, FilteredIs, FilteredIsNext
<1>6. \A n : Shown(n)' = Shown(n)
    BY <1>1, <1>2 DEF Shown
<1>7. FilterFollowsParameters'
    <2>1. FilterFollowsParameters
        BY DEF FilterInv
    <2> QED
        BY <1>1, <1>2, <1>3, <1>5, <1>6, <2>1 DEF FilterFollowsParameters
<1> QED
    BY <1>1, <1>2, <1>7 DEF FilterInv

LEMMA FilterStep ==
    ASSUME FilterInv, NEW b, IsEvents(b), NEW in \in [Channel -> Signals], Process(b, in)
    PROVE  FilterInv'
<1> DEFINE events == ConvertedFrom(b, m_last)
           run == [c \in Channel |-> ProcessSliced(procs[c], in[c], events)]
           v == InPeriod(b, m_last)
           final == ValuesAt(b, buffer_size, m_last)
<1>0. buffer_size \in Nat /\ Frame = 1 .. buffer_size /\ buffer_size \in Int
    BY FilterAssumption DEF Frame
<1>1. Converted(b) = events
    BY DEF Converted, ConvertedFrom
<1>2. /\ cycles' = cycles + 1 /\ bufs' = b /\ inputs' = in /\ m_last' = final
      /\ procs' = [c \in Channel |-> run[c].proc]
      /\ results' = [c \in Channel |-> run[c].result]
      /\ stream' = InOut(in, results')
      /\ before' = [values |-> m_last, procs |-> procs]
      /\ bus_type' = bus_type
    <2> HIDE DEF events
    <2> QED
        BY <1>1 DEF Process
<1>3. /\ bus_type \in {"mono", "stereo"} /\ cycles \in Nat /\ IsValues(m_last)
      /\ \A c \in Channel : ProcFits(procs[c], m_last)
    BY DEF FilterInv
<1>4. Channel' = Channel /\ num_channels' = num_channels /\ ShownChannel' = ShownChannel
    BY <1>2 DEF Channel, num_channels, ShownChannel
<1>5. before'.values = m_last /\ before'.procs = procs
    BY <1>2
<1>6. ASSUME NEW c \in Channel
      PROVE  /\ ProcFits(run[c].proc, final)
             /\ Follows(b, m_last, in[c], procs[c], run[c].result)
    <2>1. IsInput(in[c])
        <3>1. in[c] \in Signals
            OBVIOUS
        <3> QED
            BY <3>1, FilterAssumption DEF IsInput
    <2>2. run[c] = ProcessSliced(procs[c], in[c], events)
        OBVIOUS
    <2>3. ProcFits(procs[c], m_last)
        BY <1>3
    <2> HIDE DEF run
    <2>4. /\ ProcFits(ProcessSliced(procs[c], in[c], events).proc, final)
          /\ Follows(b, m_last, in[c], procs[c], ProcessSliced(procs[c], in[c], events).result)
        BY <1>3, <2>1, <2>3, ChannelFollows
    <2> HIDE DEF events, final
    <2> QED
        BY <2>2, <2>4
<1> HIDE DEF run, events
<1>7. IsValues(m_last')
    BY <1>0, <1>2, <1>3, ValuesAre
<1>8. \A c \in Channel' : ProcFits(procs'[c], m_last')
    <2> HIDE DEF final
    <2> QED
        BY <1>2, <1>4, <1>6
<1>9. \A k : InForce(k)' = ValuesAt(b, k - 1, m_last)
    BY <1>2, <1>5 DEF InForce
<1> HIDE DEF v
<1>12. ASSUME NEW c \in Channel PROVE Filtered(c)' = Answers(v, in[c], procs[c])
    <2>1. inputs'[c] = in[c] /\ before'.procs[c] = procs[c]
        BY <1>2, <1>5
    <2>2. Filtered(c)' = Answers(InPeriod(bufs', before'.values), inputs'[c], before'.procs[c])
        BY FilteredIsNext
    <2> QED
        BY <1>2, <1>5, <2>1, <2>2 DEF v
<1>13. ASSUME NEW c \in Channel PROVE results'[c] = run[c].result
    BY <1>2
<1>14. ASSUME NEW c \in Channel
       PROVE  /\ IF before'.values["type"] = "bypass" /\ Offsets(bufs') = {}
                 THEN results'[c] = inputs'[c]
                 ELSE Frames(results'[c]) = Filtered(c)'
              /\ \A k \in Frame :
                     k > 2 /\ (\A j \in k - 2 .. k : InForce(j)'["type"] = "bypass")
                         => At(results'[c], k) = At(inputs'[c], k)
    <2>1. Follows(b, m_last, in[c], procs[c], results'[c])
        BY <1>6, <1>13
    <2>2. IF m_last["type"] = "bypass" /\ Offsets(b) = {} THEN results'[c] = in[c]
          ELSE Frames(results'[c]) = Answers(v, in[c], procs[c])
        BY <2>1 DEF Follows, v
    <2>3. \A k \in Frame :
              k > 2 /\ (\A j \in k - 2 .. k : ValuesAt(b, j - 1, m_last)["type"] = "bypass")
                  => At(results'[c], k) = At(in[c], k)
        BY <2>1 DEF Follows
    <2>4. IF before'.values["type"] = "bypass" /\ Offsets(bufs') = {}
          THEN results'[c] = inputs'[c]
          ELSE Frames(results'[c]) = Filtered(c)'
        BY <1>2, <1>5, <1>12, <2>2
    <2>5. \A k \in Frame :
              k > 2 /\ (\A j \in k - 2 .. k : InForce(j)'["type"] = "bypass")
                  => At(results'[c], k) = At(inputs'[c], k)
        BY <1>2, <1>9, <2>3
    <2> QED
        BY <2>4, <2>5
<1>15. /\ num_channels \in {1, 2} /\ ShownChannel = num_channels
       /\ Channel = 1 .. num_channels
    BY <1>3 DEF num_channels, ShownChannel, Channel
<1>16. /\ Shown(1)' = Frames(inputs'[ShownChannel'])
       /\ Shown(2)' = Frames(results'[ShownChannel'])
    <2> DEFINE n == num_channels
    <2>1. \A i : Shown(i)' = stream'[(i - 1) * n + ShownChannel]
        BY <1>4 DEF Shown
    <2>2. stream' = [c \in 1 .. 2 * n |->
                        IF c \in Channel THEN Frames(in[c]) ELSE Frames(results'[c - n])]
        BY <1>2 DEF InOut
    <2> HIDE DEF n
    <2>3. n \in {1, 2} /\ ShownChannel = n /\ Channel = 1 .. n
        BY <1>15 DEF n
    <2>4. (1 - 1) * n + n = n /\ (2 - 1) * n + n = n + n /\ 2 * n = n + n
        BY <2>3
    <2>5. /\ n \in 1 .. 2 * n /\ n + n \in 1 .. 2 * n
          /\ n \in Channel /\ n + n \notin Channel /\ (n + n) - n = n
        BY <2>3
    <2>6. stream'[n] = Frames(in[n]) /\ stream'[n + n] = Frames(results'[n])
        BY <2>2, <2>5
    <2>7. Shown(1)' = stream'[n] /\ Shown(2)' = stream'[n + n]
        BY <2>1, <2>3, <2>4
    <2> QED
        BY <1>2, <1>4, <2>3, <2>6, <2>7
<1>17. FilterFollowsParameters'
    BY <1>4, <1>14, <1>16 DEF FilterFollowsParameters
<1>18. bus_type' \in {"mono", "stereo"} /\ cycles' \in Nat
    BY <1>2, <1>3
<1> QED
    BY <1>7, <1>8, <1>17, <1>18 DEF FilterInv

LEMMA FilterNextKeeps ==
    FilterInv /\ FilterNext => FilterInv'
<1> SUFFICES ASSUME FilterInv, FilterNext PROVE FilterInv'
    OBVIOUS
<1>1. PICK in \in [Channel -> Signals] :
          \/ cycles = 0 /\ \E v \in Loaded : Process([p \in Parameter |-> [o \in {0} |-> v[p]]], in)
          \/ cycles > 0 /\ \E b \in Buffers : Process(b, in)
    BY DEF FilterNext
<1>2. ASSUME NEW v \in Loaded, Process([p \in Parameter |-> [o \in {0} |-> v[p]]], in)
      PROVE  FilterInv'
    <2> DEFINE b == [p \in Parameter |-> [o \in {0} |-> v[p]]]
    <2>1. IsEvents(b)
        <3>1. ASSUME NEW p \in Parameter
              PROVE  /\ DOMAIN b[p] \subseteq 0 .. buffer_size - 1
                     /\ \A o \in DOMAIN b[p] : b[p][o] \in Value(p)
            <4>1. b[p] = [o \in {0} |-> v[p]]
                OBVIOUS
            <4>2. v[p] \in Value(p) /\ 0 \in 0 .. buffer_size - 1
                BY FilterAssumption
            <4> HIDE DEF b
            <4>3. DOMAIN b[p] = {0} /\ \A o \in DOMAIN b[p] : b[p][o] = v[p]
                BY <4>1
            <4> QED
                BY <4>2, <4>3
        <3> QED
            BY <3>1 DEF IsEvents
    <2>2. Process(b, in)
        BY <1>2
    <2> HIDE DEF b
    <2> QED
        BY <2>1, <2>2, FilterStep
<1>3. ASSUME NEW b \in Buffers, Process(b, in) PROVE FilterInv'
    <2>1. IsEvents(b)
        BY FilterAssumption DEF IsEvents
    <2> QED
        BY <1>3, <2>1, FilterStep
<1> QED
    BY <1>1, <1>2, <1>3

\* What comes out of the filter is what its parameters say at each frame, for any
\* coefficients, signals and events (filter_processor, make_filter_module).
THEOREM SpecFilterFollowsParameters ==
    FilterSpec => []FilterFollowsParameters
<1>1. FilterInit => FilterInv
    BY FilterInitially
<1>2. FilterInv /\ [FilterNext]_filterVars => FilterInv'
    BY FilterNextKeeps, FilterUnchanged
<1>3. FilterInv => FilterFollowsParameters
    BY DEF FilterInv
<1> QED
    BY <1>1, <1>2, <1>3, PTL DEF FilterSpec
=============================================================================
