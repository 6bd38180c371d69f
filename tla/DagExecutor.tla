---------------------------- MODULE DagExecutor ----------------------------
(***************************************************************************)
(* dag_executor_mt: one call of operator() per audio period runs every     *)
(* node of a task graph on the calling thread (thread 0) and on the worker *)
(* threads 1 .. NumWorkers, which share a lock-free stack of ready nodes   *)
(* and a counter of the nodes still to process.                            *)
(*                                                                         *)
(* The handoff of a worker thread is the one module Worker implements: a   *)
(* worker is "parked", wakeup makes it run dag_worker, and it parks again  *)
(* when that returns.  operator() does not wait for the workers to park.   *)
(***************************************************************************)
EXTENDS Integers, Sequences, FiniteSets

CONSTANTS
    Node,               \* the tasks
    Children,           \* [Node -> SUBSET Node]
    NumWorkers,         \* number of worker threads
    JobQueueCapacity,   \* job_queue_capacity, 1024 in the code
    CounterSize,        \* 2^w, the number of values of the size_t counters
    MaxCycles,          \* bound on the calls of operator()
    NoNode              \* the null node pointer

\* add_child asserts that a child is no ancestor of its parent.
ASSUME GraphAssumption ==
    /\ IsFiniteSet(Node) /\ NoNode \notin Node
    /\ Children \in [Node -> SUBSET Node]
    /\ \E rank \in [Node -> 1 .. Cardinality(Node)] :
          \A p \in Node : \A c \in Children[p] : rank[p] < rank[c]

ASSUME NumbersAssumption ==
    /\ NumWorkers \in Nat /\ MaxCycles \in Nat /\ JobQueueCapacity \in Nat
    /\ CounterSize \in Nat /\ Cardinality(Node) < CounterSize

VARIABLES
    parents_to_process,     \* [Node -> 0 .. CounterSize - 1]
    m_nodes_to_process,     \* the counter of the nodes still to process
    m_run_queue,            \* the stack of ready nodes, top first
    caller,                 \* where operator() is
    initial,                \* initial tasks still to be pushed
    pushing,                \* <<node, stack seen>> of unsynchronized_push
    waking,                 \* next worker to wake up
    pc, node, next, todo,   \* per thread: place, node, next node, children
    cycle,                  \* number of operator() calls
    finished                \* nodes whose task ran in this cycle

threadVars == <<pc, node, next, todo>>
callerVars == <<caller, initial, pushing, waking, cycle>>
vars == <<parents_to_process, m_nodes_to_process, m_run_queue, finished,
          threadVars, callerVars>>

Main == 0
Worker == 1 .. NumWorkers
Thread == {Main} \union Worker

Parents(n) == {p \in Node : n \in Children[p]}

NumParents(n) == Cardinality(Parents(n))
InitialTasks == {n \in Node : NumParents(n) = 0}

\* fixed_sized stack: a push on a full stack fails, and nobody looks.
Pushed(n, stack) ==
    IF Len(stack) < JobQueueCapacity THEN <<n>> \o stack ELSE stack

Decremented(x) == (x - 1) % CounterSize

Init ==
    /\ parents_to_process = [n \in Node |-> 0]
    /\ m_nodes_to_process = 0
    /\ m_run_queue = <<>>
    /\ caller = "idle"
    /\ initial = {}
    /\ pushing = <<>>
    /\ waking = 1
    /\ pc = [t \in Thread |-> "parked"]
    /\ node = [t \in Thread |-> NoNode]
    /\ next = [t \in Thread |-> NoNode]
    /\ todo = [t \in Thread |-> {}]
    /\ cycle = 0
    /\ finished = Node

-----------------------------------------------------------------------------
\* operator() on the calling thread.

\* A cycle that forgets to reset the parent counters.
BeginCycleNoReset ==
    /\ caller = "idle"
    /\ cycle < MaxCycles
    /\ cycle' = cycle + 1
    /\ finished' = {}
    /\ initial' = InitialTasks
    /\ caller' = "push"
    /\ UNCHANGED <<parents_to_process, m_nodes_to_process, m_run_queue,
                   pushing, waking, threadVars>>

BeginCycle ==
    /\ caller = "idle"
    /\ cycle < MaxCycles
    /\ cycle' = cycle + 1
    /\ finished' = {}
    /\ parents_to_process' = [n \in Node |-> NumParents(n)]
    /\ initial' = InitialTasks
    /\ caller' = "push"
    /\ UNCHANGED <<m_nodes_to_process, m_run_queue, pushing, waking,
                   threadVars>>

\* unsynchronized_push reads the top of the stack and then overwrites it.
PushInitialRead ==
    /\ caller = "push"
    /\ pushing = <<>>
    /\ \E n \in initial :
        /\ pushing' = <<n, m_run_queue>>
        /\ initial' = initial \ {n}
    /\ UNCHANGED <<parents_to_process, m_nodes_to_process, m_run_queue,
                   caller, waking, cycle, finished, threadVars>>

PushInitialWrite ==
    /\ caller = "push"
    /\ pushing # <<>>
    /\ m_run_queue' = Pushed(pushing[1], pushing[2])
    /\ pushing' = <<>>
    /\ UNCHANGED <<parents_to_process, m_nodes_to_process, caller, initial,
                   waking, cycle, finished, threadVars>>

StoreNodesToProcess ==
    /\ caller = "push"
    /\ initial = {}
    /\ pushing = <<>>
    /\ m_nodes_to_process' = Cardinality(Node)
    /\ waking' = 1
    /\ caller' = "wakeup"
    /\ UNCHANGED <<parents_to_process, m_run_queue, initial, pushing, cycle,
                   finished, threadVars>>

\* worker::wakeup waits until the worker is parked.
WakeupWorker ==
    /\ caller = "wakeup"
    /\ waking \in Worker
    /\ pc[waking] = "parked"
    /\ pc' = [pc EXCEPT ![waking] = "load"]
    /\ waking' = waking + 1
    /\ UNCHANGED <<parents_to_process, m_nodes_to_process, m_run_queue,
                   caller, initial, pushing, cycle, finished, node, next,
                   todo>>

RunMainWorker ==
    /\ caller = "wakeup"
    /\ waking \notin Worker
    /\ pc' = [pc EXCEPT ![Main] = "load"]
    /\ caller' = "work"
    /\ UNCHANGED <<parents_to_process, m_nodes_to_process, m_run_queue,
                   initial, pushing, waking, cycle, finished, node, next,
                   todo>>

EndCycle ==
    /\ caller = "work"
    /\ pc[Main] = "parked"
    /\ caller' = "idle"
    /\ UNCHANGED <<parents_to_process, m_nodes_to_process, m_run_queue,
                   initial, pushing, waking, cycle, finished, threadVars>>

-----------------------------------------------------------------------------
\* dag_worker::operator() and process_node on thread t.

LoadNodesToProcess(t) ==
    /\ pc[t] = "load"
    /\ pc' = [pc EXCEPT
         ![t] = IF m_nodes_to_process = 0 THEN "parked" ELSE "pop"]
    /\ UNCHANGED <<parents_to_process, m_nodes_to_process, m_run_queue,
                   finished, node, next, todo, callerVars>>

Pop(t) ==
    /\ pc[t] = "pop"
    /\ IF m_run_queue = <<>>
       THEN /\ pc' = [pc EXCEPT ![t] = "load"]
            /\ UNCHANGED <<m_run_queue, node>>
       ELSE /\ pc' = [pc EXCEPT ![t] = "task"]
            /\ node' = [node EXCEPT ![t] = Head(m_run_queue)]
            /\ m_run_queue' = Tail(m_run_queue)
    /\ UNCHANGED <<parents_to_process, m_nodes_to_process, finished, next,
                   todo, callerVars>>

\* The task of the node ran to its end.
Task(t) ==
    /\ pc[t] = "task"
    /\ finished' = finished \union {node[t]}
    /\ todo' = [todo EXCEPT ![t] = Children[node[t]]]
    /\ next' = [next EXCEPT ![t] = NoNode]
    /\ pc' = [pc EXCEPT ![t] = "children"]
    /\ UNCHANGED <<parents_to_process, m_nodes_to_process, m_run_queue, node,
                   callerVars>>

\* A child that is taken to be ready as soon as one of its parents ran.
NotifyChildAnyParent(t) ==
    /\ pc[t] = "children"
    /\ \E c \in todo[t] :
        /\ todo' = [todo EXCEPT ![t] = @ \ {c}]
        /\ parents_to_process' =
             [parents_to_process EXCEPT ![c] = Decremented(@)]
        /\ IF next[t] = NoNode
           THEN /\ next' = [next EXCEPT ![t] = c]
                /\ UNCHANGED m_run_queue
           ELSE /\ m_run_queue' = Pushed(c, m_run_queue)
                /\ UNCHANGED next
    /\ UNCHANGED <<m_nodes_to_process, finished, pc, node, callerVars>>

\* fetch_sub of one child's counter: the thread that takes it from 1 to 0
\* keeps the child as its next node, or pushes it when it has one already.
NotifyChild(t) ==
    /\ pc[t] = "children"
    /\ \E c \in todo[t] :
        /\ todo' = [todo EXCEPT ![t] = @ \ {c}]
        /\ parents_to_process' =
             [parents_to_process EXCEPT ![c] = Decremented(@)]
        /\ IF parents_to_process[c] # 1
           THEN UNCHANGED <<next, m_run_queue>>
           ELSE IF next[t] = NoNode
                THEN /\ next' = [next EXCEPT ![t] = c]
                     /\ UNCHANGED m_run_queue
                ELSE /\ m_run_queue' = Pushed(c, m_run_queue)
                     /\ UNCHANGED next
    /\ UNCHANGED <<m_nodes_to_process, finished, pc, node, callerVars>>

CountNode(t) ==
    /\ pc[t] = "children"
    /\ todo[t] = {}
    /\ m_nodes_to_process' = Decremented(m_nodes_to_process)
    /\ node' = [node EXCEPT ![t] = next[t]]
    /\ pc' = [pc EXCEPT ![t] = IF next[t] = NoNode THEN "load" ELSE "task"]
    /\ UNCHANGED <<parents_to_process, m_run_queue, finished, next, todo,
                   callerVars>>

-----------------------------------------------------------------------------
Caller ==
    \/ BeginCycle \/ PushInitialRead \/ PushInitialWrite
    \/ StoreNodesToProcess \/ WakeupWorker \/ RunMainWorker \/ EndCycle

ThreadStep(t) ==
    \/ LoadNodesToProcess(t) \/ Pop(t) \/ Task(t) \/ NotifyChild(t)
    \/ CountNode(t)

Next == Caller \/ \E t \in Thread : ThreadStep(t)

Fairness ==
    /\ WF_vars(caller # "idle" /\ Caller)
    /\ \A t \in Thread : WF_vars(ThreadStep(t))

Spec == Init /\ [][Next]_vars
FairSpec == Spec /\ Fairness

\* The assumption under which the executor is correct, and which the code does
\* not enforce: within one period every worker sees the cycle's end and parks.
AllParked == \A w \in Worker : pc[w] = "parked"
TimelyNext == Next /\ (BeginCycle => AllParked)
TimelySpec == Init /\ [][TimelyNext]_vars
FairTimelySpec == TimelySpec /\ Fairness

-----------------------------------------------------------------------------
\* BOOST_VERIFY in process_node: the counter of the nodes still to process is
\* positive whenever a thread counts a node down.
CounterNeverUnderflows ==
    \A t \in Thread : pc[t] = "children" => m_nodes_to_process > 0

\* Each cycle runs each node once, after all its parents.
Schedule == INSTANCE DagSchedule
ImplementsDagSchedule == Schedule!Spec

\* Every call of operator() returns.
CycleEnds == (caller = "push") ~> (caller = "idle")
=============================================================================
