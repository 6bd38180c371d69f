------------------------------- MODULE Worker -------------------------------
(***************************************************************************)
(* piejam::thread::worker: a thread that runs one task per wakeup.  Two    *)
(* binary semaphores hand the right to touch m_task back and forth between *)
(* the owner (wakeup, destructor) and the thread.  Tasks are numbered by   *)
(* the wakeups; m_task is the number of the task last assigned.            *)
(***************************************************************************)
EXTENDS Naturals

CONSTANT MaxTasks       \* bound on the number of wakeups

ASSUME MaxTasksAssumption == MaxTasks \in Nat

VARIABLES
    m_sem_work, m_sem_finished,     \* counts of the binary semaphores
    m_task,                         \* number of the assigned task
    stop_requested,                 \* of the thread's stop token
    owner,                          \* where the owner is
    thread,                         \* where the thread is
    executed                        \* number of the task last run to its end

workerVars == <<m_sem_work, m_sem_finished, m_task, stop_requested, owner, thread,
                executed>>

WorkerInit ==
    /\ m_sem_work = 0
    /\ m_sem_finished = 1
    /\ m_task = 0
    /\ stop_requested = FALSE
    /\ owner = "idle"
    /\ thread = "acquire"
    /\ executed = 0

-----------------------------------------------------------------------------
\* The owner: wakeup acquires sem_finished, assigns m_task, releases sem_work.

\* A wakeup that does not wait for the previous task.
WakeupImpatient ==
    /\ owner = "idle"
    /\ m_task < MaxTasks
    /\ m_sem_finished' = m_sem_finished - 1
    /\ owner' = "assign"
    /\ UNCHANGED <<m_sem_work, m_task, stop_requested, thread, executed>>

WakeupAcquire ==
    /\ owner = "idle"
    /\ m_task < MaxTasks
    /\ m_sem_finished > 0
    /\ m_sem_finished' = m_sem_finished - 1
    /\ owner' = "assign"
    /\ UNCHANGED <<m_sem_work, m_task, stop_requested, thread, executed>>

WakeupAssign ==
    /\ owner = "assign"
    /\ m_task' = m_task + 1
    /\ owner' = "release"
    /\ UNCHANGED <<m_sem_work, m_sem_finished, stop_requested, thread,
                   executed>>

WakeupRelease ==
    /\ owner = "release"
    /\ m_sem_work' = m_sem_work + 1
    /\ owner' = "idle"
    /\ UNCHANGED <<m_sem_finished, m_task, stop_requested, thread, executed>>

\* The destructor acquires sem_finished, requests the stop, releases sem_work;
\* then the destructor of the jthread joins.

\* A destructor that does not wait for the running task.
DestroyImpatient ==
    /\ owner = "idle"
    /\ owner' = "request_stop"
    /\ UNCHANGED <<m_sem_work, m_sem_finished, m_task, stop_requested, thread,
                   executed>>

DestroyAcquire ==
    /\ owner = "idle"
    /\ m_sem_finished > 0
    /\ m_sem_finished' = m_sem_finished - 1
    /\ owner' = "request_stop"
    /\ UNCHANGED <<m_sem_work, m_task, stop_requested, thread, executed>>

DestroyRequestStop ==
    /\ owner = "request_stop"
    /\ stop_requested' = TRUE
    /\ owner' = "release_stop"
    /\ UNCHANGED <<m_sem_work, m_sem_finished, m_task, thread, executed>>

\* A destructor that forgets to wake the thread up.
DestroyNoRelease ==
    /\ owner = "release_stop"
    /\ owner' = "join"
    /\ UNCHANGED <<m_sem_work, m_sem_finished, m_task, stop_requested, thread,
                   executed>>

DestroyRelease ==
    /\ owner = "release_stop"
    /\ m_sem_work' = m_sem_work + 1
    /\ owner' = "join"
    /\ UNCHANGED <<m_sem_finished, m_task, stop_requested, thread, executed>>

DestroyJoin ==
    /\ owner = "join"
    /\ thread = "exited"
    /\ owner' = "destroyed"
    /\ UNCHANGED <<m_sem_work, m_sem_finished, m_task, stop_requested, thread,
                   executed>>

-----------------------------------------------------------------------------
\* The thread.

ThreadAcquire ==
    /\ thread = "acquire"
    /\ m_sem_work > 0
    /\ m_sem_work' = m_sem_work - 1
    /\ thread' = "check"
    /\ UNCHANGED <<m_sem_finished, m_task, stop_requested, owner, executed>>

ThreadCheck ==
    /\ thread = "check"
    /\ thread' = IF stop_requested THEN "exited" ELSE "task"
    /\ UNCHANGED <<m_sem_work, m_sem_finished, m_task, stop_requested, owner,
                   executed>>

ThreadTask ==
    /\ thread = "task"
    /\ executed' = m_task
    /\ thread' = "release"
    /\ UNCHANGED <<m_sem_work, m_sem_finished, m_task, stop_requested, owner>>

ThreadRelease ==
    /\ thread = "release"
    /\ m_sem_finished' = m_sem_finished + 1
    /\ thread' = "acquire"
    /\ UNCHANGED <<m_sem_work, m_task, stop_requested, owner, executed>>

-----------------------------------------------------------------------------
Wakeup == WakeupAcquire \/ WakeupAssign \/ WakeupRelease
Destroy == DestroyAcquire \/ DestroyRequestStop \/ DestroyRelease \/ DestroyJoin
WorkerThread == ThreadAcquire \/ ThreadCheck \/ ThreadTask \/ ThreadRelease
WorkerNext == Wakeup \/ Destroy \/ WorkerThread

WorkerSpec == WorkerInit /\ [][WorkerNext]_workerVars

-----------------------------------------------------------------------------
Owning == owner \in {"assign", "release", "request_stop", "release_stop"}
Working == thread \in {"check", "task", "release"}

\* The type of each variable; that the semaphores are binary is a property of its own.
WorkerTypeOK ==
    /\ m_sem_work \in Nat
    /\ m_sem_finished \in Nat
    /\ m_task \in 0 .. MaxTasks
    /\ stop_requested \in BOOLEAN
    /\ owner \in {"idle", "assign", "release", "request_stop", "release_stop",
                  "join", "destroyed"}
    /\ thread \in {"acquire", "check", "task", "release", "exited"}
    /\ executed \in 0 .. MaxTasks

\* A binary semaphore is only released when its count is 0: release on a count
\* of 1 is outside its contract.
SemaphoresStayBinary ==
    /\ owner \in {"release", "release_stop"} => m_sem_work = 0
    /\ thread = "release" => m_sem_finished = 0

\* m_task is not assigned while the thread may call it.
TaskIsNotRaced == ~(Owning /\ Working)

\* A task that starts is the successor of the last one that ran: no wakeup is
\* lost, overwritten or run twice.
TasksRunInOrder == thread = "task" => m_task = executed + 1

\* The thread is only told to stop, and only exits, when every task ran.
NoTaskLostAtStop ==
    stop_requested \/ thread = "exited" => executed = m_task

\* The worker implements the handoff: busy from the acquire in wakeup to the
\* thread's release.
Abstract == INSTANCE Handoff
    WITH phase <- IF stop_requested \/ owner = "request_stop" THEN "stopped"
                  ELSE IF m_sem_finished = 1 THEN "parked" ELSE "busy",
         accepted <- IF owner = "assign" THEN m_task + 1 ELSE m_task,
         completed <- IF thread = "release" THEN executed - 1 ELSE executed
ImplementsHandoff == Abstract!Spec

\* Every task that was assigned runs, and the destructor returns: it never
\* waits for a thread that waits for it.
TasksAndDestroyEnd ==
    /\ \A k \in 1 .. MaxTasks : (m_task = k) ~> (executed = k)
    /\ (owner = "request_stop") ~> (owner = "destroyed")
=============================================================================
