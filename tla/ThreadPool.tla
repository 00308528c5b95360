------------------------------ MODULE ThreadPool ------------------------------
(***************************************************************************)
(* The VM's thread pool (runtime/vm/thread_pool.{h,cc}) and the idle hook  *)
(* that MutatorThreadPool puts into it (runtime/vm/isolate.cc).            *)
(*                                                                         *)
(* One action is one critical section of pool_monitor_, or one stretch of  *)
(* code that a thread runs without it.  WaitMicros is a state of its own,  *)
(* so notifications, timeouts and spurious wakeups interleave with new     *)
(* tasks, with dying workers and with the thread that calls Shutdown.      *)
(***************************************************************************)
EXTENDS Integers, Sequences, FiniteSets

CONSTANTS
  Worker,       \* identities of Worker objects; the bound on live workers
  Task,         \* the tasks that callers may hand to Run, each at most once
  MaxPoolSize,  \* the constructor's max_pool_size, 0 for no limit
  IdleNotifier, \* whether the pool is a MutatorThreadPool
  NoTask        \* the value of task[w] for a worker that runs nothing

ASSUME ThreadPoolAssumption ==
  /\ IsFiniteSet(Worker)
  /\ MaxPoolSize \in Nat
  /\ IdleNotifier \in BOOLEAN
  /\ NoTask \notin Task

VARIABLES
  pc,               \* where the thread of a worker is
  task,             \* the task a worker runs
  tasks,            \* tasks_, the queue of tasks nobody has taken
  pending_tasks,    \* pending_tasks_
  lists,            \* the three worker lists and their counters
  blocked,          \* the workers whose is_blocked_ is set
  max_pool_size,    \* max_pool_size_
  shutting_down,    \* shutting_down_
  all_workers_dead, \* all_workers_dead_
  to_join,          \* dead_workers_to_join, the local list in WorkerLoop
  shutdown,         \* where the caller of Shutdown is
  shutdown_join,    \* dead_workers_to_join, the local list in Shutdown
  accepted,         \* history: tasks for which Run returned true
  refused,          \* history: tasks for which Run returned false
  finished          \* history: tasks whose Run() method has returned

queueVars == <<tasks, pending_tasks>>
limitVars == <<blocked, max_pool_size>>
deathVars == <<all_workers_dead, shutdown, to_join>>
historyVars == <<accepted, refused, finished>>
vars == <<pc, task, queueVars, lists, limitVars, shutting_down, deathVars,
          shutdown_join, historyVars>>

(***************************************************************************)
(* pc[w]: "none" no such Worker object; "created" in idle_workers_, its    *)
(* thread not started; "loop" about to lock the monitor at the top of      *)
(* WorkerLoop; "task" in task->Run(); "done" back from it, about to lock;  *)
(* "sleep" in the WaitMicros of WorkerLoop, "woken" and "expired" notified *)
(* or timed out there and about to re-lock; "idleWait", "idleWoken" and    *)
(* "idleExpired" the same in OnEnterIdleLocked; "notifyIdle" in NotifyIdle *)
(* without the lock; "joining" in JoinDeadWorkersLocked; "exited" past it. *)
(***************************************************************************)
Sleeping == {"sleep", "idleWait"}
IdleAwake == {"created", "loop", "woken", "expired", "idleWoken",
              "idleExpired", "notifyIdle"}
Busy == {"task", "done"}
Gone == {"joining", "exited"}
Location == Sleeping \cup IdleAwake \cup Busy \cup Gone \cup {"none"}

ShutdownLocation ==
  {"no", "exitCheck", "exitWait", "collect", "join", "returned"}

TypeOK ==
  /\ pc \in [Worker -> Location]
  /\ task \in [Worker -> Task \cup {NoTask}]
  /\ tasks \in Seq(Task)
  /\ pending_tasks \in Nat
  /\ lists \in [idle : SUBSET Worker, running : SUBSET Worker,
                dead : SUBSET Worker,
                count_idle : Nat, count_running : Nat, count_dead : Nat]
  /\ blocked \in SUBSET Worker
  /\ max_pool_size \in Nat
  /\ shutting_down \in BOOLEAN
  /\ all_workers_dead \in BOOLEAN
  /\ to_join \in [Worker -> SUBSET Worker]
  /\ shutdown \in ShutdownLocation
  /\ shutdown_join \in SUBSET Worker
  /\ accepted \in SUBSET Task
  /\ refused \in SUBSET Task
  /\ finished \in SUBSET Task

Init ==
  /\ pc = [w \in Worker |-> "none"]
  /\ task = [w \in Worker |-> NoTask]
  /\ tasks = <<>>
  /\ pending_tasks = 0
  /\ lists = [idle |-> {}, running |-> {}, dead |-> {},
              count_idle |-> 0, count_running |-> 0, count_dead |-> 0]
  /\ blocked = {}
  /\ max_pool_size = MaxPoolSize
  /\ shutting_down = FALSE
  /\ all_workers_dead = FALSE
  /\ to_join = [w \in Worker |-> {}]
  /\ shutdown = "no"
  /\ shutdown_join = {}
  /\ accepted = {}
  /\ refused = {}
  /\ finished = {}

-----------------------------------------------------------------------------
(* pool_monitor_: threads in WaitMicros, Notify and NotifyAll.             *)

Waiters(p) == {w \in Worker : p[w] \in Sleeping}

Wake(p, S) ==
  [w \in Worker |-> IF w \notin S THEN p[w]
                    ELSE IF p[w] = "sleep" THEN "woken" ELSE "idleWoken"]

\* Notify wakes some thread that waits, if there is one.
Notify(p) ==
  \/ /\ Waiters(p) = {}
     /\ pc' = p
  \/ \E w \in Waiters(p) : pc' = Wake(p, {w})

NotifyAll(p) == pc' = Wake(p, Waiters(p))

-----------------------------------------------------------------------------
(* Moves between the worker lists.                                         *)

NewIdle(l, w) ==
  [l EXCEPT !.idle = @ \cup {w}, !.count_idle = @ + 1]

IdleToRunning(l, w) ==
  [l EXCEPT !.idle = @ \ {w}, !.running = @ \cup {w},
            !.count_idle = @ - 1, !.count_running = @ + 1]

RunningToIdle(l, w) ==
  [l EXCEPT !.running = @ \ {w}, !.idle = @ \cup {w},
            !.count_running = @ - 1, !.count_idle = @ + 1]

\* Wrong variant: the obtained workers stay in dead_workers_.
ObtainDead_Keep(l) == [l EXCEPT !.count_dead = 0]

ObtainDead(l) == [l EXCEPT !.dead = {}, !.count_dead = 0]

IdleToDead(l, w) ==
  [l EXCEPT !.idle = @ \ {w}, !.dead = @ \cup {w},
            !.count_idle = @ - 1, !.count_dead = @ + 1]

NoLiveWorker(l) == l.running = {} /\ l.idle = {}

\* A Worker object put into idle_workers_; its thread starts later, outside
\* of the lock.
CreateWorker(w) ==
  /\ pc[w] = "none"
  /\ pc' = [pc EXCEPT ![w] = "created"]
  /\ lists' = NewIdle(lists, w)

-----------------------------------------------------------------------------
(* Callers of the pool.                                                    *)

\* Wrong variant: the limit is tested before the idle workers are counted.
ScheduleTaskLocked_LimitFirst(pending) ==
  \/ /\ max_pool_size > 0
     /\ lists.count_idle + lists.count_running >= max_pool_size
     /\ UNCHANGED <<pc, lists>>
  \/ /\ \/ max_pool_size = 0
        \/ lists.count_idle + lists.count_running < max_pool_size
     /\ IF lists.count_idle >= pending
        THEN Notify(pc) /\ UNCHANGED lists
        ELSE \E w \in Worker : CreateWorker(w)

\* ScheduleTaskLocked, with the new value of pending_tasks_.
ScheduleTaskLocked(pending) ==
  \/ /\ lists.count_idle >= pending
     /\ Notify(pc)
     /\ UNCHANGED lists
  \/ /\ lists.count_idle < pending
     /\ max_pool_size > 0
     /\ lists.count_idle + lists.count_running >= max_pool_size
     /\ IF lists.idle # {} THEN Notify(pc) ELSE UNCHANGED pc
     /\ UNCHANGED lists
  \/ /\ lists.count_idle < pending
     /\ ~ (/\ max_pool_size > 0
           /\ lists.count_idle + lists.count_running >= max_pool_size)
     /\ \E w \in Worker : CreateWorker(w)

\* RunImpl while the pool accepts tasks.
Run(t) ==
  /\ t \notin accepted \cup refused
  /\ ~ shutting_down
  /\ tasks' = Append(tasks, t)
  /\ pending_tasks' = pending_tasks + 1
  /\ ScheduleTaskLocked(pending_tasks + 1)
  /\ accepted' = accepted \cup {t}
  /\ UNCHANGED <<task, limitVars, shutting_down, deathVars, shutdown_join,
                 refused, finished>>

\* RunImpl after Shutdown was called.
RunRefused(t) ==
  /\ t \notin accepted \cup refused
  /\ shutting_down
  /\ refused' = refused \cup {t}
  /\ UNCHANGED <<pc, task, queueVars, lists, limitVars, shutting_down,
                 deathVars, shutdown_join, accepted, finished>>

\* The creator of a worker starts its thread after leaving the monitor.
StartThread(w) ==
  /\ pc[w] = "created"
  /\ pc' = [pc EXCEPT ![w] = "loop"]
  /\ UNCHANGED <<task, queueVars, lists, limitVars, shutting_down,
                 deathVars, shutdown_join, historyVars>>

\* Wrong variant: nobody replaces the blocked worker.
MarkCurrentWorkerAsBlocked_NoSpawn(w) ==
  /\ pc[w] = "task"
  /\ w \notin blocked
  /\ blocked' = blocked \cup {w}
  /\ max_pool_size' = IF max_pool_size > 0 THEN max_pool_size + 1
                                           ELSE max_pool_size
  /\ UNCHANGED <<pc, lists, task, queueVars, shutting_down, deathVars,
                 shutdown_join, historyVars>>

\* Called by the task that worker w runs, before it blocks in native code.
MarkCurrentWorkerAsBlocked(w) ==
  /\ pc[w] = "task"
  /\ w \notin blocked
  /\ blocked' = blocked \cup {w}
  /\ max_pool_size' = IF max_pool_size > 0 THEN max_pool_size + 1
                                           ELSE max_pool_size
  /\ IF max_pool_size > 0 /\ lists.idle = {} /\ pending_tasks > 0
     THEN \E v \in Worker : CreateWorker(v)
     ELSE UNCHANGED <<pc, lists>>
  /\ UNCHANGED <<task, queueVars, shutting_down, deathVars, shutdown_join,
                 historyVars>>

MarkCurrentWorkerAsUnBlocked(w) ==
  /\ pc[w] = "task"
  /\ w \in blocked
  /\ blocked' = blocked \ {w}
  /\ max_pool_size' = IF max_pool_size > 0 THEN max_pool_size - 1
                                           ELSE max_pool_size
  /\ UNCHANGED <<pc, task, queueVars, lists, shutting_down, deathVars,
                 shutdown_join, historyVars>>

-----------------------------------------------------------------------------
(* The worker threads.                                                     *)

\* tasks_.RemoveFirst(): the worker leaves the monitor to run the task.
RemoveFirst(w) ==
  /\ tasks # <<>>
  /\ tasks' = Tail(tasks)
  /\ pending_tasks' = pending_tasks - 1
  /\ task' = [task EXCEPT ![w] = Head(tasks)]
  /\ pc' = [pc EXCEPT ![w] = "task"]

\* The worker leaves WorkerLoop: it takes the workers that died before it,
\* to join them, and becomes dead itself.  The last one to die after
\* Shutdown began sets all_workers_dead_ and notifies exit_monitor_.
Die(w, l) ==
  /\ pc' = [pc EXCEPT ![w] = "joining"]
  /\ to_join' = [to_join EXCEPT ![w] = @ \cup l.dead]
  /\ lists' = IdleToDead(ObtainDead(l), w)
  /\ IF shutting_down /\ NoLiveWorker(IdleToDead(ObtainDead(l), w))
     THEN /\ all_workers_dead' = TRUE
          /\ shutdown' = IF shutdown = "exitWait" THEN "exitCheck"
                                                  ELSE shutdown
     ELSE UNCHANGED <<all_workers_dead, shutdown>>

\* The rest of an iteration of WorkerLoop once the queue was seen empty and
\* OnEnterIdleLocked has returned; l is the value of the lists so far.
DieOrSleep(w, l) ==
  \/ /\ shutting_down
     /\ Die(w, l)
  \/ /\ ~ shutting_down
     /\ pc' = [pc EXCEPT ![w] = "sleep"]
     /\ lists' = l
     /\ UNCHANGED <<deathVars>>

\* MutatorThreadPool::OnEnterIdleLocked up to where it leaves the monitor:
\* for NotifyIdle, or to wait for the idle time to expire.  The branches of
\* ShouldNotifyIdle depend on the clock and are both possible.
OnEnterIdleLocked(w, l) ==
  /\ IdleNotifier
  /\ l.running = {}
  /\ \E where \in {"notifyIdle", "idleWait"} :
       pc' = [pc EXCEPT ![w] = where]
  /\ lists' = l
  /\ UNCHANGED <<deathVars>>

\* What a worker does that holds the monitor, sees no task and is idle.  The
\* hook of the plain pool, and the early returns of MutatorThreadPool's,
\* change nothing.
EnterIdle(w, l) == OnEnterIdleLocked(w, l) \/ DieOrSleep(w, l)

\* The top of WorkerLoop's loop.
LoopTakesTask(w) ==
  /\ pc[w] = "loop"
  /\ RemoveFirst(w)
  /\ lists' = IdleToRunning(lists, w)
  /\ UNCHANGED <<limitVars, shutting_down, deathVars, shutdown_join,
                 historyVars>>

LoopFindsNoTask(w) ==
  /\ pc[w] = "loop"
  /\ tasks = <<>>
  /\ EnterIdle(w, lists)
  /\ UNCHANGED <<task, queueVars, limitVars, shutting_down, shutdown_join,
                 historyVars>>

\* task->Run() returns.  A task unblocks its worker before it returns, as
\* thread_pool.h asks of the callers of MarkCurrentWorkerAsBlocked.
TaskReturns(w) ==
  /\ pc[w] = "task"
  /\ w \notin blocked
  /\ pc' = [pc EXCEPT ![w] = "done"]
  /\ finished' = finished \cup {task[w]}
  /\ task' = [task EXCEPT ![w] = NoTask]
  /\ UNCHANGED <<queueVars, lists, limitVars, shutting_down, deathVars,
                 shutdown_join, accepted, refused>>

\* The inner loop: a worker that finished a task looks for the next one.
DoneTakesTask(w) ==
  /\ pc[w] = "done"
  /\ RemoveFirst(w)
  /\ UNCHANGED <<lists, limitVars, shutting_down, deathVars, shutdown_join,
                 historyVars>>

DoneFindsNoTask(w) ==
  /\ pc[w] = "done"
  /\ tasks = <<>>
  /\ EnterIdle(w, RunningToIdle(lists, w))
  /\ UNCHANGED <<task, queueVars, limitVars, shutting_down, shutdown_join,
                 historyVars>>

\* WaitMicros returns without a notification: its time is up, or for no
\* reason.
WaitExpires(w) ==
  /\ pc[w] \in Sleeping
  /\ pc' = [pc EXCEPT ![w] = IF @ = "sleep" THEN "expired"
                                            ELSE "idleExpired"]
  /\ UNCHANGED <<task, queueVars, lists, limitVars, shutting_down,
                 deathVars, shutdown_join, historyVars>>

SpuriousWakeup(w) ==
  /\ pc[w] \in Sleeping
  /\ pc' = Wake(pc, {w})
  /\ UNCHANGED <<task, queueVars, lists, limitVars, shutting_down,
                 deathVars, shutdown_join, historyVars>>

\* A worker that finds tasks after a wait goes back to the top of the loop.
GoAround(w) ==
  /\ tasks # <<>>
  /\ pc' = [pc EXCEPT ![w] = "loop"]
  /\ UNCHANGED <<lists, deathVars>>

\* WorkerLoop after WaitMicros: run tasks, give up, or wait again.
AfterWait(w) ==
  /\ pc[w] \in {"woken", "expired"}
  /\ \/ GoAround(w)
     \/ /\ tasks = <<>>
        /\ shutting_down \/ pc[w] = "expired"
        /\ Die(w, lists)
     \/ /\ tasks = <<>>
        /\ ~ shutting_down /\ pc[w] = "woken"
        /\ pc' = [pc EXCEPT ![w] = "sleep"]
        /\ UNCHANGED <<lists, deathVars>>
  /\ UNCHANGED <<task, queueVars, limitVars, shutting_down, shutdown_join,
                 historyVars>>

\* OnEnterIdleLocked after its WaitMicros, and what follows its return.
AfterIdleWait(w) ==
  /\ pc[w] \in {"idleWoken", "idleExpired"}
  /\ \/ GoAround(w)
     \/ /\ tasks = <<>>
        /\ DieOrSleep(w, lists)
     \/ /\ tasks = <<>>
        /\ ~ shutting_down /\ pc[w] = "idleExpired"
        /\ pc' = [pc EXCEPT ![w] = "notifyIdle"]
        /\ UNCHANGED <<lists, deathVars>>
  /\ UNCHANGED <<task, queueVars, limitVars, shutting_down, shutdown_join,
                 historyVars>>

\* NotifyIdle returns, the monitor is taken again, OnEnterIdleLocked returns.
AfterNotifyIdle(w) ==
  /\ pc[w] = "notifyIdle"
  /\ \/ GoAround(w)
     \/ /\ tasks = <<>>
        /\ DieOrSleep(w, lists)
  /\ UNCHANGED <<task, queueVars, limitVars, shutting_down, shutdown_join,
                 historyVars>>

\* JoinDeadWorkersLocked in a dying worker: OSThread::Join blocks until the
\* joined thread has ended, then the Worker object is deleted.
JoinDead(w, d) ==
  /\ pc[w] = "joining"
  /\ d \in to_join[w]
  /\ pc[d] = "exited"
  /\ pc' = [pc EXCEPT ![d] = "none"]
  /\ to_join' = [to_join EXCEPT ![w] = @ \ {d}]
  /\ UNCHANGED <<task, queueVars, lists, limitVars, shutting_down,
                 all_workers_dead, shutdown, shutdown_join, historyVars>>

\* The thread of a dead worker ends.
ExitThread(w) ==
  /\ pc[w] = "joining"
  /\ to_join[w] = {}
  /\ pc' = [pc EXCEPT ![w] = "exited"]
  /\ UNCHANGED <<task, queueVars, lists, limitVars, shutting_down,
                 deathVars, shutdown_join, historyVars>>

-----------------------------------------------------------------------------
(* The thread that calls Shutdown.                                         *)

\* Wrong variant: sleeping workers are not told.
Shutdown_NoNotify ==
  /\ shutdown = "no"
  /\ shutdown' = "exitCheck"
  /\ shutting_down' = TRUE
  /\ all_workers_dead' = (all_workers_dead \/ NoLiveWorker(lists))
  /\ UNCHANGED <<pc, task, queueVars, lists, limitVars, to_join,
                 shutdown_join, historyVars>>

Shutdown ==
  /\ shutdown = "no"
  /\ shutdown' = "exitCheck"
  /\ shutting_down' = TRUE
  /\ IF NoLiveWorker(lists)
     THEN /\ all_workers_dead' = TRUE
          /\ UNCHANGED pc
     ELSE /\ NotifyAll(pc)
          /\ UNCHANGED all_workers_dead
  /\ UNCHANGED <<task, queueVars, lists, limitVars, to_join, shutdown_join,
                 historyVars>>

\* while (!all_workers_dead_) eml.Wait(), one test of the condition.
ShutdownExitCheck ==
  /\ shutdown = "exitCheck"
  /\ shutdown' = IF all_workers_dead THEN "collect" ELSE "exitWait"
  /\ UNCHANGED <<pc, task, queueVars, lists, limitVars, shutting_down,
                 all_workers_dead, to_join, shutdown_join, historyVars>>

ShutdownSpuriousWakeup ==
  /\ shutdown = "exitWait"
  /\ shutdown' = "exitCheck"
  /\ UNCHANGED <<pc, task, queueVars, lists, limitVars, shutting_down,
                 all_workers_dead, to_join, shutdown_join, historyVars>>

ShutdownObtainDead ==
  /\ shutdown = "collect"
  /\ shutdown' = "join"
  /\ shutdown_join' = shutdown_join \cup lists.dead
  /\ lists' = ObtainDead(lists)
  /\ UNCHANGED <<pc, task, queueVars, limitVars, shutting_down,
                 all_workers_dead, to_join, historyVars>>

ShutdownJoinDead(d) ==
  /\ shutdown = "join"
  /\ d \in shutdown_join
  /\ pc[d] = "exited"
  /\ pc' = [pc EXCEPT ![d] = "none"]
  /\ shutdown_join' = shutdown_join \ {d}
  /\ UNCHANGED <<task, queueVars, lists, limitVars, shutting_down,
                 deathVars, historyVars>>

ShutdownReturns ==
  /\ shutdown = "join"
  /\ shutdown_join = {}
  /\ shutdown' = "returned"
  /\ UNCHANGED <<pc, task, queueVars, lists, limitVars, shutting_down,
                 all_workers_dead, to_join, shutdown_join, historyVars>>

-----------------------------------------------------------------------------
(* What a worker's thread does by itself, once started.                    *)
WorkerStep(w) ==
  \/ LoopTakesTask(w)
  \/ LoopFindsNoTask(w)
  \/ DoneTakesTask(w)
  \/ DoneFindsNoTask(w)
  \/ AfterWait(w)
  \/ AfterIdleWait(w)
  \/ AfterNotifyIdle(w)
  \/ \E d \in Worker : JoinDead(w, d)
  \/ ExitThread(w)

ShutdownStep ==
  \/ ShutdownExitCheck
  \/ ShutdownObtainDead
  \/ \E d \in Worker : ShutdownJoinDead(d)
  \/ ShutdownReturns

Next ==
  \/ \E t \in Task : Run(t) \/ RunRefused(t)
  \/ \E w \in Worker :
       \/ StartThread(w)
       \/ MarkCurrentWorkerAsBlocked(w)
       \/ MarkCurrentWorkerAsUnBlocked(w)
       \/ TaskReturns(w)
       \/ WaitExpires(w)
       \/ SpuriousWakeup(w)
       \/ WorkerStep(w)
  \/ Shutdown
  \/ ShutdownStep
  \/ ShutdownSpuriousWakeup

(***************************************************************************)
(* Every thread that can run is scheduled again; a started task returns,   *)
(* and one that blocked its worker comes back; the wait for the idle time  *)
(* of OnEnterIdleLocked, which always has a timeout, ends.  Nothing is     *)
(* assumed of the worker timeout (it may be off), of spurious wakeups or   *)
(* of the callers of Run and Shutdown.                                     *)
(***************************************************************************)
IdleWaitExpires(w) == pc[w] = "idleWait" /\ WaitExpires(w)

Fairness ==
  /\ \A w \in Worker :
       /\ WF_vars(StartThread(w))
       /\ WF_vars(WorkerStep(w))
       /\ WF_vars(MarkCurrentWorkerAsUnBlocked(w))
       /\ SF_vars(TaskReturns(w))
       /\ WF_vars(IdleWaitExpires(w))
  /\ WF_vars(ShutdownStep)

Spec == Init /\ [][Next]_vars
FairSpec == Spec /\ Fairness

-----------------------------------------------------------------------------
(* Properties.                                                             *)

AwakeIdle == {w \in Worker : pc[w] \in IdleAwake}
Unblocked == {w \in Worker : pc[w] \in Busy /\ w \notin blocked}

\* The lists, their counters and pending_tasks_ agree with where the threads
\* are: what ScheduleTaskLocked computes from counters is true of the lists.
ListsMatchThreads ==
  /\ lists.idle = {w \in Worker : pc[w] \in Sleeping \cup IdleAwake}
  /\ lists.running = {w \in Worker : pc[w] \in Busy}
  /\ lists.count_idle = Cardinality(lists.idle)
  /\ lists.count_running = Cardinality(lists.running)
  /\ lists.count_dead = Cardinality(lists.dead)
  /\ pending_tasks = Len(tasks)

\* No lost wakeup: while some worker sleeps un-notified in WaitMicros, every
\* queued task has an idle worker of its own that is awake or being woken.
\* With an unlimited pool that holds even when no worker sleeps.
EveryTaskHasAWorker ==
  \/ Cardinality(AwakeIdle) >= Len(tasks)
  \/ MaxPoolSize > 0 /\ Waiters(pc) = {}

\* A queued task never depends on a blocked worker alone: there is an awake
\* idle worker, or one whose task is not blocked, that will reach the queue.
SomeWorkerWillLook ==
  tasks # <<>> => AwakeIdle \cup Unblocked # {}

\* max_pool_size_ is the configured size plus one for each blocked worker,
\* so the ASSERT(max_pool_size_ > 0) of MarkCurrentWorkerAsUnBlocked holds.
LimitCountsBlocked ==
  /\ max_pool_size = IF MaxPoolSize = 0 THEN 0
                     ELSE MaxPoolSize + Cardinality(blocked)
  /\ \A w \in blocked : pc[w] = "task"

\* Every worker whose thread left WorkerLoop and was not joined is in exactly
\* one list of workers to join, so it is joined and deleted once; a worker in
\* such a list has left WorkerLoop.  At most one waits in dead_workers_.
EachDeadWorkerHasOneJoiner ==
  /\ \A d, e \in lists.dead : d = e
  /\ \A d \in Worker :
       pc[d] \in Gone <=> \/ d \in lists.dead \cup shutdown_join
                          \/ \E w \in Worker : d \in to_join[w]
  /\ lists.dead \cap shutdown_join = {}
  /\ \A w \in Worker :
       /\ to_join[w] \cap (lists.dead \cup shutdown_join) = {}
       /\ \A v \in Worker \ {w} : to_join[w] \cap to_join[v] = {}

\* "Tell workers to drain remaining work and then shut down": all_workers_dead_
\* is set only when no task is queued or running, and when Shutdown returns
\* every task that Run accepted has been run to its end.
ShutdownDrains ==
  /\ all_workers_dead => NoLiveWorker(lists) /\ tasks = <<>>
  /\ shutdown = "returned" => finished = accepted

\* When Shutdown returns no worker thread is left: each one was joined and
\* its Worker deleted ("On return, all thread pool threads have exited").
ShutdownJoinsAll ==
  shutdown = "returned" => \A w \in Worker : pc[w] = "none"

\* Once all_workers_dead_ is set no worker is ever created again: nobody
\* would join it.
DeadPoolStaysDead ==
  [][all_workers_dead => all_workers_dead' /\ NoLiveWorker(lists')]_vars

\* The promise to the callers, as an abstract specification.
TP == INSTANCE TaskPool WITH
        queue <- tasks,
        active <- {task[w] : w \in Worker} \ {NoTask},
        phase <- CASE shutdown = "no" -> "open"
                   [] shutdown = "returned" -> "closed"
                   [] OTHER -> "draining"

\* Every behaviour of the pool's threads is one of TaskPool.
ImplementsTaskPool == TP!PoolSafety

\* With a fair scheduler it also keeps TaskPool's liveness: each accepted
\* task starts and finishes, and Shutdown returns.
ImplementsLiveTaskPool == TP!PoolSpec

-----------------------------------------------------------------------------
(* The inductive invariant behind the properties above.                    *)

\* Shutdown's progress and the two flags.
PhaseInv ==
  /\ shutting_down <=> shutdown # "no"
  /\ all_workers_dead => shutting_down /\ NoLiveWorker(lists) /\ tasks = <<>>
  /\ shutdown \in {"collect", "join", "returned"} => all_workers_dead
  /\ shutdown \in {"join", "returned"} => lists.dead = {}
  /\ shutdown = "returned" => shutdown_join = {}

\* Every accepted task is queued, running or finished, and only once.
Queued == {tasks[i] : i \in DOMAIN tasks}
TaskInv ==
  /\ \A t \in Task : t \in accepted <=> \/ t \in Queued \cup finished
                                        \/ \E w \in Worker : task[w] = t
  /\ \A i, j \in DOMAIN tasks : tasks[i] = tasks[j] => i = j
  /\ \A w \in Worker :
       /\ task[w] # NoTask <=> pc[w] = "task"
       /\ task[w] \notin Queued
       /\ \A v \in Worker : task[v] = task[w] /\ task[w] # NoTask => v = w

\* Joins wait for each other in the order of the deaths: in every set of
\* dead workers one is joined by somebody outside of the set.
JoinInv ==
  /\ \A w \in Worker : to_join[w] # {} => pc[w] = "joining"
  /\ \A S \in SUBSET {w \in Worker : pc[w] \in Gone} :
       S # {} => \E d \in S : \/ d \in lists.dead \cup shutdown_join
                              \/ \E w \in Worker \ S : d \in to_join[w]

IInv ==
  /\ TypeOK
  /\ ListsMatchThreads
  /\ EveryTaskHasAWorker
  /\ SomeWorkerWillLook
  /\ LimitCountsBlocked
  /\ EachDeadWorkerHasOneJoiner
  /\ PhaseInv
  /\ TaskInv
  /\ JoinInv

=============================================================================
