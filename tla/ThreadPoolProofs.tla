--------------------------- MODULE ThreadPoolProofs ---------------------------
(***************************************************************************)
(* Proofs about ThreadPool for any number of workers and tasks and any     *)
(* configured size.                                                        *)
(***************************************************************************)
EXTENDS ThreadPool, FiniteSetTheorems, TLAPS

Lists == [idle : SUBSET Worker, running : SUBSET Worker, dead : SUBSET Worker,
          count_idle : Nat, count_running : Nat, count_dead : Nat]

\* The counters of a value of the lists are the sizes of its sets.
Counted(l) ==
  /\ l \in Lists
  /\ l.count_idle = Cardinality(l.idle)
  /\ l.count_running = Cardinality(l.running)
  /\ l.count_dead = Cardinality(l.dead)

\* Subsets of Worker are finite, and a counter follows an element that is
\* added or removed.
LEMMA CountAdd ==
  ASSUME NEW S \in SUBSET Worker, NEW w \in Worker
  PROVE  /\ IsFiniteSet(S)
         /\ Cardinality(S) \in Nat
         /\ w \notin S => Cardinality(S \cup {w}) = Cardinality(S) + 1
         /\ w \in S => /\ Cardinality(S \ {w}) = Cardinality(S) - 1
                       /\ Cardinality(S) >= 1
<1>1. IsFiniteSet(S)
  BY Zenon, FS_Subset, ThreadPoolAssumption
<1>2. Cardinality(S) \in Nat
  BY Zenon, <1>1, FS_CardinalityType
<1>3. w \notin S => Cardinality(S \cup {w}) = Cardinality(S) + 1
  BY Zenon, <1>1, FS_AddElement
<1>4. w \in S => Cardinality(S \ {w}) = Cardinality(S) - 1
  BY Zenon, <1>1, FS_RemoveElement
<1>5. w \in S => Cardinality(S) >= 1
  BY <1>1, <1>2, FS_EmptySet
<1> QED
  BY Zenon, <1>1, <1>2, <1>3, <1>4, <1>5

\* The updates that the list moves are made of keep the counters exact.
LEMMA UpdatesCounted ==
  ASSUME NEW l, Counted(l),
         NEW S \in SUBSET Worker, NEW T \in SUBSET Worker,
         NEW m, NEW n, m = Cardinality(S), n = Cardinality(T)
  PROVE  /\ Counted([l EXCEPT !.idle = S, !.count_idle = m])
         /\ Counted([l EXCEPT !.dead = S, !.count_dead = m])
         /\ Counted([l EXCEPT !.idle = S, !.running = T,
                              !.count_idle = m, !.count_running = n])
         /\ Counted([l EXCEPT !.running = S, !.idle = T,
                              !.count_running = m, !.count_idle = n])
         /\ Counted([l EXCEPT !.idle = S, !.dead = T,
                              !.count_idle = m, !.count_dead = n])
<1>1. m \in Nat /\ n \in Nat
  BY Zenon, FS_Subset, FS_CardinalityType, ThreadPoolAssumption
<1> QED
  BY Zenon, <1>1 DEF Counted, Lists

\* The sets in a value of the lists after each move (IdleToRunningLocked,
\* RunningToIdleLocked, IdleToDeadLocked, ObtainDeadWorkersLocked).
LEMMA MoveFields ==
  ASSUME NEW l, Counted(l), NEW w \in Worker
  PROVE  /\ NewIdle(l, w).idle = l.idle \cup {w}
         /\ NewIdle(l, w).running = l.running
         /\ NewIdle(l, w).dead = l.dead
         /\ IdleToRunning(l, w).idle = l.idle \ {w}
         /\ IdleToRunning(l, w).running = l.running \cup {w}
         /\ IdleToRunning(l, w).dead = l.dead
         /\ RunningToIdle(l, w).idle = l.idle \cup {w}
         /\ RunningToIdle(l, w).running = l.running \ {w}
         /\ RunningToIdle(l, w).dead = l.dead
         /\ ObtainDead(l).idle = l.idle
         /\ ObtainDead(l).running = l.running
         /\ ObtainDead(l).dead = {}
         /\ IdleToDead(l, w).idle = l.idle \ {w}
         /\ IdleToDead(l, w).running = l.running
         /\ IdleToDead(l, w).dead = l.dead \cup {w}
BY Zenon DEF Counted, Lists, NewIdle, IdleToRunning, RunningToIdle, ObtainDead,
       IdleToDead

\* Each list move keeps the counters exact.
LEMMA MovesCounted ==
  ASSUME NEW l, Counted(l), NEW w \in Worker
  PROVE  /\ w \notin l.idle => Counted(NewIdle(l, w))
         /\ w \in l.idle \ l.running => Counted(IdleToRunning(l, w))
         /\ w \in l.running \ l.idle => Counted(RunningToIdle(l, w))
         /\ Counted(ObtainDead(l))
         /\ w \in l.idle \ l.dead => Counted(IdleToDead(l, w))
<1>1. /\ l.idle \in SUBSET Worker
      /\ l.running \in SUBSET Worker
      /\ l.dead \in SUBSET Worker
  BY Zenon DEF Counted, Lists
<1>2. ASSUME w \notin l.idle
      PROVE  Counted(NewIdle(l, w))
  <2> DEFINE S == l.idle \cup {w}
             m == l.count_idle + 1
  <2>1. S \in SUBSET Worker /\ m = Cardinality(S)
    BY Zenon, <1>1, <1>2, CountAdd DEF Counted
  <2>2. NewIdle(l, w) = [l EXCEPT !.idle = S, !.count_idle = m]
    BY Zenon DEF NewIdle
  <2> HIDE DEF S, m
  <2>3. Counted([l EXCEPT !.idle = S, !.count_idle = m])
    BY Zenon, <2>1, UpdatesCounted
  <2> QED
    BY Zenon, <2>2, <2>3
<1>3. ASSUME w \in l.idle \ l.running
      PROVE  Counted(IdleToRunning(l, w))
  <2> DEFINE S == l.idle \ {w}
             T == l.running \cup {w}
             m == l.count_idle - 1
             n == l.count_running + 1
  <2>1. /\ S \in SUBSET Worker /\ m = Cardinality(S)
        /\ T \in SUBSET Worker /\ n = Cardinality(T)
    BY Zenon, <1>1, <1>3, CountAdd DEF Counted
  <2>2. IdleToRunning(l, w) = [l EXCEPT !.idle = S, !.running = T,
                                        !.count_idle = m,
                                        !.count_running = n]
    BY Zenon DEF IdleToRunning
  <2> HIDE DEF S, T, m, n
  <2>3. Counted([l EXCEPT !.idle = S, !.running = T,
                        !.count_idle = m, !.count_running = n])
    BY Zenon, <2>1, UpdatesCounted
  <2> QED
    BY Zenon, <2>2, <2>3
<1>4. ASSUME w \in l.running \ l.idle
      PROVE  Counted(RunningToIdle(l, w))
  <2> DEFINE S == l.running \ {w}
             T == l.idle \cup {w}
             m == l.count_running - 1
             n == l.count_idle + 1
  <2>1. /\ S \in SUBSET Worker /\ m = Cardinality(S)
        /\ T \in SUBSET Worker /\ n = Cardinality(T)
    BY Zenon, <1>1, <1>4, CountAdd DEF Counted
  <2>2. RunningToIdle(l, w) = [l EXCEPT !.running = S, !.idle = T,
                                        !.count_running = m,
                                        !.count_idle = n]
    BY Zenon DEF RunningToIdle
  <2> HIDE DEF S, T, m, n
  <2>3. Counted([l EXCEPT !.running = S, !.idle = T,
                          !.count_running = m, !.count_idle = n])
    BY Zenon, <2>1, UpdatesCounted
  <2> QED
    BY Zenon, <2>2, <2>3
<1>5. Counted(ObtainDead(l))
  <2>1. Cardinality({}) = 0
    BY Zenon, FS_EmptySet
  <2> QED
    BY Zenon, <2>1 DEF ObtainDead, Counted, Lists
<1>6. ASSUME w \in l.idle \ l.dead
      PROVE  Counted(IdleToDead(l, w))
  <2> DEFINE S == l.idle \ {w}
             T == l.dead \cup {w}
             m == l.count_idle - 1
             n == l.count_dead + 1
  <2>1. /\ S \in SUBSET Worker /\ m = Cardinality(S)
        /\ T \in SUBSET Worker /\ n = Cardinality(T)
    BY Zenon, <1>1, <1>6, CountAdd DEF Counted
  <2>2. IdleToDead(l, w) = [l EXCEPT !.idle = S, !.dead = T,
                                     !.count_idle = m, !.count_dead = n]
    BY Zenon DEF IdleToDead
  <2> HIDE DEF S, T, m, n
  <2>3. Counted([l EXCEPT !.idle = S, !.dead = T, !.count_idle = m, !.count_dead = n])
    BY Zenon, <2>1, UpdatesCounted
  <2> QED
    BY Zenon, <2>2, <2>3
<1> QED
  BY Zenon, <1>2, <1>3, <1>4, <1>5, <1>6

-----------------------------------------------------------------------------
(* The steps of a worker, by their effect.                                 *)

IdleLoc == Sleeping \cup IdleAwake

\* An idle worker stays idle; it goes to sleep only if it saw no task.
IdleMove(w) ==
  /\ pc[w] \in IdleLoc
  /\ \E x \in IdleLoc : /\ x \in IdleAwake \/ tasks = <<>>
                        /\ pc' = [pc EXCEPT ![w] = x]
  /\ UNCHANGED <<task, queueVars, lists, limitVars, shutting_down, deathVars,
                 shutdown_join, historyVars>>

\* A worker that finished its task and saw no other becomes idle.
BecomesIdle(w) ==
  /\ pc[w] = "done"
  /\ tasks = <<>>
  /\ \E x \in IdleLoc : pc' = [pc EXCEPT ![w] = x]
  /\ lists' = RunningToIdle(lists, w)
  /\ UNCHANGED <<task, queueVars, limitVars, shutting_down, deathVars,
                 shutdown_join, historyVars>>

\* A worker that saw no task dies.
Dies(w) ==
  /\ tasks = <<>>
  /\ \/ pc[w] \in IdleAwake /\ Die(w, lists)
     \/ pc[w] = "done" /\ Die(w, RunningToIdle(lists, w))
  /\ UNCHANGED <<task, queueVars, limitVars, shutting_down, shutdown_join,
                 historyVars>>

\* Every step of an idle worker is one of these.
LEMMA WorkerShapes ==
  ASSUME TypeOK, NEW w \in Worker
  PROVE  /\ StartThread(w) => IdleMove(w)
         /\ WaitExpires(w) => IdleMove(w)
         /\ SpuriousWakeup(w) => IdleMove(w)
         /\ LoopFindsNoTask(w) => IdleMove(w) \/ Dies(w)
         /\ DoneFindsNoTask(w) => BecomesIdle(w) \/ Dies(w)
         /\ AfterWait(w) => IdleMove(w) \/ Dies(w)
         /\ AfterIdleWait(w) => IdleMove(w) \/ Dies(w)
         /\ AfterNotifyIdle(w) => IdleMove(w) \/ Dies(w)
<1> USE DEF IdleLoc, Sleeping, IdleAwake
<1>1. StartThread(w) => IdleMove(w)
  BY Zenon DEF StartThread, IdleMove
<1>2. WaitExpires(w) => IdleMove(w)
  BY Zenon DEF TypeOK, WaitExpires, IdleMove
<1>3. SpuriousWakeup(w) => IdleMove(w)
  <2> SUFFICES ASSUME SpuriousWakeup(w) PROVE IdleMove(w)
    BY Zenon
  <2>1. \E x \in {"woken", "idleWoken"} : pc' = [pc EXCEPT ![w] = x]
    BY Zenon DEF TypeOK, SpuriousWakeup, Wake
  <2> QED
    BY Zenon, <2>1 DEF SpuriousWakeup, IdleMove
<1>4. LoopFindsNoTask(w) => IdleMove(w) \/ Dies(w)
  BY Zenon
     DEF LoopFindsNoTask, EnterIdle, OnEnterIdleLocked, DieOrSleep, IdleMove,
         Dies, deathVars
<1>5. DoneFindsNoTask(w) => BecomesIdle(w) \/ Dies(w)
  BY Zenon DEF DoneFindsNoTask, EnterIdle, OnEnterIdleLocked, DieOrSleep,
         BecomesIdle, Dies, deathVars
<1>6. AfterWait(w) => IdleMove(w) \/ Dies(w)
  BY Zenon DEF AfterWait, GoAround, IdleMove, Dies
<1>7. AfterIdleWait(w) => IdleMove(w) \/ Dies(w)
  BY Zenon DEF AfterIdleWait, GoAround, DieOrSleep, IdleMove, Dies
<1>8. AfterNotifyIdle(w) => IdleMove(w) \/ Dies(w)
  BY Zenon DEF AfterNotifyIdle, GoAround, DieOrSleep, IdleMove, Dies
<1> QED
  BY Zenon, <1>1, <1>2, <1>3, <1>4, <1>5, <1>6, <1>7, <1>8

\* What the invariant says of the lists.
LEMMA ListFacts ==
  ASSUME TypeOK, ListsMatchThreads
  PROVE  /\ Counted(lists)
         /\ \A w \in Worker : /\ w \in lists.idle <=> pc[w] \in IdleLoc
                              /\ w \in lists.running <=> pc[w] \in Busy
         /\ lists.idle \in SUBSET Worker
         /\ lists.running \in SUBSET Worker
         /\ lists.dead \in SUBSET Worker
BY Zenon DEF TypeOK, ListsMatchThreads, Counted, Lists, IdleLoc

\* The effect of a worker's death on the lists and on Shutdown's caller.
LEMMA DeathEffect ==
  ASSUME TypeOK, ListsMatchThreads, EachDeadWorkerHasOneJoiner,
         NEW w \in Worker, Dies(w)
  PROVE  /\ pc[w] \in IdleAwake \cup {"done"}
         /\ pc' = [pc EXCEPT ![w] = "joining"]
         /\ to_join' = [to_join EXCEPT ![w] = @ \cup lists.dead]
         /\ Counted(lists')
         /\ lists'.idle = lists.idle \ {w}
         /\ lists'.running = lists.running \ {w}
         /\ lists'.dead = {w}
         /\ \/ /\ shutting_down
               /\ lists'.idle = {} /\ lists'.running = {}
               /\ all_workers_dead' = TRUE
               /\ shutdown' = IF shutdown = "exitWait" THEN "exitCheck"
                                                       ELSE shutdown
            \/ UNCHANGED <<all_workers_dead, shutdown>>
<1>1. CASE pc[w] \in IdleAwake /\ Die(w, lists)
  <2> DEFINE l == ObtainDead(lists)
  <2>1. /\ Counted(lists)
        /\ w \in lists.idle /\ w \notin lists.running
    BY Zenon, <1>1, ListFacts DEF IdleLoc, IdleAwake, Busy
  <2>2. /\ Counted(l)
        /\ l.idle = lists.idle /\ l.running = lists.running /\ l.dead = {}
    BY Zenon, <2>1, MovesCounted, MoveFields
  <2> HIDE DEF l
  <2>3. /\ Counted(IdleToDead(l, w))
        /\ IdleToDead(l, w).idle = lists.idle \ {w}
        /\ IdleToDead(l, w).running = lists.running
        /\ IdleToDead(l, w).dead = {w}
    <3>1. w \in l.idle \ l.dead /\ l.dead \cup {w} = {w}
      BY Zenon, <2>1, <2>2
    <3>2. Counted(IdleToDead(l, w))
      BY Zenon, <2>2, <3>1, MovesCounted
    <3>3. /\ IdleToDead(l, w).idle = l.idle \ {w}
          /\ IdleToDead(l, w).running = l.running
          /\ IdleToDead(l, w).dead = l.dead \cup {w}
      BY Zenon, <2>2 DEF Counted, Lists, IdleToDead
    <3> QED
      BY Zenon, <2>2, <3>1, <3>2, <3>3
  <2>4. lists' = IdleToDead(l, w)
    BY Zenon, <1>1 DEF Die, l
  <2> QED
    BY Zenon, <1>1, <2>1, <2>3, <2>4 DEF Die, NoLiveWorker, l
<1>2. CASE pc[w] = "done" /\ Die(w, RunningToIdle(lists, w))
  <2> DEFINE k == RunningToIdle(lists, w)
             l == ObtainDead(k)
  <2>1. /\ Counted(lists)
        /\ w \in lists.running /\ w \notin lists.idle
    BY Zenon, <1>2, ListFacts DEF IdleLoc, Sleeping, IdleAwake, Busy
  <2>2. /\ Counted(k)
        /\ k.idle = lists.idle \cup {w}
        /\ k.running = lists.running \ {w}
        /\ k.dead = lists.dead
    BY <2>1, MovesCounted, MoveFields
  <2> HIDE DEF k
  <2>3. /\ Counted(l)
        /\ l.idle = k.idle /\ l.running = k.running /\ l.dead = {}
    BY Zenon, <2>2, MovesCounted, MoveFields
  <2> HIDE DEF l
  <2>4. /\ w \in l.idle \ l.dead
        /\ l.idle \ {w} = lists.idle \ {w}
        /\ l.running = lists.running \ {w}
        /\ l.dead \cup {w} = {w}
    BY Zenon, <2>1, <2>2, <2>3
  <2>5. /\ Counted(IdleToDead(l, w))
        /\ IdleToDead(l, w).idle = lists.idle \ {w}
        /\ IdleToDead(l, w).running = lists.running \ {w}
        /\ IdleToDead(l, w).dead = {w}
    <3>1. Counted(IdleToDead(l, w))
      BY Zenon, <2>3, <2>4, MovesCounted
    <3>2. /\ IdleToDead(l, w).idle = l.idle \ {w}
          /\ IdleToDead(l, w).running = l.running
          /\ IdleToDead(l, w).dead = l.dead \cup {w}
      BY Zenon, <2>3 DEF Counted, Lists, IdleToDead
    <3> QED
      BY Zenon, <2>4, <3>1, <3>2
  <2>6. /\ pc' = [pc EXCEPT ![w] = "joining"]
        /\ to_join' = [to_join EXCEPT ![w] = @ \cup k.dead]
        /\ lists' = IdleToDead(l, w)
        /\ IF shutting_down /\ NoLiveWorker(IdleToDead(l, w))
           THEN /\ all_workers_dead' = TRUE
                /\ shutdown' = IF shutdown = "exitWait" THEN "exitCheck"
                                                        ELSE shutdown
           ELSE UNCHANGED <<all_workers_dead, shutdown>>
    BY Zenon, <1>2 DEF Die, k, l
  <2> QED
    BY Zenon, <1>2, <2>1, <2>2, <2>5, <2>6 DEF NoLiveWorker
<1> QED
  BY Zenon, <1>1, <1>2 DEF Dies

\* The effect of Notify and of creating a worker on the threads and lists.
Woken ==
  /\ \/ pc' = pc /\ Waiters(pc) = {}
     \/ \E v \in Worker : /\ pc[v] \in Sleeping
                          /\ \E x \in IdleAwake : pc' = [pc EXCEPT ![v] = x]
  /\ UNCHANGED lists

Created(w) ==
  /\ pc[w] = "none"
  /\ pc' = [pc EXCEPT ![w] = "created"]
  /\ Counted(lists')
  /\ lists'.idle = lists.idle \cup {w}
  /\ lists'.running = lists.running
  /\ lists'.dead = lists.dead

\* What creating a Worker (ScheduleTaskLocked, MarkCurrentWorkerAsBlocked)
\* does to the lists.
LEMMA CreateEffect ==
  ASSUME TypeOK, ListsMatchThreads, NEW w \in Worker, CreateWorker(w)
  PROVE  Created(w)
<1>1. Counted(lists) /\ w \notin lists.idle
  BY Zenon, ListFacts DEF CreateWorker, IdleLoc, Sleeping, IdleAwake
<1> QED
  BY <1>1, MovesCounted, MoveFields DEF CreateWorker, Created

\* ScheduleTaskLocked wakes a worker, or creates one below the limit.  It
\* does neither only when no worker waits.
LEMMA ScheduleEffect ==
  ASSUME TypeOK, ListsMatchThreads, NEW n \in Nat, ScheduleTaskLocked(n)
  PROVE  \/ /\ Woken
            /\ \/ lists.count_idle >= n
               \/ max_pool_size > 0
                  /\ lists.count_idle + lists.count_running >= max_pool_size
         \/ /\ max_pool_size = 0
               \/ lists.count_idle + lists.count_running < max_pool_size
            /\ \E w \in Worker : Created(w)
<1>1. Notify(pc) => \/ pc' = pc /\ Waiters(pc) = {}
                    \/ \E v \in Worker :
                         /\ pc[v] \in Sleeping
                         /\ \E x \in IdleAwake : pc' = [pc EXCEPT ![v] = x]
  <2> SUFFICES ASSUME NEW v \in Waiters(pc), pc' = Wake(pc, {v})
               PROVE  /\ v \in Worker /\ pc[v] \in Sleeping
                      /\ \E x \in IdleAwake : pc' = [pc EXCEPT ![v] = x]
    BY Zenon DEF Notify
  <2>1. v \in Worker /\ pc[v] \in Sleeping
    BY Zenon DEF Waiters
  <2>2. \E x \in {"woken", "idleWoken"} : pc' = [pc EXCEPT ![v] = x]
    BY Zenon, <2>1 DEF TypeOK, Wake
  <2> QED
    BY Zenon, <2>1, <2>2 DEF IdleAwake
<1>2. lists.idle = {} => Waiters(pc) = {}
  BY Zenon DEF ListsMatchThreads, Waiters
<1>3. lists.count_idle \in Nat /\ lists.count_running \in Nat
      /\ max_pool_size \in Nat
  BY Zenon DEF TypeOK
<1>4. CASE lists.count_idle >= n /\ Notify(pc) /\ UNCHANGED lists
  BY Zenon, <1>1, <1>4 DEF Woken
<1>5. CASE /\ max_pool_size > 0
           /\ lists.count_idle + lists.count_running >= max_pool_size
           /\ IF lists.idle # {} THEN Notify(pc) ELSE UNCHANGED pc
           /\ UNCHANGED lists
  BY Zenon, <1>1, <1>2, <1>5 DEF Woken
<1>6. CASE /\ ~ (/\ max_pool_size > 0
                 /\ lists.count_idle + lists.count_running >= max_pool_size)
           /\ \E w \in Worker : CreateWorker(w)
  <2>1. PICK w \in Worker : CreateWorker(w)
    BY Zenon, <1>6
  <2>2. Created(w)
    BY Zenon, <2>1, CreateEffect
  <2> QED
    BY <1>3, <1>6, <2>2
<1> QED
  BY Zenon, <1>4, <1>5, <1>6 DEF ScheduleTaskLocked

\* The cases of a step.
LEMMA StepCases ==
  ASSUME TypeOK, Next
  PROVE  \/ \E t \in Task : Run(t) \/ RunRefused(t)
         \/ \E w \in Worker :
              \/ IdleMove(w) \/ BecomesIdle(w) \/ Dies(w)
              \/ LoopTakesTask(w) \/ DoneTakesTask(w) \/ TaskReturns(w)
              \/ MarkCurrentWorkerAsBlocked(w)
              \/ MarkCurrentWorkerAsUnBlocked(w)
              \/ ExitThread(w)
              \/ \E d \in Worker : JoinDead(w, d)
         \/ Shutdown
         \/ ShutdownExitCheck \/ ShutdownSpuriousWakeup
         \/ ShutdownObtainDead \/ ShutdownReturns
         \/ \E d \in Worker : ShutdownJoinDead(d)
<1>1. ASSUME NEW w \in Worker,
             \/ StartThread(w) \/ WaitExpires(w) \/ SpuriousWakeup(w)
             \/ LoopFindsNoTask(w) \/ DoneFindsNoTask(w)
             \/ AfterWait(w) \/ AfterIdleWait(w) \/ AfterNotifyIdle(w)
      PROVE  IdleMove(w) \/ BecomesIdle(w) \/ Dies(w)
  BY Zenon, <1>1, WorkerShapes
<1> QED
  BY Zenon, <1>1 DEF Next, WorkerStep, ShutdownStep

-----------------------------------------------------------------------------
(* Each conjunct of the invariant is preserved.                            *)

\* The lists, the threads and the queue.
ListsOK ==
  /\ pc \in [Worker -> Location]
  /\ Counted(lists)
  /\ \A v \in Worker : /\ v \in lists.idle <=> pc[v] \in IdleLoc
                       /\ v \in lists.running <=> pc[v] \in Busy

\* Every step keeps the lists in accord with the threads.
LEMMA ListsStep ==
  ASSUME IInv, Next
  PROVE  ListsOK'
<1> USE DEF Location, IdleLoc, Sleeping, IdleAwake, Busy, Gone
<1>0. TypeOK /\ ListsMatchThreads /\ EachDeadWorkerHasOneJoiner /\ JoinInv
  BY Zenon DEF IInv
<1>1. pc \in [Worker -> Location] /\ ListsOK
  BY Zenon, <1>0, ListFacts DEF TypeOK, ListsOK
<1>2. ASSUME Woken PROVE ListsOK'
  BY Zenon, <1>1, <1>2 DEF Woken, ListsOK
<1>3. ASSUME NEW w \in Worker, Created(w) PROVE ListsOK'
  BY Zenon, <1>1, <1>3 DEF Created, ListsOK
<1>4. ASSUME NEW t \in Task, Run(t) \/ RunRefused(t) PROVE ListsOK'
  <2>1. CASE Run(t)
    <3>1. pending_tasks + 1 \in Nat
      BY <1>0 DEF TypeOK
    <3> QED
      BY Zenon, <1>0, <1>2, <1>3, <2>1, <3>1, ScheduleEffect DEF Run
  <2> QED
    BY Zenon, <1>1, <1>4, <2>1 DEF RunRefused, ListsOK
<1>5. ASSUME NEW w \in Worker, IdleMove(w) PROVE ListsOK'
  BY Zenon, <1>1, <1>5 DEF IdleMove, ListsOK
<1>6. ASSUME NEW w \in Worker, BecomesIdle(w) PROVE ListsOK'
  <2>1. w \in lists.running \ lists.idle
    BY Zenon, <1>1, <1>6 DEF BecomesIdle, ListsOK
  <2>2. Counted(lists) /\ Counted(lists')
        /\ lists'.idle = lists.idle \cup {w}
        /\ lists'.running = lists.running \ {w}
    BY <1>1, <1>6, <2>1, MovesCounted, MoveFields DEF BecomesIdle, ListsOK
  <2> QED
    BY <1>1, <1>6, <2>2 DEF BecomesIdle, ListsOK
<1>7. ASSUME NEW w \in Worker, Dies(w) PROVE ListsOK'
  <2>1. /\ pc[w] \in IdleAwake \cup {"done"}
        /\ pc' = [pc EXCEPT ![w] = "joining"]
        /\ Counted(lists')
        /\ lists'.idle = lists.idle \ {w}
        /\ lists'.running = lists.running \ {w}
    BY Zenon, <1>0, <1>7, DeathEffect
  <2> QED
    BY Zenon, <1>1, <2>1 DEF ListsOK
<1>8. ASSUME NEW w \in Worker, LoopTakesTask(w) PROVE ListsOK'
  <2>1. w \in lists.idle \ lists.running
    BY Zenon, <1>1, <1>8 DEF LoopTakesTask, ListsOK
  <2>2. Counted(lists) /\ Counted(lists')
        /\ lists'.idle = lists.idle \ {w}
        /\ lists'.running = lists.running \cup {w}
    BY <1>1, <1>8, <2>1, MovesCounted, MoveFields DEF LoopTakesTask, ListsOK
  <2> QED
    BY Zenon, <1>1, <1>8, <2>2 DEF LoopTakesTask, RemoveFirst, ListsOK
<1>9. ASSUME NEW w \in Worker, DoneTakesTask(w) \/ TaskReturns(w)
                               \/ MarkCurrentWorkerAsUnBlocked(w)
      PROVE  ListsOK'
  BY Zenon, <1>1, <1>9 DEF DoneTakesTask, RemoveFirst, TaskReturns,
                    MarkCurrentWorkerAsUnBlocked, ListsOK
<1>10. ASSUME NEW w \in Worker, MarkCurrentWorkerAsBlocked(w) PROVE ListsOK'
  <2>1. \/ UNCHANGED <<pc, lists>>
        \/ \E v \in Worker : CreateWorker(v)
    BY Zenon, <1>10 DEF MarkCurrentWorkerAsBlocked
  <2> QED
    BY Zenon, <1>0, <1>1, <1>3, <2>1, CreateEffect DEF ListsOK
<1>11. ASSUME NEW w \in Worker,
              ExitThread(w) \/ \E d \in Worker : JoinDead(w, d)
                            \/ ShutdownJoinDead(w)
       PROVE  ListsOK'
  BY <1>1, <1>11 DEF ExitThread, JoinDead, ShutdownJoinDead, ListsOK
<1>12. ASSUME Shutdown PROVE ListsOK'
  <2>1. UNCHANGED pc \/ NotifyAll(pc)
    BY Zenon, <1>12 DEF Shutdown
  <2> QED
    BY Zenon, <1>1, <1>12, <2>1 DEF Shutdown, NotifyAll, Wake, Waiters, ListsOK
<1>13. ASSUME ShutdownExitCheck \/ ShutdownSpuriousWakeup \/ ShutdownReturns
       PROVE  ListsOK'
  BY Zenon, <1>1, <1>13 DEF ShutdownExitCheck, ShutdownSpuriousWakeup,
                     ShutdownReturns, ListsOK
<1>14. ASSUME ShutdownObtainDead PROVE ListsOK'
  <2>1. Worker = {} => ListsOK'
    <3>1. Cardinality({}) = 0
      BY Zenon, FS_EmptySet
    <3> QED
      BY Zenon, <1>1, <1>14, <3>1
         DEF ShutdownObtainDead, ListsOK, ObtainDead, Counted, Lists
  <2>2. ASSUME NEW w \in Worker PROVE ListsOK'
    BY Zenon, <1>1, <1>14, MovesCounted, MoveFields
       DEF ShutdownObtainDead, ListsOK
  <2> QED
    BY Zenon, <2>1, <2>2
<1> QED
  BY Zenon, <1>0, <1>4, <1>5, <1>6, <1>7, <1>8, <1>9, <1>10, <1>11, <1>12,
     <1>13,
     <1>14, StepCases

\* Which steps change the queue, the tasks and the limit.
LEMMA Frames ==
  ASSUME TypeOK, Next
  PROVE  /\ \/ \E t \in Task : Run(t)
            \/ \E w \in Worker : \/ LoopTakesTask(w) \/ DoneTakesTask(w)
                                 \/ TaskReturns(w)
            \/ UNCHANGED <<tasks, pending_tasks, task, accepted, finished>>
         /\ \/ \E w \in Worker : \/ MarkCurrentWorkerAsBlocked(w)
                                 \/ MarkCurrentWorkerAsUnBlocked(w)
            \/ UNCHANGED <<blocked, max_pool_size>>
BY Zenon, StepCases
   DEF queueVars, limitVars, historyVars, Run, RunRefused, IdleMove,
       BecomesIdle, Dies, LoopTakesTask, DoneTakesTask, TaskReturns,
       MarkCurrentWorkerAsBlocked, MarkCurrentWorkerAsUnBlocked, ExitThread,
       JoinDead, Shutdown, ShutdownExitCheck, ShutdownSpuriousWakeup,
       ShutdownObtainDead, ShutdownReturns, ShutdownJoinDead

\* Every step keeps the types, the lists and the count of queued tasks.
LEMMA TypeStep ==
  ASSUME IInv, Next
  PROVE  TypeOK' /\ ListsMatchThreads'
<1>0. TypeOK /\ ListsMatchThreads /\ EachDeadWorkerHasOneJoiner /\ TaskInv
  BY Zenon DEF IInv
<1>1. ListsOK'
  BY Zenon, ListsStep
<1>2. /\ pc' \in [Worker -> Location]
      /\ lists' \in [idle : SUBSET Worker, running : SUBSET Worker,
                     dead : SUBSET Worker, count_idle : Nat,
                     count_running : Nat, count_dead : Nat]
  BY Zenon, <1>1 DEF ListsOK, Counted, Lists
<1>3. /\ tasks' \in Seq(Task)
      /\ pending_tasks' = Len(tasks')
      /\ task' \in [Worker -> Task \cup {NoTask}]
      /\ accepted' \in SUBSET Task
      /\ finished' \in SUBSET Task
  <2>1. /\ tasks \in Seq(Task) /\ pending_tasks = Len(tasks)
        /\ task \in [Worker -> Task \cup {NoTask}]
        /\ accepted \in SUBSET Task /\ finished \in SUBSET Task
    BY Zenon, <1>0 DEF TypeOK, ListsMatchThreads
  <2>2. ASSUME NEW t \in Task, Run(t) PROVE <1>3!:
    BY <2>1, <2>2 DEF Run
  <2>3. ASSUME NEW w \in Worker, LoopTakesTask(w) \/ DoneTakesTask(w)
        PROVE  <1>3!:
    <3>1. /\ tasks # <<>> /\ tasks' = Tail(tasks)
          /\ pending_tasks' = pending_tasks - 1
          /\ task' = [task EXCEPT ![w] = Head(tasks)]
          /\ accepted' = accepted /\ finished' = finished
      BY Zenon, <2>3
         DEF LoopTakesTask, DoneTakesTask, RemoveFirst, historyVars
    <3>2. /\ Head(tasks) \in Task /\ Tail(tasks) \in Seq(Task)
          /\ Len(Tail(tasks)) = Len(tasks) - 1
      BY <2>1, <3>1
    <3>3. task' \in [Worker -> Task \cup {NoTask}]
      BY Zenon, <2>1, <3>1, <3>2
    <3> QED
      BY Zenon, <2>1, <3>1, <3>2, <3>3
  <2>4. ASSUME NEW w \in Worker, TaskReturns(w) PROVE <1>3!:
    <3>1. task[w] \in Task
      BY Zenon, <1>0, <2>1, <2>4 DEF TaskReturns, TaskInv
    <3> QED
      BY Zenon, <2>1, <2>4, <3>1 DEF TaskReturns, queueVars
  <2> QED
    BY Zenon, <1>0, <2>1, <2>2, <2>3, <2>4, Frames
<1>4. blocked' \in SUBSET Worker /\ max_pool_size' \in Nat
  BY <1>0, Frames DEF TypeOK, MarkCurrentWorkerAsBlocked,
                      MarkCurrentWorkerAsUnBlocked
<1>5. /\ shutting_down' \in BOOLEAN
      /\ all_workers_dead' \in BOOLEAN
      /\ to_join' \in [Worker -> SUBSET Worker]
      /\ shutdown' \in ShutdownLocation
      /\ shutdown_join' \in SUBSET Worker
      /\ refused' \in SUBSET Task
  <2> USE <1>0 DEF TypeOK, ShutdownLocation
  <2>1. ASSUME NEW w \in Worker, Dies(w) PROVE <1>5!:
    <3>1. /\ to_join' = [to_join EXCEPT ![w] = @ \cup lists.dead]
          /\ lists.dead \in SUBSET Worker
          /\ \/ /\ all_workers_dead' = TRUE
                /\ shutdown' = IF shutdown = "exitWait" THEN "exitCheck"
                                                        ELSE shutdown
             \/ UNCHANGED <<all_workers_dead, shutdown>>
      BY Zenon, <2>1, DeathEffect
    <3> QED
      BY Zenon, <2>1, <3>1 DEF Dies, historyVars
  <2>2. ASSUME NEW w \in Worker, NEW d \in Worker, JoinDead(w, d)
        PROVE  <1>5!:
    BY Zenon, <2>2 DEF JoinDead, historyVars
  <2>3. ASSUME NEW d \in Worker, ShutdownJoinDead(d) PROVE <1>5!:
    BY Zenon, <2>3 DEF ShutdownJoinDead, deathVars, historyVars
  <2>4. CASE Shutdown \/ ShutdownExitCheck \/ ShutdownSpuriousWakeup
             \/ ShutdownReturns
    BY ZenonT(30), <2>4 DEF Shutdown, ShutdownExitCheck, ShutdownSpuriousWakeup,
                ShutdownReturns, historyVars
  <2>5. CASE ShutdownObtainDead
    BY Zenon, <2>5, ListFacts DEF ShutdownObtainDead, historyVars
  <2> QED
    BY ZenonT(30), <2>1, <2>2, <2>3, <2>4, <2>5, StepCases
       DEF deathVars, historyVars, Run, RunRefused, IdleMove, BecomesIdle,
           LoopTakesTask, DoneTakesTask, TaskReturns, ExitThread,
           MarkCurrentWorkerAsBlocked, MarkCurrentWorkerAsUnBlocked
<1>6. pending_tasks' \in Nat
  BY <1>3
<1> QED
  BY Zenon, <1>1, <1>2, <1>3, <1>4, <1>5, <1>6
     DEF TypeOK, ListsOK, ListsMatchThreads, Counted, IdleLoc, Lists

\* Only a worker that takes a task starts one, only TaskReturns ends it.
LEMMA TaskContinues ==
  ASSUME IInv, Next, NEW v \in Worker,
         ~ LoopTakesTask(v), ~ DoneTakesTask(v), ~ TaskReturns(v)
  PROVE  pc'[v] = "task" <=> pc[v] = "task"
<1> USE DEF Location, IdleLoc, Sleeping, IdleAwake, Busy, Gone
<1>0. /\ TypeOK /\ ListsMatchThreads /\ EachDeadWorkerHasOneJoiner
      /\ pc \in [Worker -> Location]
  BY Zenon DEF IInv, TypeOK
<1>1. ASSUME NEW w \in Worker, Created(w) PROVE pc'[v] = "task" <=> pc[v] = "task"
  BY Zenon, <1>0, <1>1 DEF Created
<1>2. ASSUME NEW t \in Task, Run(t) PROVE pc'[v] = "task" <=> pc[v] = "task"
  <2>1. pending_tasks + 1 \in Nat
    BY <1>0 DEF TypeOK
  <2>2. Woken \/ \E w \in Worker : Created(w)
    BY Zenon, <1>0, <1>2, <2>1, ScheduleEffect DEF Run
  <2> QED
    BY Zenon, <1>0, <1>1, <2>2 DEF Woken
<1>3. ASSUME NEW w \in Worker, Dies(w) PROVE pc'[v] = "task" <=> pc[v] = "task"
  BY ZenonT(30), <1>0, <1>3, DeathEffect
<1>4. ASSUME NEW w \in Worker, MarkCurrentWorkerAsBlocked(w)
      PROVE  pc'[v] = "task" <=> pc[v] = "task"
  <2>1. UNCHANGED pc \/ \E u \in Worker : CreateWorker(u)
    BY Zenon, <1>4 DEF MarkCurrentWorkerAsBlocked
  <2> QED
    BY Zenon, <1>0, <1>1, <2>1, CreateEffect
<1>5. ASSUME NEW w \in Worker,
             \/ IdleMove(w) \/ BecomesIdle(w) \/ ExitThread(w)
             \/ LoopTakesTask(w) \/ DoneTakesTask(w) \/ TaskReturns(w)
             \/ MarkCurrentWorkerAsUnBlocked(w)
             \/ \E d \in Worker : JoinDead(w, d)
             \/ ShutdownJoinDead(w)
      PROVE  pc'[v] = "task" <=> pc[v] = "task"
  BY Zenon, <1>0, <1>5
     DEF IdleMove, BecomesIdle, ExitThread, LoopTakesTask, DoneTakesTask,
         RemoveFirst, TaskReturns, MarkCurrentWorkerAsUnBlocked, JoinDead,
         ShutdownJoinDead
<1>6. ASSUME Shutdown PROVE pc'[v] = "task" <=> pc[v] = "task"
  <2>1. UNCHANGED pc \/ NotifyAll(pc)
    BY Zenon, <1>6 DEF Shutdown
  <2> QED
    BY Zenon, <1>0, <2>1 DEF NotifyAll, Wake, Waiters
<1> QED
  BY Zenon, <1>0, <1>2, <1>3, <1>4, <1>5, <1>6, StepCases
     DEF RunRefused, ShutdownExitCheck, ShutdownSpuriousWakeup,
         ShutdownReturns, ShutdownObtainDead

\* Every step keeps max_pool_size_ in accord with the blocked workers.
LEMMA LimitStep ==
  ASSUME IInv, Next
  PROVE  LimitCountsBlocked'
<1>0. /\ TypeOK /\ LimitCountsBlocked
      /\ blocked \in SUBSET Worker /\ max_pool_size \in Nat
      /\ MaxPoolSize \in Nat
  BY Zenon, ThreadPoolAssumption DEF IInv, TypeOK
<1>1. ASSUME NEW v \in blocked' PROVE pc'[v] = "task"
  <2>1. v \in Worker /\ pc[v] = "task" /\ ~ TaskReturns(v)
    BY Zenon, <1>0, <1>1, Frames
       DEF LimitCountsBlocked, TaskReturns, MarkCurrentWorkerAsBlocked,
           MarkCurrentWorkerAsUnBlocked, limitVars
  <2> QED
    BY Zenon, <2>1, TaskContinues DEF LoopTakesTask, DoneTakesTask
<1>2. max_pool_size' = IF MaxPoolSize = 0 THEN 0
                       ELSE MaxPoolSize + Cardinality(blocked')
  <2>1. ASSUME NEW w \in Worker, MarkCurrentWorkerAsBlocked(w) PROVE <1>2!:
    BY <1>0, <2>1, CountAdd DEF MarkCurrentWorkerAsBlocked, LimitCountsBlocked
  <2>2. ASSUME NEW w \in Worker, MarkCurrentWorkerAsUnBlocked(w)
        PROVE  <1>2!:
    BY <1>0, <2>2, CountAdd
       DEF MarkCurrentWorkerAsUnBlocked, LimitCountsBlocked
  <2> QED
    BY Zenon, <1>0, <2>1, <2>2, Frames DEF LimitCountsBlocked
<1> QED
  BY Zenon, <1>1, <1>2 DEF LimitCountsBlocked

\* Which steps change the dead workers and who joins them.
JoinsUnchanged ==
  /\ \A v \in Worker : /\ pc[v] \in Gone => pc'[v] = pc[v]
                       /\ pc[v] \notin Gone => pc'[v] \notin Gone
  /\ lists'.dead = lists.dead
  /\ UNCHANGED <<to_join, shutdown_join>>

\* Only a death, an exit, a join and the hand-over at shutdown change the
\* dead workers or who joins them.
LEMMA JoinFrame ==
  ASSUME IInv, Next
  PROVE  \/ \E w \in Worker : \/ Dies(w) \/ ExitThread(w)
                              \/ ShutdownJoinDead(w)
                              \/ \E d \in Worker : JoinDead(w, d)
         \/ ShutdownObtainDead
         \/ JoinsUnchanged
<1> USE DEF Location, IdleLoc, Sleeping, IdleAwake, Busy, Gone, deathVars
<1>0. /\ TypeOK /\ ListsMatchThreads /\ EachDeadWorkerHasOneJoiner
      /\ pc \in [Worker -> Location] /\ Counted(lists)
  BY Zenon, ListFacts DEF IInv, TypeOK
<1>1. ASSUME NEW w \in Worker, Created(w), UNCHANGED <<to_join, shutdown_join>>
      PROVE  JoinsUnchanged
  BY Zenon, <1>0, <1>1 DEF Created, JoinsUnchanged
<1>2. ASSUME NEW t \in Task, Run(t) PROVE JoinsUnchanged
  <2>1. pending_tasks + 1 \in Nat
    BY <1>0 DEF TypeOK
  <2>2. Woken \/ \E w \in Worker : Created(w)
    BY Zenon, <1>0, <1>2, <2>1, ScheduleEffect DEF Run
  <2>3. UNCHANGED <<to_join, shutdown_join>>
    BY Zenon, <1>2 DEF Run
  <2>4. Woken => JoinsUnchanged
    BY Zenon, <1>0, <2>3 DEF Woken, JoinsUnchanged
  <2> QED
    BY Zenon, <1>1, <2>2, <2>3, <2>4
<1>3. ASSUME NEW w \in Worker, MarkCurrentWorkerAsBlocked(w)
      PROVE  JoinsUnchanged
  <2>1. /\ UNCHANGED <<pc, lists>> \/ \E u \in Worker : CreateWorker(u)
        /\ UNCHANGED <<to_join, shutdown_join>>
    BY Zenon, <1>3 DEF MarkCurrentWorkerAsBlocked
  <2>2. UNCHANGED <<pc, lists>> => JoinsUnchanged
    BY Zenon, <1>0, <2>1 DEF JoinsUnchanged
  <2> QED
    BY Zenon, <1>0, <1>1, <2>1, <2>2, CreateEffect
<1>4. ASSUME NEW w \in Worker, BecomesIdle(w) PROVE JoinsUnchanged
  <2>1. /\ pc[w] = "done" /\ lists' = RunningToIdle(lists, w)
        /\ UNCHANGED <<to_join, shutdown_join>>
    BY Zenon, <1>4 DEF BecomesIdle
  <2>2. PICK x \in IdleLoc : pc' = [pc EXCEPT ![w] = x]
    BY Zenon, <1>4 DEF BecomesIdle
  <2>3. lists'.dead = lists.dead
    BY Zenon, <1>0, <2>1 DEF Counted, Lists, RunningToIdle
  <2>4. /\ pc'[w] \notin Gone /\ pc[w] \notin Gone
        /\ \A v \in Worker \ {w} : pc'[v] = pc[v]
    BY Zenon, <1>0, <2>1, <2>2
  <2> QED
    BY Zenon, <2>1, <2>3, <2>4 DEF JoinsUnchanged
<1>5. ASSUME NEW w \in Worker, LoopTakesTask(w) PROVE JoinsUnchanged
  <2>1. /\ pc[w] = "loop" /\ pc' = [pc EXCEPT ![w] = "task"]
        /\ lists' = IdleToRunning(lists, w)
        /\ UNCHANGED <<to_join, shutdown_join>>
    BY Zenon, <1>5 DEF LoopTakesTask, RemoveFirst
  <2>2. lists'.dead = lists.dead
    BY Zenon, <1>0, <2>1 DEF Counted, Lists, IdleToRunning
  <2>3. /\ pc'[w] \notin Gone /\ pc[w] \notin Gone
        /\ \A v \in Worker \ {w} : pc'[v] = pc[v]
    BY Zenon, <1>0, <2>1
  <2> QED
    BY Zenon, <2>1, <2>2, <2>3 DEF JoinsUnchanged
<1>6. ASSUME NEW w \in Worker,
             \/ IdleMove(w) \/ DoneTakesTask(w) \/ TaskReturns(w)
             \/ MarkCurrentWorkerAsUnBlocked(w)
      PROVE  JoinsUnchanged
  BY Zenon, <1>0, <1>6
     DEF IdleMove, DoneTakesTask, RemoveFirst, TaskReturns,
         MarkCurrentWorkerAsUnBlocked, JoinsUnchanged
<1>7. ASSUME Shutdown PROVE JoinsUnchanged
  <2>1. /\ UNCHANGED pc \/ NotifyAll(pc)
        /\ UNCHANGED <<lists, to_join, shutdown_join>>
    BY Zenon, <1>7 DEF Shutdown
  <2> QED
    BY Zenon, <1>0, <2>1 DEF NotifyAll, Wake, Waiters, JoinsUnchanged
<1>8. ASSUME \/ \E t \in Task : RunRefused(t)
             \/ ShutdownExitCheck \/ ShutdownSpuriousWakeup
             \/ ShutdownReturns
      PROVE  JoinsUnchanged
  BY Zenon, <1>8 DEF RunRefused, ShutdownExitCheck, ShutdownSpuriousWakeup,
              ShutdownReturns, JoinsUnchanged
<1> QED
  BY Zenon, <1>0, <1>2, <1>3, <1>4, <1>5, <1>6, <1>7, <1>8, StepCases

\* Every step keeps each dead worker in the list of one joiner.
LEMMA OneJoinerStep ==
  ASSUME IInv, Next
  PROVE  EachDeadWorkerHasOneJoiner'
<1> USE DEF EachDeadWorkerHasOneJoiner
<1>0. /\ EachDeadWorkerHasOneJoiner /\ JoinInv /\ TypeOK /\ ListsMatchThreads
      /\ pc \in [Worker -> Location] /\ Counted(lists)
      /\ to_join \in [Worker -> SUBSET Worker]
      /\ shutdown_join \in SUBSET Worker
      /\ lists.dead \in SUBSET Worker
  BY Zenon, ListFacts DEF IInv, TypeOK
<1>1. ASSUME NEW w \in Worker, Dies(w) PROVE EachDeadWorkerHasOneJoiner'
  <2>1. /\ pc[w] \notin Gone
        /\ pc' = [pc EXCEPT ![w] = "joining"]
        /\ to_join' = [to_join EXCEPT ![w] = @ \cup lists.dead]
        /\ lists'.dead = {w}
        /\ UNCHANGED shutdown_join
    BY Zenon, <1>0, <1>1, DeathEffect DEF Dies, IdleAwake, Gone
  <2>2. /\ w \notin lists.dead \cup shutdown_join
        /\ \A v \in Worker : w \notin to_join[v]
    BY Zenon, <1>0, <2>1
  <2>3. \A v \in Worker :
          to_join'[v] = IF v = w THEN to_join[v] \cup lists.dead
                                 ELSE to_join[v]
    BY ZenonT(30), <1>0, <2>1
  <2>4. \A d \in Worker :
          pc'[d] \in Gone <=> \/ d \in lists'.dead \cup shutdown_join'
                              \/ \E v \in Worker : d \in to_join'[v]
    BY <1>0, <2>1, <2>2, <2>3 DEF Gone
  <2> QED
    BY SMTT(30), <1>0, <2>1, <2>2, <2>3, <2>4
<1>2. ASSUME NEW w \in Worker, NEW d \in Worker, JoinDead(w, d)
      PROVE  EachDeadWorkerHasOneJoiner'
  <2>1. /\ d \in to_join[w]
        /\ pc' = [pc EXCEPT ![d] = "none"]
        /\ UNCHANGED <<lists, shutdown_join>>
        /\ \A v \in Worker :
             to_join'[v] = IF v = w THEN to_join[v] \ {d} ELSE to_join[v]
    BY Zenon, <1>0, <1>2 DEF JoinDead
  <2>2. \A e \in Worker :
          pc'[e] \in Gone <=> \/ e \in lists'.dead \cup shutdown_join'
                              \/ \E v \in Worker : e \in to_join'[v]
    <3>1. /\ pc'[d] = "none"
          /\ d \notin lists.dead \cup shutdown_join
          /\ \A v \in Worker : d \notin to_join'[v]
      BY Zenon, <1>0, <2>1
    <3>2. ASSUME NEW e \in Worker \ {d}
          PROVE  /\ pc'[e] = pc[e]
                 /\ \A v \in Worker : e \in to_join'[v] <=> e \in to_join[v]
      BY ZenonT(30), <1>0, <2>1
    <3> QED
      BY <1>0, <2>1, <3>1, <3>2 DEF Gone
  <2> QED
    BY ZenonT(30), <1>0, <2>1, <2>2
<1>3. ASSUME NEW d \in Worker, ShutdownJoinDead(d)
      PROVE  EachDeadWorkerHasOneJoiner'
  BY <1>0, <1>3 DEF ShutdownJoinDead, deathVars, Gone
<1>4. ASSUME NEW w \in Worker, ExitThread(w)
      PROVE  EachDeadWorkerHasOneJoiner'
  BY Zenon, <1>0, <1>4 DEF ExitThread, deathVars, Gone
<1>5. ASSUME ShutdownObtainDead PROVE EachDeadWorkerHasOneJoiner'
  <2>1. lists'.dead = {}
    BY Zenon, <1>0, <1>5 DEF ShutdownObtainDead, ObtainDead, Counted, Lists
  <2> QED
    BY Zenon, <1>0, <1>5, <2>1 DEF ShutdownObtainDead
<1>6. ASSUME JoinsUnchanged PROVE EachDeadWorkerHasOneJoiner'
  BY Zenon, <1>0, <1>6 DEF JoinsUnchanged
<1> QED
  BY Zenon, <1>1, <1>2, <1>3, <1>4, <1>5, <1>6, JoinFrame

\* Every step keeps the joins free of cycles.
LEMMA JoinStep ==
  ASSUME IInv, Next
  PROVE  JoinInv'
<1> DEFINE GoneSet == {w \in Worker : pc[w] \in Gone}
           Joined(S) == \E d \in S : \/ d \in lists.dead \cup shutdown_join
                                     \/ \E w \in Worker \ S : d \in to_join[w]
<1>0. /\ EachDeadWorkerHasOneJoiner /\ JoinInv /\ TypeOK /\ ListsMatchThreads
      /\ pc \in [Worker -> Location] /\ Counted(lists)
      /\ to_join \in [Worker -> SUBSET Worker]
  BY Zenon, ListFacts DEF IInv, TypeOK
<1>1. \A S \in SUBSET GoneSet : S # {} => Joined(S)
  BY Zenon, <1>0 DEF JoinInv
<1>2. (\A S \in SUBSET GoneSet' : S # {} => Joined(S)')
      /\ (\A w \in Worker : to_join'[w] # {} => pc'[w] = "joining")
      => JoinInv'
  BY Zenon DEF JoinInv
<1> HIDE DEF GoneSet
<1>3. ASSUME NEW w \in Worker, Dies(w) PROVE JoinInv'
  <2>1. /\ pc' = [pc EXCEPT ![w] = "joining"]
        /\ to_join' = [to_join EXCEPT ![w] = @ \cup lists.dead]
        /\ lists'.dead = {w}
        /\ UNCHANGED shutdown_join
    BY Zenon, <1>0, <1>3, DeathEffect DEF Dies
  <2>2. GoneSet' \subseteq GoneSet \cup {w}
    BY Zenon, <1>0, <2>1 DEF GoneSet
  <2>3. \A v \in Worker : /\ to_join[v] \subseteq to_join'[v]
                          /\ to_join'[v] # {} => pc'[v] = "joining"
    BY Zenon, <1>0, <2>1 DEF JoinInv
  <2>4. lists.dead \subseteq to_join'[w]
    BY Zenon, <1>0, <2>1
  <2>5. ASSUME NEW S \in SUBSET GoneSet', S # {} PROVE Joined(S)'
    <3>1. CASE w \in S
      BY Zenon, <2>1, <3>1
    <3>2. CASE w \notin S
      <4>1. Joined(S)
        BY <1>1, <2>2, <2>5, <3>2
      <4> QED
        BY Zenon, <2>1, <2>3, <2>4, <3>2, <4>1
    <3> QED
      BY Zenon, <3>1, <3>2
  <2> QED
    BY Zenon, <1>2, <2>3, <2>5
<1>4. ASSUME NEW w \in Worker, NEW d \in Worker, JoinDead(w, d)
      PROVE  JoinInv'
  <2>1. /\ pc[d] = "exited"
        /\ pc' = [pc EXCEPT ![d] = "none"]
        /\ UNCHANGED <<lists, shutdown_join>>
        /\ \A v \in Worker :
             to_join'[v] = IF v = w THEN to_join[v] \ {d} ELSE to_join[v]
    BY Zenon, <1>0, <1>4 DEF JoinDead
  <2>2. GoneSet' \subseteq GoneSet \ {d}
    BY Zenon, <1>0, <2>1 DEF GoneSet, Gone
  <2>3. \A v \in Worker : to_join'[v] # {} => pc'[v] = "joining"
    BY Zenon, <1>0, <2>1 DEF JoinInv
  <2>4. ASSUME NEW S \in SUBSET GoneSet', S # {} PROVE Joined(S)'
    <3>1. Joined(S) /\ d \notin S
      BY <1>1, <2>2, <2>4
    <3> QED
      BY ZenonT(30), <2>1, <3>1
  <2> QED
    BY Zenon, <1>2, <2>3, <2>4
<1>5. ASSUME NEW d \in Worker, ShutdownJoinDead(d) PROVE JoinInv'
  <2>1. /\ pc[d] = "exited"
        /\ pc' = [pc EXCEPT ![d] = "none"]
        /\ shutdown_join' = shutdown_join \ {d}
        /\ UNCHANGED <<lists, to_join>>
    BY Zenon, <1>5 DEF ShutdownJoinDead, deathVars
  <2>2. GoneSet' \subseteq GoneSet \ {d}
    BY Zenon, <1>0, <2>1 DEF GoneSet, Gone
  <2>3. \A v \in Worker : to_join'[v] # {} => pc'[v] = "joining"
    BY Zenon, <1>0, <2>1 DEF JoinInv
  <2>4. ASSUME NEW S \in SUBSET GoneSet', S # {} PROVE Joined(S)'
    <3>1. Joined(S) /\ d \notin S
      BY Zenon, <1>1, <2>2, <2>4
    <3> QED
      BY Zenon, <2>1, <3>1
  <2> QED
    BY Zenon, <1>2, <2>3, <2>4
<1>6. ASSUME \/ JoinsUnchanged
             \/ ShutdownObtainDead
             \/ \E w \in Worker : ExitThread(w)
      PROVE  JoinInv'
  <2>1. /\ GoneSet' \subseteq GoneSet
        /\ lists.dead \cup shutdown_join \subseteq
             lists'.dead \cup shutdown_join'
        /\ UNCHANGED to_join
        /\ \A v \in Worker : to_join'[v] # {} => pc'[v] = "joining"
    BY <1>0, <1>6
       DEF JoinInv, JoinsUnchanged, ShutdownObtainDead, ExitThread,
           deathVars, GoneSet, Gone
  <2>2. ASSUME NEW S \in SUBSET GoneSet', S # {} PROVE Joined(S)'
    <3>1. Joined(S)
      BY <1>1, <2>1, <2>2
    <3> QED
      BY Zenon, <2>1, <3>1
  <2> QED
    BY Zenon, <1>2, <2>1, <2>2
<1> QED
  BY Zenon, <1>3, <1>4, <1>5, <1>6, JoinFrame

\* Every step keeps each accepted task in one place.
LEMMA TaskStep ==
  ASSUME IInv, Next
  PROVE  TaskInv'
<1>0. /\ TypeOK /\ TaskInv
      /\ tasks \in Seq(Task)
      /\ task \in [Worker -> Task \cup {NoTask}]
      /\ NoTask \notin Task
  BY Zenon, ThreadPoolAssumption DEF IInv, TypeOK
<1>1. ASSUME NEW t \in Task, Run(t) PROVE TaskInv'
  <2>1. /\ t \notin Queued \cup finished
        /\ \A w \in Worker : task[w] # t
    BY Zenon, <1>0, <1>1 DEF Run, TaskInv
  <2>2. /\ tasks' = Append(tasks, t)
        /\ accepted' = accepted \cup {t}
        /\ UNCHANGED <<task, finished>>
    BY Zenon, <1>1 DEF Run
  <2>3. /\ Queued' = Queued \cup {t}
        /\ \A i, j \in DOMAIN tasks' : tasks'[i] = tasks'[j] => i = j
    BY <1>0, <2>1, <2>2 DEF TaskInv, Queued
  <2>4. \A w \in Worker : pc'[w] = "task" <=> pc[w] = "task"
    <3>1. \A w \in Worker : ~ LoopTakesTask(w) /\ ~ DoneTakesTask(w)
                            /\ ~ TaskReturns(w)
      BY Zenon, <1>0, <2>1, <2>2
         DEF LoopTakesTask, DoneTakesTask, TaskReturns, historyVars, TypeOK,
             TaskInv
    <3> QED
      BY Zenon, <3>1, TaskContinues
  <2> QED
    BY Zenon, <1>0, <2>1, <2>2, <2>3, <2>4 DEF TaskInv
<1>2. ASSUME NEW w \in Worker, LoopTakesTask(w) \/ DoneTakesTask(w)
      PROVE  TaskInv'
  <2>1. /\ tasks # <<>> /\ tasks' = Tail(tasks)
        /\ task' = [task EXCEPT ![w] = Head(tasks)]
        /\ pc' = [pc EXCEPT ![w] = "task"]
        /\ pc[w] # "task"
        /\ UNCHANGED <<accepted, finished>>
    BY Zenon, <1>2 DEF LoopTakesTask, DoneTakesTask, RemoveFirst, historyVars
  <2>2. task[w] = NoTask
    BY Zenon, <1>0, <2>1 DEF TaskInv
  <2>3. /\ Head(tasks) \in Task
        /\ Queued = Queued' \cup {Head(tasks)}
        /\ Head(tasks) \notin Queued'
        /\ \A i, j \in DOMAIN tasks' : tasks'[i] = tasks'[j] => i = j
    <3>1. /\ Len(tasks) \in Nat \ {0}
          /\ DOMAIN tasks = 1 .. Len(tasks)
          /\ Head(tasks) = tasks[1]
          /\ DOMAIN tasks' = 1 .. (Len(tasks) - 1)
          /\ \A i \in DOMAIN tasks' : tasks'[i] = tasks[i + 1]
      BY <1>0, <2>1
    <3>2. Head(tasks) \in Task
      BY <1>0, <2>1
    <3>3. \A t : t \in Queued <=> t \in Queued' \cup {Head(tasks)}
      <4>1. \A i \in DOMAIN tasks : i = 1 \/ i - 1 \in DOMAIN tasks'
        BY <3>1
      <4>2. \A i \in DOMAIN tasks' : i + 1 \in DOMAIN tasks
        BY <3>1
      <4>3. \A i \in DOMAIN tasks : i = 1 \/ tasks[i] = tasks'[i - 1]
        BY <3>1, <4>1
      <4> QED
        BY <3>1, <4>1, <4>2, <4>3 DEF Queued
    <3>4. Head(tasks) \notin Queued'
      BY <1>0, <3>1 DEF TaskInv, Queued
    <3>5. \A i, j \in DOMAIN tasks' : tasks'[i] = tasks'[j] => i = j
      BY <1>0, <3>1 DEF TaskInv
    <3> QED
      BY Zenon, <3>2, <3>3, <3>4, <3>5
  <2>4. \A v \in Worker :
          /\ pc'[v] = IF v = w THEN "task" ELSE pc[v]
          /\ task'[v] = IF v = w THEN Head(tasks) ELSE task[v]
    BY Zenon, <1>0, <2>1 DEF TypeOK
  <2>5. \A t \in Task : t \in accepted' <=>
                          \/ t \in Queued' \cup finished'
                          \/ \E v \in Worker : task'[v] = t
    BY SMTT(30), <1>0, <2>1, <2>2, <2>3, <2>4 DEF TaskInv
  <2> QED
    BY <1>0, <2>1, <2>2, <2>3, <2>4, <2>5 DEF TaskInv
<1>3. ASSUME NEW w \in Worker, TaskReturns(w) PROVE TaskInv'
  <2>1. /\ pc[w] = "task"
        /\ finished' = finished \cup {task[w]}
        /\ UNCHANGED <<tasks, accepted>>
        /\ \A v \in Worker :
             /\ pc'[v] = IF v = w THEN "done" ELSE pc[v]
             /\ task'[v] = IF v = w THEN NoTask ELSE task[v]
    BY Zenon, <1>0, <1>3 DEF TaskReturns, queueVars, TypeOK
  <2>2. Queued' = Queued /\ NoTask \notin Queued
    BY <1>0, <2>1 DEF Queued
  <2>3. \A t \in Task : t \in accepted' <=>
                          \/ t \in Queued' \cup finished'
                          \/ \E v \in Worker : task'[v] = t
    BY Zenon, <1>0, <2>1, <2>2 DEF TaskInv
  <2> QED
    BY <1>0, <2>1, <2>2, <2>3 DEF TaskInv
<1>4. ASSUME UNCHANGED <<tasks, pending_tasks, task, accepted, finished>>,
             \A w \in Worker : ~ LoopTakesTask(w) /\ ~ DoneTakesTask(w)
                               /\ ~ TaskReturns(w)
      PROVE  TaskInv'
  <2>1. \A w \in Worker : pc'[w] = "task" <=> pc[w] = "task"
    BY Zenon, <1>4, TaskContinues
  <2> QED
    BY SMTT(30), <1>0, <1>4, <2>1 DEF TaskInv, Queued
<1> QED
  BY Zenon, <1>0, <1>1, <1>2, <1>3, <1>4, Frames

\* Every step keeps Shutdown's progress and the two flags in accord.
LEMMA PhaseStep ==
  ASSUME IInv, Next
  PROVE  PhaseInv'
<1>0. /\ TypeOK /\ ListsMatchThreads /\ EachDeadWorkerHasOneJoiner
      /\ PhaseInv /\ Counted(lists)
      /\ all_workers_dead \in BOOLEAN /\ shutting_down \in BOOLEAN
      /\ shutdown \in ShutdownLocation
  BY Zenon, ListFacts DEF IInv, TypeOK
<1>1. ASSUME NEW w \in Worker, pc[w] \in IdleLoc \cup Busy
      PROVE  /\ ~ all_workers_dead
             /\ shutdown \in {"no", "exitCheck", "exitWait"}
  <2>1. ~ all_workers_dead
    BY Zenon, <1>0, <1>1, ListFacts DEF PhaseInv, NoLiveWorker
  <2> QED
    BY Zenon, <1>0, <2>1 DEF PhaseInv, ShutdownLocation
<1>2. ASSUME ~ all_workers_dead,
             UNCHANGED <<shutting_down, all_workers_dead, shutdown>>
      PROVE  PhaseInv'
  BY Zenon, <1>0, <1>2 DEF PhaseInv, ShutdownLocation
<1>3. ASSUME NEW t \in Task, Run(t) PROVE PhaseInv'
  BY Zenon, <1>0, <1>2, <1>3 DEF Run, deathVars, PhaseInv
<1>4. ASSUME NEW w \in Worker, Dies(w) PROVE PhaseInv'
  <2>1. /\ pc[w] \in IdleLoc \cup Busy
        /\ UNCHANGED <<tasks, shutting_down>>
        /\ tasks = <<>>
        /\ \/ /\ shutting_down
              /\ lists'.idle = {} /\ lists'.running = {}
              /\ all_workers_dead' = TRUE
              /\ shutdown' = IF shutdown = "exitWait" THEN "exitCheck"
                                                      ELSE shutdown
           \/ UNCHANGED <<all_workers_dead, shutdown>>
    BY ZenonT(30), <1>0, <1>4, DeathEffect DEF Dies, queueVars, IdleLoc, Busy
  <2>2. /\ ~ all_workers_dead
        /\ shutdown \in {"no", "exitCheck", "exitWait"}
    BY Zenon, <1>1, <2>1
  <2> QED
    BY SMTT(30), <1>0, <2>1, <2>2 DEF PhaseInv, NoLiveWorker
<1>5. ASSUME NEW w \in Worker,
             \/ BecomesIdle(w) \/ IdleMove(w) \/ LoopTakesTask(w)
             \/ DoneTakesTask(w) \/ TaskReturns(w)
             \/ MarkCurrentWorkerAsBlocked(w)
             \/ MarkCurrentWorkerAsUnBlocked(w)
      PROVE  PhaseInv'
  <2>1. /\ pc[w] \in IdleLoc \cup Busy
        /\ UNCHANGED <<shutting_down, all_workers_dead, shutdown>>
    BY Zenon, <1>5
       DEF BecomesIdle, IdleMove, LoopTakesTask, DoneTakesTask, TaskReturns,
           MarkCurrentWorkerAsBlocked, MarkCurrentWorkerAsUnBlocked,
           deathVars, IdleLoc, Sleeping, IdleAwake, Busy
  <2> QED
    BY Zenon, <1>1, <1>2, <2>1
<1>6. ASSUME \/ \E t \in Task : RunRefused(t)
             \/ \E w \in Worker : \/ ExitThread(w)
                                  \/ \E d \in Worker : JoinDead(w, d)
             \/ ShutdownExitCheck \/ ShutdownSpuriousWakeup
             \/ ShutdownReturns
      PROVE  PhaseInv'
  <2>1. UNCHANGED <<lists, shutting_down, all_workers_dead, shutdown_join,
                    tasks>>
    BY Zenon, <1>6
       DEF RunRefused, ExitThread, JoinDead, ShutdownExitCheck,
           ShutdownSpuriousWakeup, ShutdownReturns, deathVars, queueVars
  <2>2. \/ UNCHANGED shutdown
        \/ shutdown = "exitCheck" /\ shutdown' = IF all_workers_dead
                                                 THEN "collect"
                                                 ELSE "exitWait"
        \/ shutdown = "exitWait" /\ shutdown' = "exitCheck"
        \/ shutdown = "join" /\ shutdown' = "returned" /\ shutdown_join = {}
    BY Zenon, <1>6
       DEF RunRefused, ExitThread, JoinDead, ShutdownExitCheck,
           ShutdownSpuriousWakeup, ShutdownReturns, deathVars
  <2> QED
    BY Zenon, <1>0, <2>1, <2>2 DEF PhaseInv, NoLiveWorker
<1>7. ASSUME Shutdown PROVE PhaseInv'
  <2>1. ~ shutting_down /\ ~ all_workers_dead
    BY Zenon, <1>0, <1>7 DEF Shutdown, PhaseInv
  <2>2. NoLiveWorker(lists) => tasks = <<>>
    <3> SUFFICES ASSUME NoLiveWorker(lists), tasks # <<>> PROVE FALSE
      BY Zenon
    <3>1. AwakeIdle \cup Unblocked = {}
      BY Zenon, <1>0, ListFacts
         DEF NoLiveWorker, AwakeIdle, Unblocked, IdleLoc, Busy
    <3> QED
      BY Zenon, <3>1 DEF IInv, SomeWorkerWillLook
  <2> QED
    BY ZenonT(30), <1>0, <1>7, <2>1, <2>2
       DEF Shutdown, queueVars, PhaseInv, NoLiveWorker
<1>8. ASSUME ShutdownObtainDead PROVE PhaseInv'
  <2>1. /\ lists'.idle = lists.idle /\ lists'.running = lists.running
        /\ lists'.dead = {}
    BY Zenon, <1>0, <1>8 DEF ShutdownObtainDead, ObtainDead, Counted, Lists
  <2> QED
    BY Zenon, <1>0, <1>8, <2>1
       DEF ShutdownObtainDead, queueVars, PhaseInv, NoLiveWorker
<1>9. ASSUME NEW d \in Worker, ShutdownJoinDead(d) PROVE PhaseInv'
  BY Zenon, <1>0, <1>9
     DEF ShutdownJoinDead, deathVars, queueVars, PhaseInv, NoLiveWorker
<1> QED
  BY Zenon, <1>0, <1>3, <1>4, <1>5, <1>6, <1>7, <1>8, <1>9, StepCases

\* No step loses a wakeup or leaves the queue to blocked workers.
LEMMA CoverStep ==
  ASSUME IInv, Next
  PROVE  EveryTaskHasAWorker' /\ SomeWorkerWillLook'
<1> USE DEF Location, IdleLoc, Sleeping, IdleAwake, Busy, Gone
<1>0. /\ TypeOK /\ ListsMatchThreads /\ EachDeadWorkerHasOneJoiner
      /\ EveryTaskHasAWorker /\ SomeWorkerWillLook /\ LimitCountsBlocked
      /\ pc \in [Worker -> Location] /\ tasks \in Seq(Task)
      /\ MaxPoolSize \in Nat /\ max_pool_size \in Nat
      /\ pending_tasks = Len(tasks) /\ blocked \in SUBSET Worker
  BY Zenon, ThreadPoolAssumption DEF IInv, TypeOK, ListsMatchThreads
<1>1. \A S \in SUBSET Worker : /\ IsFiniteSet(S) /\ Cardinality(S) \in Nat
                               /\ Cardinality(S) = 0 <=> S = {}
                               /\ \A T \in SUBSET S : /\ T \in SUBSET Worker
                                    /\ Cardinality(T) \in Nat
                                    /\ Cardinality(T) <= Cardinality(S)
  BY Zenon, ThreadPoolAssumption, FS_Subset, FS_CardinalityType, FS_EmptySet
<1>2. /\ AwakeIdle \in SUBSET Worker /\ AwakeIdle' \in SUBSET Worker
      /\ Unblocked \in SUBSET Worker
      /\ lists.idle = AwakeIdle \cup Waiters(pc)
      /\ Waiters(pc) = {} => lists.idle = AwakeIdle
      /\ lists.running \in SUBSET Worker
      /\ Unblocked = lists.running \ blocked
      /\ lists.count_idle = Cardinality(lists.idle)
      /\ lists.count_running = Cardinality(lists.running)
  BY Zenon, <1>0 DEF AwakeIdle, Unblocked, Waiters, ListsMatchThreads
<1>3. ASSUME tasks' = <<>> PROVE EveryTaskHasAWorker' /\ SomeWorkerWillLook'
  BY SMTT(30), <1>1, <1>2, <1>3 DEF EveryTaskHasAWorker, SomeWorkerWillLook
<1>4. ASSUME AwakeIdle \subseteq AwakeIdle', Waiters(pc') \subseteq Waiters(pc),
             UNCHANGED tasks
      PROVE  EveryTaskHasAWorker'
  <2>1. Cardinality(AwakeIdle) <= Cardinality(AwakeIdle')
    BY Zenon, <1>1, <1>2, <1>4
  <2> QED
    BY SMTT(30), <1>0, <1>1, <1>2, <1>4, <2>1 DEF EveryTaskHasAWorker
<1>5. ASSUME AwakeIdle \cup Unblocked \subseteq AwakeIdle' \cup Unblocked',
             UNCHANGED tasks
      PROVE  SomeWorkerWillLook'
  BY Zenon, <1>0, <1>5 DEF SomeWorkerWillLook
<1>6. ASSUME NEW t \in Task, Run(t)
      PROVE  EveryTaskHasAWorker' /\ SomeWorkerWillLook'
  <2>1. /\ tasks' = Append(tasks, t) /\ Len(tasks') = Len(tasks) + 1
        /\ Len(tasks) \in Nat
        /\ tasks' # <<>> /\ UNCHANGED blocked
    BY <1>0, <1>6 DEF Run, limitVars
  <2>2. ASSUME NEW v \in Worker, pc[v] \in Sleeping, NEW x \in IdleAwake,
               pc' = [pc EXCEPT ![v] = x]
        PROVE  EveryTaskHasAWorker' /\ SomeWorkerWillLook'
    <3>1. /\ v \notin AwakeIdle /\ AwakeIdle' = AwakeIdle \cup {v}
          /\ v \in Waiters(pc)
      BY Zenon, <1>0, <2>2 DEF AwakeIdle, Waiters
    <3>2. Cardinality(AwakeIdle') = Cardinality(AwakeIdle) + 1
      BY Zenon, <1>2, <3>1, CountAdd
    <3>3. Cardinality(AwakeIdle) >= Len(tasks)
      BY Zenon, <1>0, <3>1 DEF EveryTaskHasAWorker
    <3>4. Cardinality(AwakeIdle') >= Len(tasks')
      BY <1>1, <1>2, <2>1, <3>2, <3>3
    <3> QED
      BY Zenon, <3>1, <3>4 DEF EveryTaskHasAWorker, SomeWorkerWillLook
  <2>3. ASSUME NEW v \in Worker, Created(v)
        PROVE  EveryTaskHasAWorker' /\ SomeWorkerWillLook'
    <3>1. /\ v \notin AwakeIdle /\ AwakeIdle' = AwakeIdle \cup {v}
          /\ Waiters(pc') = Waiters(pc)
      BY Zenon, <1>0, <2>3 DEF Created, AwakeIdle, Waiters
    <3>2. Cardinality(AwakeIdle') = Cardinality(AwakeIdle) + 1
      BY Zenon, <1>2, <3>1, CountAdd
    <3>3. \/ Cardinality(AwakeIdle') >= Len(tasks')
          \/ MaxPoolSize > 0 /\ Waiters(pc') = {}
      BY <1>0, <1>1, <1>2, <2>1, <3>1, <3>2 DEF EveryTaskHasAWorker
    <3> QED
      BY Zenon, <3>1, <3>3 DEF EveryTaskHasAWorker, SomeWorkerWillLook
  <2>4. ASSUME pc' = pc, Waiters(pc) = {},
               \/ lists.count_idle >= pending_tasks + 1
               \/ max_pool_size > 0
                  /\ lists.count_idle + lists.count_running >= max_pool_size
        PROVE  EveryTaskHasAWorker' /\ SomeWorkerWillLook'
    <3>0. /\ AwakeIdle' = AwakeIdle /\ Unblocked' = Unblocked
          /\ lists.idle = AwakeIdle
      BY Zenon, <1>2, <2>1, <2>4 DEF AwakeIdle, Unblocked
    <3>4. lists.count_idle = Cardinality(AwakeIdle)
      BY Zenon, <1>2, <3>0
    <3>5. Cardinality(AwakeIdle) \in Nat
      BY Zenon, <1>1, <1>2
    <3>1. AwakeIdle' = AwakeIdle /\ Unblocked' = Unblocked
          /\ lists.count_idle = Cardinality(AwakeIdle)
          /\ Cardinality(AwakeIdle) \in Nat
      BY Zenon, <3>0, <3>4, <3>5
    <3>2. CASE lists.count_idle >= pending_tasks + 1
      <4>1. Cardinality(AwakeIdle) >= Len(tasks') /\ Cardinality(AwakeIdle) # 0
        BY <1>0, <2>1, <3>1, <3>2
      <4> QED
        BY Zenon, <1>1, <1>2, <3>1, <4>1
           DEF EveryTaskHasAWorker, SomeWorkerWillLook
    <3>3. CASE max_pool_size > 0
               /\ lists.count_idle + lists.count_running >= max_pool_size
      <4>1. MaxPoolSize > 0
            /\ max_pool_size = MaxPoolSize + Cardinality(blocked)
        BY <1>0, <3>3 DEF LimitCountsBlocked
      <4>2. ASSUME AwakeIdle = {}, Unblocked = {} PROVE FALSE
        <5>1. lists.running \in SUBSET blocked /\ lists.count_idle = 0
          BY Zenon, <1>1, <1>2, <3>1, <4>2
        <5>2. /\ Cardinality(lists.running) <= Cardinality(blocked)
              /\ Cardinality(lists.running) \in Nat
              /\ Cardinality(blocked) \in Nat
          BY Zenon, <1>0, <1>1, <5>1
        <5> QED
          BY SMTT(30), <1>0, <1>2, <3>3, <4>1, <5>1, <5>2
      <4> QED
        BY Zenon, <2>4, <3>1, <4>1, <4>2
           DEF EveryTaskHasAWorker, SomeWorkerWillLook
    <3> QED
      BY Zenon, <2>4, <3>2, <3>3
  <2>5. \/ /\ Woken
           /\ \/ lists.count_idle >= pending_tasks + 1
              \/ max_pool_size > 0
                 /\ lists.count_idle + lists.count_running >= max_pool_size
        \/ \E w \in Worker : Created(w)
    <3>1. pending_tasks + 1 \in Nat
      BY <1>0
    <3> QED
      BY Zenon, <1>0, <1>6, <3>1, ScheduleEffect DEF Run
  <2> QED
    BY Zenon, <2>2, <2>3, <2>4, <2>5 DEF Woken
<1>7. ASSUME NEW w \in Worker, IdleMove(w)
      PROVE  EveryTaskHasAWorker' /\ SomeWorkerWillLook'
  <2>1. tasks' = tasks /\ UNCHANGED blocked
    BY Zenon, <1>7 DEF IdleMove, queueVars, limitVars
  <2>2. PICK x \in IdleLoc : /\ x \in IdleAwake \/ tasks = <<>>
                             /\ pc' = [pc EXCEPT ![w] = x]
    BY Zenon, <1>7 DEF IdleMove
  <2>3. CASE x \in IdleAwake
    <3>1. /\ AwakeIdle \subseteq AwakeIdle' /\ Unblocked' = Unblocked
          /\ Waiters(pc') \subseteq Waiters(pc)
      BY Zenon, <1>0, <1>7, <2>1, <2>2, <2>3
         DEF IdleMove, AwakeIdle, Unblocked, Waiters
    <3> QED
      BY Zenon, <1>4, <1>5, <2>1, <3>1
  <2> QED
    BY Zenon, <1>3, <2>1, <2>2, <2>3
<1>8. ASSUME NEW w \in Worker, LoopTakesTask(w) \/ DoneTakesTask(w)
      PROVE  EveryTaskHasAWorker' /\ SomeWorkerWillLook'
  <2>1. /\ tasks # <<>> /\ tasks' = Tail(tasks)
        /\ pc[w] \in {"loop", "done"}
        /\ pc' = [pc EXCEPT ![w] = "task"]
        /\ UNCHANGED blocked
    BY Zenon, <1>8 DEF LoopTakesTask, DoneTakesTask, RemoveFirst, limitVars
  <2>2. /\ Len(tasks') = Len(tasks) - 1 /\ Len(tasks) \in Nat
        /\ Waiters(pc') = Waiters(pc)
        /\ AwakeIdle' = AwakeIdle \ {w}
        /\ w \in Unblocked'
    BY <1>0, <2>1
       DEF AwakeIdle, Waiters, Unblocked, LimitCountsBlocked
  <2>3. Cardinality(AwakeIdle') >= Cardinality(AwakeIdle) - 1
    <3>1. CASE w \in AwakeIdle
      BY SMTT(30), <1>1, <1>2, <2>2, <3>1, CountAdd
    <3>2. CASE w \notin AwakeIdle
      <4>1. AwakeIdle' = AwakeIdle
        BY Zenon, <2>2, <3>2
      <4> QED
        BY <1>1, <1>2, <4>1
    <3> QED
      BY Zenon, <3>1, <3>2
  <2> QED
    BY <1>0, <1>1, <1>2, <2>2, <2>3
       DEF EveryTaskHasAWorker, SomeWorkerWillLook
<1>9. ASSUME NEW w \in Worker, MarkCurrentWorkerAsBlocked(w)
      PROVE  EveryTaskHasAWorker' /\ SomeWorkerWillLook'
  <2>1. /\ UNCHANGED tasks
        /\ \/ UNCHANGED <<pc, lists>>
              /\ (max_pool_size = 0 \/ lists.idle # {} \/ tasks = <<>>)
           \/ \E v \in Worker : CreateWorker(v)
    BY <1>0, <1>9 DEF MarkCurrentWorkerAsBlocked, queueVars
  <2>2. ASSUME NEW v \in Worker, CreateWorker(v)
        PROVE  EveryTaskHasAWorker' /\ SomeWorkerWillLook'
    <3>1. /\ AwakeIdle \subseteq AwakeIdle' /\ v \in AwakeIdle'
          /\ Waiters(pc') \subseteq Waiters(pc)
      BY Zenon, <1>0, <2>2 DEF CreateWorker, AwakeIdle, Waiters
    <3> QED
      BY Zenon, <1>4, <2>1, <3>1 DEF SomeWorkerWillLook
  <2>3. ASSUME UNCHANGED <<pc, lists>>, tasks # <<>>,
               max_pool_size = 0 \/ lists.idle # {}
        PROVE  EveryTaskHasAWorker' /\ SomeWorkerWillLook'
    <3>1. AwakeIdle' = AwakeIdle /\ Waiters(pc') = Waiters(pc)
      BY Zenon, <2>3 DEF AwakeIdle, Waiters
    <3>2. AwakeIdle # {}
      <4>1. CASE Cardinality(AwakeIdle) >= Len(tasks)
        <5>1. Len(tasks) > 0 /\ Len(tasks) \in Nat
          BY <1>0, <2>3
        <5> QED
          BY <1>1, <1>2, <4>1, <5>1
      <4>2. CASE MaxPoolSize > 0 /\ Waiters(pc) = {}
        <5>1. max_pool_size # 0
          BY <1>0, <1>1, <4>2 DEF LimitCountsBlocked
        <5> QED
          BY Zenon, <1>2, <2>3, <4>2, <5>1
      <4> QED
        BY Zenon, <1>0, <4>1, <4>2 DEF EveryTaskHasAWorker
    <3> QED
      BY Zenon, <1>4, <2>1, <3>1, <3>2 DEF SomeWorkerWillLook
  <2> QED
    BY Zenon, <1>3, <2>1, <2>2, <2>3
<1>10. ASSUME NEW w \in Worker,
              \/ TaskReturns(w) \/ MarkCurrentWorkerAsUnBlocked(w)
              \/ ExitThread(w) \/ ShutdownJoinDead(w)
              \/ \E d \in Worker : JoinDead(w, d)
       PROVE  EveryTaskHasAWorker' /\ SomeWorkerWillLook'
  <2>1. /\ AwakeIdle \subseteq AwakeIdle'
        /\ Waiters(pc') \subseteq Waiters(pc)
        /\ Unblocked \subseteq Unblocked'
        /\ UNCHANGED tasks
    BY Zenon, <1>0, <1>10
       DEF TaskReturns, MarkCurrentWorkerAsUnBlocked, ExitThread, JoinDead,
           ShutdownJoinDead, queueVars, limitVars, AwakeIdle, Waiters,
           Unblocked
  <2> QED
    BY Zenon, <1>4, <1>5, <2>1
<1>11. ASSUME Shutdown PROVE EveryTaskHasAWorker' /\ SomeWorkerWillLook'
  <2>1. /\ UNCHANGED pc \/ NotifyAll(pc)
        /\ UNCHANGED <<tasks, blocked>>
    BY Zenon, <1>11 DEF Shutdown, queueVars, limitVars
  <2>2. /\ AwakeIdle \subseteq AwakeIdle'
        /\ Waiters(pc') \subseteq Waiters(pc)
        /\ Unblocked \subseteq Unblocked'
    BY Zenon, <1>0, <2>1 DEF NotifyAll, Wake, AwakeIdle, Waiters, Unblocked
  <2> QED
    BY Zenon, <1>4, <1>5, <2>1, <2>2
<1>12. ASSUME NEW w \in Worker, BecomesIdle(w) \/ Dies(w)
       PROVE  EveryTaskHasAWorker' /\ SomeWorkerWillLook'
  BY Zenon, <1>3, <1>12 DEF BecomesIdle, Dies, queueVars
<1>13. ASSUME \/ \E t \in Task : RunRefused(t)
              \/ ShutdownExitCheck \/ ShutdownSpuriousWakeup
              \/ ShutdownObtainDead \/ ShutdownReturns
       PROVE  EveryTaskHasAWorker' /\ SomeWorkerWillLook'
  <2>1. UNCHANGED <<pc, tasks, blocked>>
    BY Zenon, <1>13 DEF RunRefused, ShutdownExitCheck, ShutdownSpuriousWakeup,
                 ShutdownObtainDead, ShutdownReturns, queueVars, limitVars
  <2>2. AwakeIdle' = AwakeIdle /\ Unblocked' = Unblocked
        /\ Waiters(pc') = Waiters(pc)
    BY Zenon, <2>1 DEF AwakeIdle, Unblocked, Waiters
  <2> QED
    BY Zenon, <1>4, <1>5, <2>1, <2>2
<1> QED
  BY Zenon, <1>0, <1>6, <1>7, <1>8, <1>9, <1>10, <1>11, <1>12, <1>13, StepCases

-----------------------------------------------------------------------------
(* The theorems.                                                           *)

\* The invariant holds in every reachable state of the pool.
THEOREM Invariant == Spec => []IInv
<1>1. Init => IInv
  <2> SUFFICES ASSUME Init PROVE IInv
    BY Zenon
  <2>1. Cardinality({}) = 0
    BY Zenon, FS_EmptySet
  <2>2. TypeOK /\ ListsMatchThreads
    <3>1. lists \in [idle : SUBSET Worker, running : SUBSET Worker,
                     dead : SUBSET Worker, count_idle : Nat,
                     count_running : Nat, count_dead : Nat]
      BY Zenon DEF Init
    <3>2. TypeOK
      <4>1. pc \in [Worker -> Location] /\ shutdown \in ShutdownLocation
        BY Zenon DEF Init, Location, ShutdownLocation
      <4>2. /\ task \in [Worker -> Task \cup {NoTask}]
            /\ to_join \in [Worker -> SUBSET Worker]
        BY Zenon DEF Init
      <4>3. /\ tasks \in Seq(Task)
            /\ pending_tasks \in Nat
            /\ max_pool_size \in Nat
        BY ThreadPoolAssumption DEF Init
      <4> QED
        BY ZenonT(30), <3>1, <4>1, <4>2, <4>3 DEF Init, TypeOK
    <3>3. ListsMatchThreads
      BY Zenon, <2>1 DEF Init, ListsMatchThreads, Sleeping, IdleAwake, Busy
    <3> QED
      BY Zenon, <3>2, <3>3
  <2>3. SomeWorkerWillLook /\ LimitCountsBlocked /\ PhaseInv
    BY <2>1, ThreadPoolAssumption
       DEF Init, SomeWorkerWillLook, LimitCountsBlocked, PhaseInv
  <2>4. EveryTaskHasAWorker
    <3>1. AwakeIdle = {}
      BY Zenon DEF Init, AwakeIdle, IdleAwake
    <3> QED
      BY <2>1, <3>1 DEF Init, EveryTaskHasAWorker
  <2>5. EachDeadWorkerHasOneJoiner /\ TaskInv /\ JoinInv
    BY ThreadPoolAssumption
       DEF Init, EachDeadWorkerHasOneJoiner, TaskInv, JoinInv, Queued, Gone
  <2> QED
    BY Zenon, <2>2, <2>3, <2>4, <2>5 DEF IInv
<1>2. IInv /\ [Next]_vars => IInv'
  <2> SUFFICES ASSUME IInv, [Next]_vars PROVE IInv'
    BY Zenon
  <2>1. CASE Next
    BY Zenon, <2>1, TypeStep, LimitStep, OneJoinerStep, JoinStep, TaskStep,
       PhaseStep, CoverStep DEF IInv
  <2>2. CASE UNCHANGED vars
    <3> USE <2>2 DEF vars, queueVars, limitVars, deathVars, historyVars, IInv
    <3>1. TypeOK' /\ ListsMatchThreads'
      BY Zenon DEF TypeOK, ListsMatchThreads
    <3>2. EveryTaskHasAWorker' /\ SomeWorkerWillLook'
      BY Zenon
         DEF EveryTaskHasAWorker, SomeWorkerWillLook, AwakeIdle, Unblocked,
             Waiters
    <3>3. LimitCountsBlocked' /\ PhaseInv'
      BY Zenon DEF LimitCountsBlocked, PhaseInv, NoLiveWorker
    <3>4. EachDeadWorkerHasOneJoiner' /\ JoinInv'
      <4>1. pc' = pc /\ lists' = lists /\ to_join' = to_join
            /\ shutdown_join' = shutdown_join
        BY Zenon
      <4>2. EachDeadWorkerHasOneJoiner' = EachDeadWorkerHasOneJoiner
        BY ONLY <4>1 DEF EachDeadWorkerHasOneJoiner
      <4>3. JoinInv' = JoinInv
        BY ONLY <4>1, SMTT(30) DEF JoinInv
      <4> QED
        BY Zenon, <4>2, <4>3
    <3>5. TaskInv'
      BY DEF TaskInv, Queued
    <3> QED
      BY Zenon, <3>1, <3>2, <3>3, <3>4, <3>5
  <2> QED
    BY Zenon, <2>1, <2>2
<1> QED
  BY <1>1, <1>2, PTL DEF Spec

\* Every variable of the pool keeps its type; no counter goes below zero.
THEOREM TypeCorrect == Spec => []TypeOK
BY Invariant, PTL DEF IInv

\* The lists, counters and pending_tasks_ always agree with the threads.
THEOREM ListsCorrect == Spec => []ListsMatchThreads
BY Invariant, PTL DEF IInv

\* No wakeup is lost between ScheduleTaskLocked and a worker going to sleep.
THEOREM NoLostWakeup == Spec => []EveryTaskHasAWorker
BY Invariant, PTL DEF IInv

\* A queued task never waits for blocked workers only.
THEOREM BlockedWorkersAreReplaced == Spec => []SomeWorkerWillLook
BY Invariant, PTL DEF IInv

\* MarkCurrentWorkerAsBlocked and AsUnBlocked keep max_pool_size_ exact.
THEOREM LimitCorrect == Spec => []LimitCountsBlocked
BY Invariant, PTL DEF IInv

\* Every dead worker is joined by exactly one thread.
THEOREM OneJoiner == Spec => []EachDeadWorkerHasOneJoiner
BY Invariant, PTL DEF IInv

\* Shutdown returns only when all accepted tasks have finished.
THEOREM ShutdownIsComplete == Spec => []ShutdownDrains
<1>1. IInv => ShutdownDrains
  <2> SUFFICES ASSUME IInv, shutdown = "returned"
               PROVE  finished = accepted
    BY Zenon DEF IInv, PhaseInv, ShutdownDrains
  <2>1. tasks = <<>> /\ lists.running = {}
    BY Zenon DEF IInv, PhaseInv, NoLiveWorker
  <2>2. \A w \in Worker : task[w] = NoTask
    BY Zenon, <2>1 DEF IInv, TaskInv, ListsMatchThreads, Busy
  <2>3. Queued = {}
    BY SMTT(30), <2>1 DEF Queued
  <2>4. \A t \in Task : t \in accepted <=> t \in finished
    BY Zenon, <2>2, <2>3, ThreadPoolAssumption DEF IInv, TaskInv
  <2> QED
    BY Zenon, <2>4 DEF IInv, TypeOK
<1> QED
  BY <1>1, Invariant, PTL

\* Shutdown returns only when every worker thread was joined and deleted.
THEOREM ShutdownLeavesNoThread == Spec => []ShutdownJoinsAll
<1>1. IInv => ShutdownJoinsAll
  <2> SUFFICES ASSUME IInv, shutdown = "returned"
               PROVE  \A w \in Worker : pc[w] = "none"
    BY Zenon DEF ShutdownJoinsAll
  <2>1. /\ lists.dead \cup shutdown_join = {}
        /\ lists.idle = {} /\ lists.running = {}
    BY Zenon DEF IInv, PhaseInv, NoLiveWorker
  <2> DEFINE S == {w \in Worker : pc[w] \in Gone}
  <2>2. S = {}
    <3>1. ASSUME S # {} PROVE FALSE
      <4>1. PICK d \in S, w \in Worker \ S : d \in to_join[w]
        BY Zenon, <2>1, <3>1 DEF IInv, JoinInv
      <4> QED
        BY Zenon, <4>1 DEF IInv, JoinInv, Gone
    <3> QED
      BY Zenon, <3>1
  <2> QED
    BY Zenon, <2>1, <2>2 DEF IInv, TypeOK, ListsMatchThreads, Location
<1> QED
  BY <1>1, Invariant, PTL

\* Once all workers are dead no step creates a worker again.
THEOREM DeadForever == Spec => DeadPoolStaysDead
<1>1. /\ IInv /\ IInv' /\ [Next]_vars
      => [all_workers_dead => all_workers_dead' /\ NoLiveWorker(lists')]_vars
  <2> SUFFICES ASSUME IInv, IInv', Next, all_workers_dead
               PROVE  all_workers_dead'
    BY ZenonT(30) DEF IInv, PhaseInv
  <2>1. /\ TypeOK /\ ListsMatchThreads /\ EachDeadWorkerHasOneJoiner
        /\ shutdown # "no"
    BY Zenon DEF IInv, PhaseInv
  <2>2. ASSUME NEW w \in Worker, Dies(w) PROVE all_workers_dead'
    BY ZenonT(30), <2>1, <2>2, DeathEffect
  <2> QED
    BY ZenonT(30), <2>1, <2>2, StepCases
       DEF deathVars, Run, RunRefused, IdleMove, BecomesIdle, LoopTakesTask,
           DoneTakesTask, TaskReturns, MarkCurrentWorkerAsBlocked,
           MarkCurrentWorkerAsUnBlocked, ExitThread, JoinDead, Shutdown,
           ShutdownExitCheck, ShutdownSpuriousWakeup, ShutdownObtainDead,
           ShutdownReturns, ShutdownJoinDead
<1> QED
  BY <1>1, Invariant, PTL DEF Spec, DeadPoolStaysDead

-----------------------------------------------------------------------------
(* The pool implements TaskPool.                                           *)

\* The refinement mapping's values for active and phase.
Active == {task[w] : w \in Worker} \ {NoTask}
Phase == CASE shutdown = "no" -> "open"
           [] shutdown = "returned" -> "closed"
           [] OTHER -> "draining"

\* Every step of the pool is a step of TaskPool or leaves its state alone.
LEMMA PoolStep ==
  ASSUME IInv, Next
  PROVE  \/ TP!PoolNext
         \/ UNCHANGED <<tasks, Active, finished, refused, Phase>>
<1> USE DEF Active, Phase
<1>0. /\ TypeOK /\ ListsMatchThreads /\ EachDeadWorkerHasOneJoiner
      /\ TaskInv /\ PhaseInv /\ NoTask \notin Task
      /\ task \in [Worker -> Task \cup {NoTask}]
      /\ tasks \in Seq(Task)
      /\ shutdown \in ShutdownLocation
  BY Zenon, ThreadPoolAssumption DEF IInv, TypeOK
<1>1. ASSUME NEW t \in Task, t \notin accepted \cup refused
      PROVE  t \notin Queued \cup Active \cup finished \cup refused
  BY Zenon, <1>0, <1>1 DEF TaskInv
<1>2. Queued = TP!Queued
  BY Zenon DEF Queued, TP!Queued
<1>3. ASSUME NEW t \in Task, Run(t) PROVE TP!Accept(t)
  <2>1. /\ shutdown = "no" /\ TP!Fresh(t)
        /\ tasks' = Append(tasks, t)
        /\ UNCHANGED <<task, finished, refused, shutdown>>
    BY Zenon, <1>0, <1>1, <1>2, <1>3 DEF Run, deathVars, PhaseInv, TP!Fresh
  <2> QED
    BY Zenon, <2>1 DEF TP!Accept
<1>4. ASSUME NEW t \in Task, RunRefused(t) PROVE TP!Refuse(t)
  <2>1. /\ shutdown # "no" /\ TP!Fresh(t)
        /\ refused' = refused \cup {t}
        /\ UNCHANGED <<tasks, task, finished, shutdown>>
    BY Zenon, <1>0, <1>1, <1>2, <1>4
       DEF RunRefused, deathVars, queueVars, PhaseInv, TP!Fresh
  <2> QED
    BY Zenon, <2>1 DEF TP!Refuse
<1>5. ASSUME NEW w \in Worker, LoopTakesTask(w) \/ DoneTakesTask(w)
      PROVE  TP!Start
  <2>1. /\ tasks # <<>> /\ tasks' = Tail(tasks)
        /\ task' = [task EXCEPT ![w] = Head(tasks)]
        /\ pc[w] \in {"loop", "done"}
        /\ UNCHANGED <<finished, refused, shutdown>>
    BY Zenon, <1>5 DEF LoopTakesTask, DoneTakesTask, RemoveFirst, historyVars,
                deathVars
  <2>2. task[w] = NoTask /\ Head(tasks) # NoTask
    BY <1>0, <2>1 DEF TaskInv
  <2>3. Active' = Active \cup {Head(tasks)}
    BY Zenon, <1>0, <2>1, <2>2
  <2>4. shutdown # "returned"
    BY Zenon, <1>0, <2>1 DEF PhaseInv
  <2> QED
    BY Zenon, <2>1, <2>3, <2>4 DEF TP!Start
<1>6. ASSUME NEW w \in Worker, TaskReturns(w)
      PROVE  \E t \in Task : TP!Finish(t)
  <2>1. PICK t \in Task : t = task[w]
    BY Zenon, <1>0, <1>6 DEF TaskReturns, TaskInv
  <2>2. /\ finished' = finished \cup {t}
        /\ task' = [task EXCEPT ![w] = NoTask]
        /\ UNCHANGED <<tasks, refused, shutdown>>
    BY Zenon, <1>6, <2>1 DEF TaskReturns, queueVars, deathVars
  <2>3. \A v \in Worker : task[v] = t => v = w
    BY Zenon, <1>0, <2>1 DEF TaskInv
  <2>4. Active' = Active \ {t} /\ t \in Active
    BY Zenon, <1>0, <2>1, <2>2, <2>3
  <2>5. TP!Finish(t)
    BY Zenon, <2>2, <2>4 DEF TP!Finish
  <2> QED
    BY Zenon, <2>5
<1>7. ASSUME Shutdown PROVE TP!BeginShutdown
  BY Zenon, <1>7 DEF Shutdown, queueVars, historyVars, TP!BeginShutdown
<1>8. ASSUME ShutdownReturns PROVE TP!EndShutdown
  <2>1. tasks = <<>> /\ lists.running = {}
    BY Zenon, <1>0, <1>8 DEF ShutdownReturns, PhaseInv, NoLiveWorker
  <2>2. Active = {}
    BY <1>0, <2>1 DEF TaskInv, ListsMatchThreads, Busy
  <2> QED
    BY Zenon, <1>8, <2>1, <2>2
       DEF ShutdownReturns, queueVars, historyVars, TP!EndShutdown
<1>9. ASSUME NEW w \in Worker, Dies(w)
      PROVE  UNCHANGED <<tasks, Active, finished, refused, Phase>>
  <2>1. \/ shutdown' = IF shutdown = "exitWait" THEN "exitCheck"
                                                ELSE shutdown
        \/ UNCHANGED shutdown
    BY Zenon, <1>0, <1>9, DeathEffect
  <2> QED
    BY Zenon, <1>9, <2>1 DEF Dies, queueVars, historyVars
<1>10. ASSUME \/ ShutdownExitCheck \/ ShutdownSpuriousWakeup
              \/ ShutdownObtainDead
       PROVE  UNCHANGED <<tasks, Active, finished, refused, Phase>>
  BY Zenon, <1>10 DEF ShutdownExitCheck, ShutdownSpuriousWakeup,
               ShutdownObtainDead, queueVars, historyVars
<1>11. ASSUME NEW w \in Worker,
              \/ IdleMove(w) \/ BecomesIdle(w) \/ ExitThread(w)
              \/ MarkCurrentWorkerAsBlocked(w)
              \/ MarkCurrentWorkerAsUnBlocked(w)
              \/ \E d \in Worker : JoinDead(w, d)
              \/ ShutdownJoinDead(w)
       PROVE  UNCHANGED <<tasks, Active, finished, refused, Phase>>
  BY Zenon, <1>11
     DEF IdleMove, BecomesIdle, ExitThread, MarkCurrentWorkerAsBlocked,
         MarkCurrentWorkerAsUnBlocked, JoinDead, ShutdownJoinDead,
         queueVars, deathVars, historyVars
<1> HIDE DEF Active, Phase
<1> DEFINE Unmoved == UNCHANGED <<tasks, Active, finished, refused, Phase>>
<1>12. ASSUME NEW t \in Task, Run(t) \/ RunRefused(t) PROVE TP!PoolNext
  BY Zenon, <1>3, <1>4, <1>12 DEF TP!PoolNext
<1>13. ASSUME NEW w \in Worker,
              LoopTakesTask(w) \/ DoneTakesTask(w) \/ TaskReturns(w)
       PROVE  TP!PoolNext
  BY Zenon, <1>5, <1>6, <1>13 DEF TP!PoolNext
<1>14. ASSUME Shutdown \/ ShutdownReturns PROVE TP!PoolNext
  BY Zenon, <1>7, <1>8, <1>14 DEF TP!PoolNext
<1>15. ASSUME NEW w \in Worker, Dies(w) PROVE Unmoved
  BY Zenon, <1>9, <1>15
<1>16. ASSUME \/ ShutdownExitCheck \/ ShutdownSpuriousWakeup
              \/ ShutdownObtainDead
       PROVE  Unmoved
  BY Zenon, <1>10, <1>16
<1>17. ASSUME NEW w \in Worker,
              \/ IdleMove(w) \/ BecomesIdle(w) \/ ExitThread(w)
              \/ MarkCurrentWorkerAsBlocked(w)
              \/ MarkCurrentWorkerAsUnBlocked(w)
              \/ \E d \in Worker : JoinDead(w, d)
              \/ ShutdownJoinDead(w)
       PROVE  Unmoved
  BY Zenon, <1>11, <1>17
<1> HIDE DEF Unmoved
<1>18. TP!PoolNext \/ Unmoved
  BY Zenon, <1>0, <1>12, <1>13, <1>14, <1>15, <1>16, <1>17, StepCases
<1> QED
  BY Zenon, <1>18 DEF Unmoved

\* The pool of threads keeps the promise of TaskPool: tasks start in the
\* order of their Run calls, once each, and Shutdown returns after the last.
THEOREM Refinement == Spec => ImplementsTaskPool
<1>1. Init => TP!PoolInit
  <2> SUFFICES ASSUME Init PROVE TP!PoolInit
    BY Zenon
  <2>1. {task[w] : w \in Worker} \ {NoTask} = {}
    BY Zenon DEF Init
  <2> QED
    BY Zenon, <2>1 DEF Init, TP!PoolInit
<1>2. IInv /\ [Next]_vars => [TP!PoolNext]_TP!poolVars
  <2> SUFFICES ASSUME IInv, [Next]_vars
               PROVE  TP!PoolNext \/ UNCHANGED TP!poolVars
    BY Zenon
  <2>1. CASE Next
    BY Zenon, <2>1, PoolStep DEF Active, Phase, TP!poolVars
  <2>2. CASE UNCHANGED vars
    BY Zenon, <2>2 DEF vars, queueVars, deathVars, historyVars, TP!poolVars
  <2> QED
    BY Zenon, <2>1, <2>2
<1> QED
  BY <1>1, <1>2, Invariant, PTL DEF Spec, ImplementsTaskPool, TP!PoolSafety

=============================================================================
