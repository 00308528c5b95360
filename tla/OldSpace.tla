------------------------------- MODULE OldSpace -------------------------------
(***************************************************************************)
(* The collection cycle of the old space of one isolate group              *)
(* (runtime/vm/heap/heap.cc, pages.cc): its phase, the count of GC tasks   *)
(* under tasks_lock, the concurrent marker tasks (marker.cc), the          *)
(* concurrent sweeper (sweeper.cc) with the list of large pages, the       *)
(* scavenger's walk over that list, heap iteration and group shutdown.     *)
(*                                                                         *)
(* What a mutator has still to do is a sequence of steps, each a critical  *)
(* section or a stretch of code that only this thread may run.  The        *)
(* safepoint is the one the module Safepoint describes, seen from outside: *)
(* a thread owns it once every other thread is at a poll.  Thresholds and  *)
(* deadlines are arbitrary choices.                                        *)
(***************************************************************************)
EXTENDS Integers, Sequences, FiniteSets

CONSTANTS
  Thread,       \* mutator threads of the group
  NoThread,
  MarkTask,     \* concurrent marker tasks; FLAG_marker_tasks of them
  Page,         \* addresses of large pages
  Null,
  InitialPages, \* the list of large pages at first
  RootSlices,   \* root_slices_count_
  MaxOps        \* bound: operations the mutators may start in all

ASSUME OldSpaceAssumption ==
  /\ NoThread \notin Thread /\ Null \notin Page
  /\ IsFiniteSet(MarkTask) /\ MarkTask # {}
  /\ InitialPages \in Seq(Page) /\ InitialPages # <<>>
  /\ \A i, j \in DOMAIN InitialPages :
       InitialPages[i] = InitialPages[j] => i = j
  /\ RootSlices \in Nat \ {0} /\ MaxOps \in Nat

VARIABLES
  todo,      \* the steps each mutator has still to take
  ops,       \* operations they may still start
  gone,      \* mutators that have left the group
  deleted,   \* the group, its heap included, has been deleted
  owner, depth,  \* the safepoint operation and its nesting
  waiting,   \* threads in Wait() on tasks_lock
  phase, tasks, concurrent_marker_tasks,
  marker,    \* marker_ is not null
  barrier,   \* the incremental write barrier is enabled
  slices,    \* root slices no task has taken yet
  task,      \* where each marker task is
  sweeper,   \* the concurrent sweeper: [at, page, prev, last]
  large_pages, large_pages_tail, next,  \* the list of large pages
  mapped,    \* history: the large pages that exist
  visit      \* page and tail of VisitRememberedCards

threads == <<todo, ops, gone, deleted>>
safepoint == <<owner, depth>>
counts == <<phase, tasks, concurrent_marker_tasks>>
marking == <<marker, barrier, slices, task>>
pages == <<large_pages, large_pages_tail, next, mapped>>
vars == <<threads, safepoint, waiting, counts, marking, sweeper, pages, visit>>

Phases == {"kDone", "kMarking", "kAwaitingFinalization", "kSweepingLarge",
           "kSweepingRegular"}
NoSweeper == [at |-> "none", page |-> Null, prev |-> Null, last |-> Null]

Init ==
  /\ todo = [t \in Thread |-> <<>>] /\ ops = MaxOps
  /\ gone = {} /\ deleted = FALSE
  /\ owner = NoThread /\ depth = 0 /\ waiting = {}
  /\ phase = "kDone" /\ tasks = 0 /\ concurrent_marker_tasks = 0
  /\ marker = FALSE /\ barrier = FALSE /\ slices = 0
  /\ task = [m \in MarkTask |-> "none"] /\ sweeper = NoSweeper
  /\ visit = [page |-> Null, tail |-> Null]
  /\ large_pages = Head(InitialPages)
  /\ large_pages_tail = InitialPages[Len(InitialPages)]
  /\ mapped = {InitialPages[i] : i \in DOMAIN InitialPages}
  /\ next = [p \in Page |->
       IF \E i \in 1..Len(InitialPages) - 1 : InitialPages[i] = p
       THEN InitialPages[1 + CHOOSE i \in DOMAIN InitialPages :
                               InitialPages[i] = p]
       ELSE Null]

-----------------------------------------------------------------------------
(* The steps of a mutator.                                                 *)

S(do) == [do |-> do, how |-> ""]
Scope(steps) == <<S("safepoint")>> \o steps \o <<S("resume")>>

(* PageSpace::CollectGarbage: how is "mark" for !finalize, else "sweep" or *)
(* "compact".                                                              *)
Collect(how) == Scope(<<[do |-> "begin", how |-> how],
                        [do |-> "helper", how |-> how], S("end")>>)
(* CollectNewSpaceGarbage: how is the GCReason, as far as it matters. *)
Scavenge(how) ==
  Scope(<<S("cards"), S("visit"), [do |-> "scavenged", how |-> how]>>)

(* The operations a mutator may start. *)
Operations ==
  { <<S("check_finish"), S("check_start"), S("add_page")>>,  \* TryAllocate
    <<S("check_start")>>,                             \* AllocatedExternal
    Scavenge("new"),
    Scavenge("full") \o Collect("sweep"),             \* CollectMostGarbage
    Scavenge("full") \o <<S("if_marking")>> \o Collect("compact")
      \o <<S("wait_sweepers")>>,                      \* CollectAllGarbage
    Scope(<<S("idle")>>),                             \* NotifyIdle
    <<S("wait_markers"), S("wait_sweepers")>>,        \* WaitForGCTasks
    Scope(<<S("iterate_begin"), S("iterate"), S("iterate_end")>>) }

(* Places where a thread answers a safepoint request. *)
AtPoll(t) ==
  todo[t] # <<>> =>
    Head(todo[t]).do \in {"safepoint", "wait_markers", "wait_sweepers"}

(* Mutator t executes the step do: it is not blocked. *)
Doing(t, do) == /\ todo[t] # <<>> /\ Head(todo[t]).do = do
                /\ t \notin waiting /\ owner \in {NoThread, t}
How(t) == Head(todo[t]).how
(* It goes on with these steps in place of the current one. *)
Then(t, steps) ==
  /\ todo' = [todo EXCEPT ![t] = steps \o Tail(@)]
  /\ UNCHANGED <<ops, gone, deleted>>
Done(t) == Then(t, <<>>)
Wait(t) == waiting' = waiting \cup {t}
           /\ UNCHANGED <<threads, counts>>
NotifyAll == waiting' = {}

Start(t) ==
  /\ todo[t] = <<>> /\ owner = NoThread /\ ops > 0 /\ t \notin gone
  /\ \E o \in Operations : todo' = [todo EXCEPT ![t] = o]
  /\ ops' = ops - 1
  /\ UNCHANGED <<gone, deleted, safepoint, waiting, counts, marking, sweeper,
                 pages, visit>>

SafepointThreads(t) ==
  /\ Doing(t, "safepoint")
  /\ owner = t \/ \A u \in Thread \ {t} : AtPoll(u)
  /\ owner' = t /\ depth' = depth + 1
  /\ Done(t)
  /\ UNCHANGED <<waiting, counts, marking, sweeper, pages, visit>>

ResumeThreads(t) ==
  /\ Doing(t, "resume")
  /\ depth' = depth - 1
  /\ owner' = IF depth = 1 THEN NoThread ELSE owner
  /\ Done(t)
  /\ UNCHANGED <<waiting, counts, marking, sweeper, pages, visit>>

-----------------------------------------------------------------------------
(* The decisions of class Heap: each reads the phase under tasks_lock and  *)
(* acts on it later.                                                       *)

CheckFinishConcurrentMarking(t) ==
  /\ Doing(t, "check_finish")
  /\ Then(t, IF phase = "kAwaitingFinalization" THEN Collect("sweep")
                                                ELSE <<>>)
  /\ UNCHANGED <<safepoint, waiting, counts, marking, sweeper, pages, visit>>

CheckStartConcurrentMarking(t) ==
  /\ Doing(t, "check_start")
  /\ \/ Done(t)          \* below the soft threshold
     \/ /\ phase = "kDone"
        /\ \E first \in {<<>>, Scavenge("full")} :  \* last_gc_was_old_space_
             Then(t, first \o Collect("mark"))
  /\ UNCHANGED <<safepoint, waiting, counts, marking, sweeper, pages, visit>>

(* NotifyIdle, at its safepoint. *)
NotifyIdle(t) ==
  /\ Doing(t, "idle")
  /\ \E first \in {<<>>, Scavenge("full")} :
       \/ Then(t, first \o <<S("idle_old")>>)
       \/ Then(t, first \o Collect("sweep"))  \* ReachedHardThreshold
       \/ tasks = 0 /\ Then(t, first \o Collect("compact"))
       \/ Then(t, first)
  /\ UNCHANGED <<safepoint, waiting, counts, marking, sweeper, pages, visit>>

NotifyIdleOld(t) ==
  /\ Doing(t, "idle_old")
  /\ Then(t, CASE phase = "kAwaitingFinalization" -> Collect("sweep")
               [] phase = "kDone" -> Collect("mark")
               [] OTHER -> <<>>)
  /\ UNCHANGED <<safepoint, waiting, counts, marking, sweeper, pages, visit>>

(* CollectAllGarbage: a collection more if the marking has begun. *)
IfMarking(t) ==
  /\ Doing(t, "if_marking")
  /\ Then(t, IF barrier THEN Collect("sweep") ELSE <<>>)
  /\ UNCHANGED <<safepoint, waiting, counts, marking, sweeper, pages, visit>>

(* What WaitForMarkerTasks does about a complete marking. *)
(* Wrong variant: it is not finalized. *)
FinalizeMarking_Not == <<>>
FinalizeMarking == Collect("sweep")

WaitForMarkerTasks(t) ==
  /\ Doing(t, "wait_markers")
  /\ IF phase = "kMarking" THEN Wait(t)
     ELSE /\ IF phase = "kAwaitingFinalization"
             THEN Then(t, FinalizeMarking \o <<S("wait_markers")>>)
             ELSE Done(t)
          /\ UNCHANGED <<waiting, counts>>
  /\ UNCHANGED <<safepoint, marking, sweeper, pages, visit>>

(* WaitForSweeperTasks, or WaitForSweeperTasksAtSafepoint when t owns it. *)
WaitForSweeperTasks(t) ==
  /\ Doing(t, "wait_sweepers") \/ Doing(t, "wait_at_safepoint")
  /\ IF tasks > 0 THEN Wait(t)
                  ELSE Done(t) /\ UNCHANGED <<waiting, counts>>
  /\ UNCHANGED <<safepoint, marking, sweeper, pages, visit>>

-----------------------------------------------------------------------------
(* PageSpace::CollectGarbage.                                              *)

(* The first critical section: return if the marking has already begun,    *)
(* wait for the tasks, then count the driver.                              *)
BeginCollect(t) ==
  /\ Doing(t, "begin")
  /\ \/ /\ How(t) = "mark" /\ phase \in {"kMarking", "kAwaitingFinalization"}
        /\ todo' = [todo EXCEPT ![t] = SubSeq(@, 4, Len(@))]
        /\ UNCHANGED <<ops, gone, deleted, waiting, counts>>
     \/ /\ ~(How(t) = "mark"
             /\ phase \in {"kMarking", "kAwaitingFinalization"})
        /\ IF tasks > 0 THEN Wait(t)
           ELSE /\ tasks' = 1 /\ Done(t)
                /\ UNCHANGED <<phase, concurrent_marker_tasks, waiting>>
  /\ UNCHANGED <<safepoint, marking, sweeper, pages, visit>>

AddTasks(n) == /\ tasks' = tasks + n
               /\ concurrent_marker_tasks' = concurrent_marker_tasks + n

(* CollectGarbageHelper, !finalize: StartConcurrentMark. *)
StartConcurrentMark(t) ==
  /\ Doing(t, "helper") /\ How(t) = "mark"
  /\ marker' = TRUE /\ barrier' = TRUE
  /\ phase' = "kMarking" /\ AddTasks(Cardinality(MarkTask))
  /\ slices' = RootSlices
  /\ task' = [m \in MarkTask |-> "new"]
  /\ Then(t, [i \in 1..Cardinality(MarkTask) |-> S("start_task")]
               \o <<S("roots")>>)
  /\ UNCHANGED <<safepoint, waiting, sweeper, pages, visit>>

StartMarkTask(t) ==
  /\ Doing(t, "start_task")
  /\ \E m \in MarkTask : /\ task[m] = "new"
                         /\ task' = [task EXCEPT ![m] = "roots"]
  /\ Done(t)
  /\ UNCHANGED <<safepoint, waiting, counts, marker, barrier, slices, sweeper,
                 pages, visit>>

(* It waits for the roots to be marked before it leaves the safepoint. *)
WaitForRoots(t) ==
  /\ Doing(t, "roots") /\ slices = 0
  /\ Done(t)
  /\ UNCHANGED <<safepoint, waiting, counts, marking, sweeper, pages, visit>>

(* Page p, which follows prev, leaves the list of large pages. *)
RemoveLargePageLocked(p, prev) ==
  /\ IF prev # Null
     THEN next' = [next EXCEPT ![prev] = next[p]] /\ UNCHANGED large_pages
     ELSE large_pages' = next[p] /\ UNCHANGED next
  /\ large_pages_tail' = IF p = large_pages_tail THEN prev
                                                 ELSE large_pages_tail

FreeLargePage(p, prev) ==
  RemoveLargePageLocked(p, prev) /\ mapped' = mapped \ {p}

(* AllocateLargePage, of a page at address p. *)
AddLargePageLocked(p) ==
  /\ next' = [q \in Page |-> IF q = p THEN Null
                ELSE IF large_pages # Null /\ q = large_pages_tail THEN p
                ELSE next[q]]
  /\ large_pages' = IF large_pages = Null THEN p ELSE large_pages
  /\ large_pages_tail' = p
  /\ mapped' = mapped \cup {p}

(* CollectGarbageHelper, finalize: MarkObjects (module Marker), then       *)
(* either the concurrent sweeper or SweepLarge and Sweep or Compact, page  *)
(* after page, on this thread.                                             *)
Finalize(t) ==
  /\ Doing(t, "helper") /\ How(t) # "mark"
  /\ barrier' = FALSE /\ marker' = FALSE
  /\ \/ /\ How(t) = "sweep"      \* FLAG_concurrent_sweep, a reservation
        /\ tasks' = tasks + 1 /\ phase' = "kSweepingLarge"
        /\ sweeper' = [at |-> "large", page |-> large_pages, prev |-> Null,
                       last |-> large_pages_tail]
        /\ Done(t)
     \/ /\ sweeper' = [at |-> "here", page |-> large_pages, prev |-> Null,
                       last |-> large_pages_tail]
        /\ Then(t, <<S("sweep_here")>>)
        /\ UNCHANGED <<tasks, phase>>
  /\ UNCHANGED <<safepoint, waiting, concurrent_marker_tasks, slices, task,
                 pages, visit>>

(* One turn of the loops of SweepLarge() and of the sweeper task. *)
SweepLargePage ==
  LET p == sweeper.page
      next_page == IF p = sweeper.last THEN Null ELSE next[p]
  IN /\ p # Null
     /\ \/ /\ FreeLargePage(p, sweeper.prev)
           /\ sweeper' = [sweeper EXCEPT !.page = next_page]
        \/ /\ sweeper' = [sweeper EXCEPT !.page = next_page, !.prev = p]
           /\ UNCHANGED pages

SweepHere(t) ==
  /\ Doing(t, "sweep_here")
  /\ \/ SweepLargePage /\ UNCHANGED <<threads, phase>>
     \/ /\ sweeper.page = Null
        /\ sweeper' = NoSweeper /\ phase' = "kDone"
        /\ Done(t)
        /\ UNCHANGED pages
  /\ UNCHANGED <<safepoint, waiting, tasks, concurrent_marker_tasks, marking,
                 visit>>

EndCollect(t) ==
  /\ Doing(t, "end")
  /\ tasks' = tasks - 1 /\ NotifyAll
  /\ Done(t)
  /\ UNCHANGED <<safepoint, phase, concurrent_marker_tasks, marking, sweeper,
                 pages, visit>>

-----------------------------------------------------------------------------
(* The tasks on helper threads; they bypass safepoints.                    *)

MarkRoots(m) ==
  /\ task[m] = "roots"
  /\ \/ slices > 0 /\ slices' = slices - 1 /\ UNCHANGED task
     \/ /\ slices = 0 /\ task' = [task EXCEPT ![m] = "drain"]
        /\ UNCHANGED slices
  /\ UNCHANGED <<threads, safepoint, waiting, counts, marker, barrier,
                 sweeper, pages, visit>>

(* DrainMarkingStack (module Marker), then ExitIsolateGroupAsHelper. *)
DrainAndExit(m) ==
  /\ task[m] = "drain"
  /\ task' = [task EXCEPT ![m] = "out"]
  /\ UNCHANGED <<threads, safepoint, waiting, counts, marker, barrier, slices,
                 sweeper, pages, visit>>

(* Wrong variant: the first task to end declares the marking complete. *)
PhaseAfterMarkTask_First == "kAwaitingFinalization"
PhaseAfterMarkTask ==
  IF concurrent_marker_tasks = 1 THEN "kAwaitingFinalization" ELSE phase

EndMarkTask(m) ==
  /\ task[m] = "out"
  /\ task' = [task EXCEPT ![m] = "none"]
  /\ AddTasks(-1)
  /\ phase' = PhaseAfterMarkTask
  /\ NotifyAll
  /\ UNCHANGED <<threads, safepoint, marker, barrier, slices, sweeper, pages,
                 visit>>

SweepLargeStep ==
  /\ sweeper.at = "large"
  /\ \/ SweepLargePage /\ UNCHANGED <<waiting, phase>>
     \/ /\ sweeper.page = Null
        /\ sweeper' = [NoSweeper EXCEPT !.at = "regular"]
        /\ phase' = "kSweepingRegular" /\ NotifyAll
        /\ UNCHANGED pages
  /\ UNCHANGED <<threads, safepoint, tasks, concurrent_marker_tasks, marking,
                 visit>>

(* A regular page, after which one waiting thread is notified, then the    *)
(* exit from the group.                                                    *)
SweepRegular ==
  /\ sweeper.at = "regular"
  /\ sweeper' = [sweeper EXCEPT !.at = "out"]
  /\ \/ waiting = {} /\ UNCHANGED waiting
     \/ \E t \in waiting : waiting' = waiting \ {t}
  /\ UNCHANGED <<threads, safepoint, counts, marking, pages, visit>>

EndSweep ==
  /\ sweeper.at = "out"
  /\ sweeper' = NoSweeper
  /\ tasks' = tasks - 1 /\ phase' = "kDone" /\ NotifyAll
  /\ UNCHANGED <<threads, safepoint, concurrent_marker_tasks, marking, pages,
                 visit>>

-----------------------------------------------------------------------------
(* Allocation, scavenges, iteration and shutdown.                          *)

(* A mutator, or a scavenger task beside the one that visits the cards.    *)
AllocateLargePage(t) ==
  /\ \/ Doing(t, "add_page") /\ Done(t)
     \/ Doing(t, "visit") /\ UNCHANGED threads
  /\ \E p \in Page \ mapped : AddLargePageLocked(p)
  /\ UNCHANGED <<safepoint, waiting, counts, marking, sweeper, visit>>

(* CanIncreaseCapacityInWordsLocked() is false or the OS has no memory. *)
AllocationFails(t) ==
  /\ Doing(t, "add_page") /\ Done(t)
  /\ UNCHANGED <<safepoint, waiting, counts, marking, sweeper, pages, visit>>

(* Wrong variant: the sweeper of large pages is not waited for. *)
LargePagesBusy_Never == FALSE
LargePagesBusy == phase = "kSweepingLarge"

(* VisitRememberedCards: wait, then take head and tail ... *)
VisitRememberedCards(t) ==
  /\ Doing(t, "cards")
  /\ IF LargePagesBusy THEN Wait(t) /\ UNCHANGED visit
     ELSE /\ visit' = [page |-> large_pages, tail |-> large_pages_tail]
          /\ Done(t) /\ UNCHANGED <<waiting, counts>>
  /\ UNCHANGED <<safepoint, marking, sweeper, pages>>

(* ... and visit page after page, up to that tail. *)
VisitPage(t) ==
  /\ Doing(t, "visit")
  /\ \/ /\ visit.page = Null /\ Done(t) /\ UNCHANGED visit
     \/ /\ visit.page # Null
        /\ visit' = [visit EXCEPT !.page = IF @ = visit.tail THEN Null
                                                             ELSE next[@]]
        /\ UNCHANGED threads
  /\ UNCHANGED <<safepoint, waiting, counts, marking, sweeper, pages>>

(* The rest of the scavenge, which may be an aborted one (ReverseScavenge),*)
(* and for a kNewSpace scavenge the check of the old space.                *)
Scavenged(t) ==
  /\ Doing(t, "scavenged")
  /\ \E abort \in {<<>>, <<S("wait_at_safepoint")>>} :
     \E old \in IF How(t) = "new" THEN {Collect("sweep"), <<S("check_start")>>}
                                  ELSE {<<>>} :
       Then(t, abort \o old)
  /\ visit' = [page |-> Null, tail |-> Null]
  /\ UNCHANGED <<safepoint, waiting, counts, marking, sweeper, pages>>

(* Wrong variant: only the tasks are waited for. *)
IterationFinalizes_Never == FALSE
IterationFinalizes == phase = "kAwaitingFinalization"

(* The constructor: finalize a complete marking, wait for the tasks.       *)
HeapIterationScope(t) ==
  /\ Doing(t, "iterate_begin")
  /\ IF IterationFinalizes
     THEN /\ Then(t, Collect("sweep") \o <<S("iterate_begin")>>)
          /\ UNCHANGED <<waiting, counts>>
     ELSE IF tasks > 0 THEN Wait(t)
     ELSE /\ tasks' = 1 /\ Done(t)
          /\ UNCHANGED <<waiting, phase, concurrent_marker_tasks>>
  /\ UNCHANGED <<safepoint, marking, sweeper, pages, visit>>

Iterate(t) ==
  /\ Doing(t, "iterate") /\ Done(t)
  /\ UNCHANGED <<safepoint, waiting, counts, marking, sweeper, pages, visit>>

EndHeapIterationScope(t) ==
  /\ Doing(t, "iterate_end")
  /\ tasks' = 0 /\ NotifyAll
  /\ Done(t)
  /\ UNCHANGED <<safepoint, phase, concurrent_marker_tasks, marking, sweeper,
                 pages, visit>>

(* A mutator's isolate ends; the last one shuts the group down. *)
Leave(t) ==
  /\ todo[t] = <<>> /\ owner = NoThread /\ t \notin gone
  /\ gone' = gone \cup {t}
  /\ todo' = [todo EXCEPT ![t] = IF gone' = Thread THEN <<S("shutdown")>>
                                                   ELSE <<>>]
  /\ UNCHANGED <<ops, deleted, safepoint, waiting, counts, marking, sweeper,
                 pages, visit>>

(* Wrong variant: the group does not wait for its GC tasks. *)
ShutdownWaits_Never == FALSE
ShutdownWaits == tasks > 0

(* IsolateGroup::Shutdown, AbandonMarkingForShutdown and ~PageSpace. *)
Shutdown(t) ==
  /\ Doing(t, "shutdown")
  /\ IF ShutdownWaits THEN Wait(t) /\ UNCHANGED <<marker, barrier>>
     ELSE /\ marker' = FALSE /\ barrier' = FALSE /\ deleted' = TRUE
          /\ todo' = [todo EXCEPT ![t] = <<>>]
          /\ UNCHANGED <<ops, gone, waiting, counts>>
  /\ UNCHANGED <<safepoint, slices, task, sweeper, pages, visit>>

Step(t) ==
  \/ SafepointThreads(t) \/ ResumeThreads(t)
  \/ CheckFinishConcurrentMarking(t) \/ CheckStartConcurrentMarking(t)
  \/ NotifyIdle(t) \/ NotifyIdleOld(t) \/ IfMarking(t)
  \/ WaitForMarkerTasks(t) \/ WaitForSweeperTasks(t)
  \/ BeginCollect(t) \/ StartConcurrentMark(t) \/ StartMarkTask(t)
  \/ WaitForRoots(t) \/ Finalize(t) \/ SweepHere(t) \/ EndCollect(t)
  \/ AllocationFails(t) \/ VisitRememberedCards(t) \/ VisitPage(t)
  \/ Scavenged(t) \/ HeapIterationScope(t) \/ Iterate(t)
  \/ EndHeapIterationScope(t) \/ Shutdown(t)

SweeperTask == SweepLargeStep \/ SweepRegular \/ EndSweep
MarkerTask(m) == MarkRoots(m) \/ DrainAndExit(m) \/ EndMarkTask(m)

Finished == deleted /\ UNCHANGED vars

Next ==
  \/ \E t \in Thread : Start(t) \/ Step(t) \/ AllocateLargePage(t) \/ Leave(t)
  \/ \E m \in MarkTask : MarkerTask(m)
  \/ SweeperTask
  \/ Finished

(* Threads and tasks are scheduled; nothing else has to happen. *)
Spec == /\ Init /\ [][Next]_vars
        /\ \A t \in Thread : WF_vars(Step(t))
        /\ \A m \in MarkTask : WF_vars(MarkerTask(m))
        /\ WF_vars(SweeperTask)
-----------------------------------------------------------------------------
(* Properties.                                                             *)

At(t, do) == todo[t] # <<>> /\ Head(todo[t]).do = do
Marking == {m \in MarkTask : task[m] # "none"}
Sweeping == sweeper.at \in {"large", "regular", "out"}
(* Mutators between the two critical sections of CollectGarbage, or of     *)
(* HeapIterationScope, where they count as a task.                         *)
Drivers == {t \in Thread : \E do \in {"helper", "start_task", "roots",
              "sweep_here", "end", "iterate", "iterate_end"} : At(t, do)}

(* The types; a thread owns the safepoint exactly while it has operations  *)
(* open (SafepointOperationScope).                                         *)
TypeOK ==
  /\ phase \in Phases
  /\ tasks \in 0..Cardinality(MarkTask) + 2
  /\ concurrent_marker_tasks \in 0..Cardinality(MarkTask)
  /\ <<marker, barrier, deleted>> \in BOOLEAN \X BOOLEAN \X BOOLEAN
  /\ depth \in Nat /\ owner \in Thread \cup {NoThread}
  /\ (owner = NoThread) <=> (depth = 0)
  /\ waiting \subseteq Thread /\ gone \subseteq Thread
  /\ ops \in 0..MaxOps /\ slices \in 0..RootSlices
  /\ task \in [MarkTask -> {"none", "new", "roots", "drain", "out"}]
  /\ sweeper.at \in {"none", "here", "large", "regular", "out"}
  /\ next \in [Page -> Page \cup {Null}] /\ mapped \subseteq Page

(* phase_ says what is really going on: marking until the last marker task *)
(* has ended, awaiting finalization as long as there is a marker and the   *)
(* barrier is on (or what it left is being swept at the safepoint),        *)
(* sweeping while the sweeper runs, and otherwise kDone                    *)
(* (CollectGarbageHelper's assertions about marker_).  The counters that   *)
(* every wait on tasks_lock tests are exact: a driver, an iterator and     *)
(* each concurrent task count once, from before the task is started until  *)
(* after it has left the group.                                            *)
PhaseIsTrue ==
  /\ concurrent_marker_tasks = Cardinality(Marking)
  /\ tasks = Cardinality(Marking) + (IF Sweeping THEN 1 ELSE 0)
               + Cardinality(Drivers)
  /\ ~deleted =>
       /\ (phase = "kMarking") <=> (Marking # {})
       /\ (phase \in {"kMarking", "kAwaitingFinalization"}) =>
            (marker /\ barrier) \/ sweeper.at = "here"
       /\ (phase = "kSweepingLarge") <=> (sweeper.at = "large")
       /\ (phase = "kSweepingRegular") <=> (sweeper.at \in {"regular", "out"})
       /\ (phase = "kDone") => ~marker /\ ~barrier

(* A thread that finalizes a collection, starts one, or iterates over the  *)
(* heap has it for itself: it owns the safepoint, no concurrent task is    *)
(* alive and the phase is what CollectGarbage and HeapIterationScope       *)
(* assert; a decision taken on a phase that has changed since is harmless. *)
HeapIsQuiet ==
  \A t \in Thread :
    (At(t, "helper") \/ At(t, "sweep_here") \/ At(t, "iterate")) =>
      /\ owner = t /\ Marking = {} /\ ~Sweeping /\ Drivers = {t}
      /\ At(t, "helper") => phase \in {"kDone", "kAwaitingFinalization"}
      /\ At(t, "helper") /\ How(t) = "mark" => phase = "kDone"
      /\ At(t, "iterate") => phase = "kDone"

(* The pages of list are those one reaches from the head, one by one. *)
Linked(list) ==
  /\ large_pages = IF list = <<>> THEN Null ELSE list[1]
  /\ \A i \in DOMAIN list :
       next[list[i]] = IF i = Len(list) THEN Null ELSE list[i + 1]

(* The list of large pages is intact while the sweeper unlinks pages and   *)
(* mutators append some: from its head one reaches each existing page once *)
(* and at last the tail.  The scavenger, which walks it without a lock, is *)
(* always on a page that exists and has the tail it looks for ahead of it  *)
(* (VisitRememberedCards waits for kSweepingLarge to end).                 *)
LargePagesIntact ==
  \E list \in [1..Cardinality(mapped) -> mapped] :
    /\ Linked(list)
    /\ mapped = {list[i] : i \in DOMAIN list}
    /\ mapped # {} => list[Len(list)] = large_pages_tail
    /\ visit.page # Null =>
         \E i, j \in DOMAIN list :
           i <= j /\ list[i] = visit.page /\ list[j] = visit.tail

(* No GC task is alive, and none is inside the group, once the group and   *)
(* its heap are deleted (IsolateGroup::Shutdown, "Exit isolate cleanly     *)
(* *before* notifying it, to avoid shutdown race").                        *)
NoTaskAfterShutdown == deleted => Marking = {} /\ ~Sweeping /\ ~marker

(* Whatever waits for what, every operation a mutator has begun ends: no   *)
(* notification is lost and no loop around a wait spins for ever.          *)
OperationsEnd == \A t \in Thread : todo[t] # <<>> ~> todo[t] = <<>>
=============================================================================
