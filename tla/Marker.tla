-------------------------------- MODULE Marker --------------------------------
(***************************************************************************)
(* One marking of the old space (runtime/vm/heap/marker.cc) by the tasks   *)
(* Thread, which keep in step with a ThreadBarrier: first, possibly, the   *)
(* concurrent marking beside a mutator with its write barrier, then the    *)
(* parallel marking of MarkObjects() while the mutator is stopped.  Loads  *)
(* and stores of relaxed atomics are sequentially consistent here, and the *)
(* build is one without DEBUG (no extra Sync()).                           *)
(***************************************************************************)
EXTENDS ThreadBarrier

CONSTANTS
  Plain,      \* old-space objects with one pointer slot
  Weak,       \* old-space WeakProperty objects
  Code,       \* old-space Instructions objects, which hold no pointer
  Null,
  Key, Value, \* key_ and value_ of each weak property
  Heaps,      \* initial heaps: [field, local, young, temp, ops]
  BlockSize   \* kMarkingStackBlockSize

Object == Plain \cup Weak \cup Code

(* An Instructions object is never a key, and a temporary is on the stack. *)
ASSUME MarkerAssumption ==
  /\ Plain \cap Weak = {} /\ Plain \cap Code = {} /\ Weak \cap Code = {}
  /\ Null \notin Object
  /\ Key \in [Weak -> Plain \cup Weak] /\ Value \in [Weak -> Object]
  /\ \A h \in Heaps : /\ h.field \in [Plain -> Object \cup {Null}]
                      /\ h.local \subseteq Object /\ h.young \subseteq Object
                      /\ h.temp \subseteq h.local \cap Plain

VARIABLES
  field,     \* the pointer slot of each plain object
  local,     \* pointers on the mutator's stack
  young,     \* pointers held by the objects of the new-space page
  temp,      \* live temporaries, whose stores have no write barrier
  cleared,   \* weak properties that have been cleared
  weak_set,  \* weak handles, weak tables, object id ring, remembered set
  marked,    \* objects with the mark bit
  work,      \* work_list_: the block of each task
  shared,    \* marking_stack_: its nonempty blocks
  deferred,  \* deferred_marking_stack_, with the blocks of its users
  delayed,   \* delayed_weak_properties_ of each task
  block,     \* marking_stack_block_ of the mutator
  stored,    \* the value whose store has not yet passed the write barrier
  ops,       \* bound: how many operations the mutator may still do
  quiet,     \* history: the mutator has not run beside the tasks
  stage,     \* "concurrent" or "parallel" (MarkObjects)
  root_slices_started, root_slices_finished, weak_slices_started,
  num_busy,
  at,        \* where each task is
  todo,      \* pointers it has loaded, saw unmarked and has not yet marked
  list,      \* its cur_weak list in ProcessPendingWeakProperties
  more       \* its more_to_mark, or the result "marked" of that call

barrier == vars
mutator == <<field, local, young, temp, block, stored, ops, quiet>>
lists   == <<marked, work, shared, deferred, delayed>>
slices  == <<root_slices_started, root_slices_finished, weak_slices_started>>
results == <<cleared, weak_set>>
marker_vars == <<barrier, mutator, lists, slices, results, stage, num_busy,
                 at, todo, list, more>>

(* kIsolate and one page of new space; the slices of WeakSlices. *)
root_slices_count == 2
kNumWeakSlices == 4
Roots(slice) == IF slice = 0 THEN local ELSE young

MarkerInit ==
  /\ Init
  /\ \E h \in Heaps : /\ field = h.field /\ local = h.local
                      /\ young = h.young /\ temp = h.temp /\ ops = h.ops
  /\ stage \in {"concurrent", "parallel"}
  /\ deferred = IF stage = "concurrent" THEN temp ELSE {}
  /\ cleared = {} /\ weak_set = [s \in 0..kNumWeakSlices - 1 |-> Object]
  /\ marked = {} /\ shared = {} /\ block = {}
  /\ work = [m \in Thread |-> {}] /\ delayed = [m \in Thread |-> {}]
  /\ stored = Null /\ quiet = TRUE
  /\ root_slices_started = 0 /\ root_slices_finished = 0
  /\ weak_slices_started = 0 /\ num_busy = num_threads
  /\ at = [m \in Thread |-> "slice"]
  /\ todo = [m \in Thread |-> {}] /\ list = [m \in Thread |-> {}]
  /\ more = [m \in Thread |-> FALSE]

(* Task m is at label l, outside the barrier and with nothing left to pass *)
(* to MarkObject.                                                          *)
At(m, l) == at[m] = l /\ todo[m] = {} /\ pc[m] = "out"
Goto(m, l) == at' = [at EXCEPT ![m] = l]

-----------------------------------------------------------------------------
(* The visitor.                                                            *)

(* BlockWorkList::Push. *)
Push(m, o) ==
  IF Cardinality(work[m]) = BlockSize
  THEN /\ shared' = shared \cup {work[m]}
       /\ work' = [work EXCEPT ![m] = {o}]
  ELSE /\ work' = [work EXCEPT ![m] = @ \cup {o}]
       /\ UNCHANGED shared

MarkObject(m) ==
  \E o \in todo[m] :
    /\ todo' = [todo EXCEPT ![m] = @ \ {o}]
    /\ \/ o \in marked /\ UNCHANGED <<marked, work, shared, deferred>>
       \/ /\ o \in Code \ marked
          /\ deferred' = deferred \cup {o}
          /\ UNCHANGED <<marked, work, shared>>
       \/ /\ o \notin marked \cup Code
          /\ marked' = marked \cup {o}
          /\ Push(m, o)
          /\ UNCHANGED deferred
    /\ UNCHANGED <<delayed, barrier, mutator, slices, results, stage,
                   num_busy, at, list, more>>

EnqueueWeakProperty(m, w) == delayed' = [delayed EXCEPT ![m] = @ \cup {w}]

(* Scan o: VisitPointersNonvirtual, or ProcessWeakProperty, which leaves a *)
(* weak property whose key is white for later if this task marked it.      *)
Scan(m, o, did_mark) ==
  IF o \in Weak /\ Key[o] \notin marked
  THEN /\ IF did_mark THEN EnqueueWeakProperty(m, o) ELSE UNCHANGED delayed
       /\ UNCHANGED todo
  ELSE /\ todo' = [todo EXCEPT ![m] =
                     IF o \in Weak THEN {Key[o], Value[o]} \ marked
                     ELSE IF o \in Plain THEN {field[o]} \ (marked \cup {Null})
                     ELSE {}]
       /\ UNCHANGED delayed

(* BlockWorkList::Pop, which returned o, and the scan of o. *)
PopAndScan(m, o) ==
  /\ \/ /\ o \in work[m]
        /\ work' = [work EXCEPT ![m] = @ \ {o}]
        /\ UNCHANGED shared
     \/ /\ work[m] = {}
        /\ \E b \in shared : /\ o \in b
                             /\ shared' = shared \ {b}
                             /\ work' = [work EXCEPT ![m] = b \ {o}]
  /\ Scan(m, o, TRUE)
  /\ Goto(m, "loop")
  /\ UNCHANGED <<marked, deferred, barrier, mutator, slices, results, stage,
                 num_busy, list, more>>

NoWork(m) == work[m] = {} /\ shared = {}

(* ProcessPendingWeakProperties() takes the list ... *)
StartPending(m, l) ==
  /\ list' = [list EXCEPT ![m] = delayed[m]]
  /\ delayed' = [delayed EXCEPT ![m] = {}]
  /\ more' = [more EXCEPT ![m] = FALSE]
  /\ Goto(m, l)

(* ... and visits those whose key has been marked. *)
PendingOne(m, l) ==
  /\ At(m, l)
  /\ \E w \in list[m] :
       /\ list' = [list EXCEPT ![m] = @ \ {w}]
       /\ IF Key[w] \in marked
          THEN /\ more' = [more EXCEPT ![m] = @ \/ Value[w] \notin marked]
               /\ todo' = [todo EXCEPT ![m] = {Value[w]} \ marked]
               /\ UNCHANGED delayed
          ELSE EnqueueWeakProperty(m, w) /\ UNCHANGED <<more, todo>>
  /\ UNCHANGED <<marked, work, shared, deferred, barrier, mutator, slices,
                 results, stage, num_busy, at>>

(* DrainMarkingStack(): the first Pop(), the loop, and the Pop() after the *)
(* weak properties.                                                        *)
DrainMarkingStack(m) ==
  \/ \E l \in {"enter", "loop", "again"}, o \in Object :
       At(m, l) /\ PopAndScan(m, o)
  \/ /\ \/ At(m, "enter") /\ NoWork(m) /\ StartPending(m, "enter_pending")
        \/ At(m, "loop") /\ NoWork(m) /\ StartPending(m, "loop_pending")
     /\ UNCHANGED <<marked, work, shared, deferred, todo, barrier, mutator,
                    slices, results, stage, num_busy>>
  \/ PendingOne(m, "enter_pending") \/ PendingOne(m, "loop_pending")
  \/ /\ list[m] = {}
     /\ \/ At(m, "enter_pending")
           /\ Goto(m, IF more[m] THEN "again" ELSE "drained")
        \/ At(m, "loop_pending") /\ Goto(m, "again")
     /\ UNCHANGED <<lists, todo, list, more, barrier, mutator, slices,
                    results, stage, num_busy>>
  \/ /\ At(m, "again") /\ NoWork(m) /\ Goto(m, "drained")
     /\ UNCHANGED <<lists, todo, list, more, barrier, mutator, slices,
                    results, stage, num_busy>>

(* ProcessDeferredMarking(): an object is scanned even if it is marked. *)
ProcessDeferredMarking(m, l, next) ==
  /\ At(m, l)
  /\ \/ \E o \in deferred :
          /\ deferred' = deferred \ {o}
          /\ marked' = marked \cup {o}
          /\ Scan(m, o, o \notin marked)
          /\ UNCHANGED <<work, shared, at>>
     \/ deferred = {} /\ Goto(m, next) /\ UNCHANGED <<lists, todo>>
  /\ UNCHANGED <<list, more, barrier, mutator, slices, results, stage,
                 num_busy>>

(* IterateRoots(). *)
IterateRoots(m) ==
  /\ \/ /\ At(m, "slice")
        /\ root_slices_started' = root_slices_started + 1
        /\ IF root_slices_started < root_slices_count
           THEN /\ todo' = [todo EXCEPT ![m] =
                             Roots(root_slices_started) \ marked]
                /\ Goto(m, "in_slice")
           ELSE /\ Goto(m, IF stage = "concurrent" THEN "enter" ELSE "deferred")
                /\ UNCHANGED todo
        /\ UNCHANGED root_slices_finished
     \/ /\ At(m, "in_slice")
        /\ root_slices_finished' = root_slices_finished + 1
        /\ Goto(m, "slice")
        /\ UNCHANGED <<root_slices_started, todo>>
  /\ UNCHANGED <<weak_slices_started, lists, list, more, barrier, mutator,
                 results, stage, num_busy>>

-----------------------------------------------------------------------------
(* ParallelMarkTask::RunEnteredIsolateGroup().                             *)

(* "I saw some work; get busy and compete for it." *)
GetBusy(m) == At(m, "add") /\ num_busy' = num_busy + 1 /\ Goto(m, "enter")

(* The inner loop after DrainMarkingStack(): leave it when no task is busy *)
(* and try again when there is work on the shared stack.                   *)
FindWork(m) ==
  /\ stage = "parallel"
  /\ \/ /\ At(m, "drained")
        /\ num_busy' = num_busy - 1
        /\ Goto(m, IF num_busy = 1 THEN "sync1" ELSE "spin")
     \/ /\ At(m, "spin") /\ (shared # {} \/ num_busy = 0)
        /\ Goto(m, "check") /\ UNCHANGED num_busy
     \/ /\ At(m, "check")
        /\ Goto(m, IF num_busy = 0 THEN "sync1" ELSE "add")
        /\ UNCHANGED num_busy
     \/ GetBusy(m)
  /\ UNCHANGED <<lists, todo, list, more, barrier, mutator, slices, results,
                 stage>>

(* barrier_->Sync(), after which the task goes on at next. *)
Sync(m, l, next) ==
  /\ At(m, l)
  /\ SyncWait(m) \/ SyncLast(m)
  /\ Goto(m, next)
  /\ UNCHANGED <<lists, todo, list, more, mutator, slices, results, stage,
                 num_busy>>

(* Wrong variant: without the last of the three barriers. *)
LastSync_Skip(m) ==
  /\ At(m, "sync3") /\ Goto(m, IF more[m] THEN "enter" ELSE "final_deferred")
  /\ UNCHANGED <<barrier, lists, todo, list, more, mutator, slices, results,
                 stage, num_busy>>

LastSync(m) == Sync(m, "sync3", IF more[m] THEN "enter" ELSE "final_deferred")

(* The end of the outer loop: all tasks go on as long as one of them found *)
(* a weak property with a marked key and an unmarked value.                *)
MarkingRound(m) ==
  \/ Sync(m, "sync1", "round")
  \/ /\ At(m, "round") /\ StartPending(m, "round_pending")
     /\ UNCHANGED <<marked, work, shared, deferred, todo, barrier, mutator,
                    slices, results, stage, num_busy>>
  \/ PendingOne(m, "round_pending")
  \/ /\ At(m, "round_pending") /\ list[m] = {}
     /\ num_busy' = IF more[m] THEN num_busy + 1 ELSE num_busy
     /\ Goto(m, "sync2")
     /\ UNCHANGED <<lists, todo, list, more, barrier, mutator, slices,
                    results, stage>>
  \/ Sync(m, "sync2", "decide")
  \/ /\ At(m, "decide")
     /\ more' = [more EXCEPT ![m] = @ \/ num_busy > 0]
     /\ num_busy' = IF ~more[m] /\ num_busy > 0 THEN num_busy + 1 ELSE num_busy
     /\ Goto(m, "sync3")
     /\ UNCHANGED <<lists, todo, list, barrier, mutator, slices, results,
                    stage>>
  \/ LastSync(m)

(* IterateWeakRoots(): each slice drops what refers to unmarked objects. *)
IterateWeakRoots(m) ==
  /\ At(m, "weak")
  /\ weak_slices_started' = weak_slices_started + 1
  /\ IF weak_slices_started < kNumWeakSlices
     THEN weak_set' = [weak_set EXCEPT ![weak_slices_started] = @ \cap marked]
          /\ UNCHANGED at
     ELSE Goto(m, "sync5") /\ UNCHANGED weak_set
  /\ UNCHANGED <<root_slices_started, root_slices_finished, lists, todo, list,
                 more, barrier, mutator, cleared, stage, num_busy>>

(* Wrong variant: the weak properties keep their dead keys. *)
Finalize_NoClear(m) ==
  /\ At(m, "finalize")
  /\ delayed' = [delayed EXCEPT ![m] = {}]
  /\ Goto(m, "exit")
  /\ UNCHANGED <<marked, work, shared, deferred, results, todo, list, more,
                 barrier, mutator, slices, stage, num_busy>>

(* FinalizeResultsFrom(): clear the weak properties that are left. *)
Finalize(m) ==
  /\ At(m, "finalize")
  /\ cleared' = cleared \cup delayed[m]
  /\ delayed' = [delayed EXCEPT ![m] = {}]
  /\ Goto(m, "exit")
  /\ UNCHANGED <<marked, work, shared, deferred, weak_set, todo, list, more,
                 barrier, mutator, slices, stage, num_busy>>

(* The steps of the barrier that follow from the calls of it. *)
InBarrier(m) ==
  /\ \/ Exit(m) /\ At(m, "exit") /\ Goto(m, "end")
     \/ /\ \/ Wakes(m, "notified")
           \/ ExitLast(m)
           \/ \E place \in {"exited", "destructor", "destructor_notified"} :
                Destroy(m, place)
        /\ UNCHANGED at
  /\ UNCHANGED <<lists, todo, list, more, mutator, slices, results, stage,
                 num_busy>>

SpuriousWakeup(m) ==
  /\ Wakes(m, "waiting")
  /\ UNCHANGED <<at, lists, todo, list, more, mutator, slices, results, stage,
                 num_busy>>

-----------------------------------------------------------------------------
(* The mutator, once StartConcurrentMark() has seen all roots marked.      *)
Operation ==
  /\ stage = "concurrent" /\ root_slices_finished = root_slices_count
  /\ stored = Null /\ ops > 0 /\ ops' = ops - 1 /\ quiet' = FALSE

(* It loads a pointer from an object or drops one. *)
MutatorLoad ==
  /\ Operation
  /\ \/ \E o \in young \cup (UNION {{Key[w], Value[w]} : w \in local \cap Weak})
             \cup ({field[o] : o \in local \cap Plain} \ {Null}) :
          o \notin local /\ local' = local \cup {o}
     \/ \E o \in local : local' = local \ {o}
  /\ UNCHANGED <<field, young, temp, block, stored, lists, barrier, slices,
                 results, stage, num_busy, at, todo, list, more>>

(* It stores a pointer in an old object, after which it may no longer need *)
(* it, or in a new one, which needs no incremental barrier, or overwrites  *)
(* the pointer in a new one.                                               *)
MutatorStore ==
  /\ Operation
  /\ \/ \E o \in local \cap Plain, v \in local \cup {Null} :
          /\ field' = [field EXCEPT ![o] = v]
          /\ stored' = IF o \in temp THEN Null ELSE v
          /\ local' \in {local, local \ {v}}
          /\ UNCHANGED young
     \/ /\ \/ \E o \in local \ young : young' = young \cup {o}
           \/ \E o \in young : young' = young \ {o}
        /\ UNCHANGED <<field, local, stored>>
  /\ UNCHANGED <<temp, block, lists, barrier, slices, results, stage,
                 num_busy, at, todo, list, more>>

(* Wrong variant: the barrier records nothing. *)
WriteBarrier_Off ==
  /\ stored # Null
  /\ stored' = Null
  /\ UNCHANGED <<marked, block, shared, deferred, field, local, young, temp,
                 ops, quiet, work, delayed, barrier, slices, results, stage,
                 num_busy, at, todo, list, more>>

(* CheckHeapPointerStore: the incremental barrier after the store. *)
WriteBarrier ==
  /\ stored # Null
  /\ stored' = Null
  /\ \/ stored \in marked /\ UNCHANGED <<marked, block, shared, deferred>>
     \/ /\ stored \in Code \ marked
        /\ deferred' = deferred \cup {stored}
        /\ UNCHANGED <<marked, block, shared>>
     \/ /\ stored \notin marked \cup Code
        /\ marked' = marked \cup {stored}
        /\ IF Cardinality(block) + 1 = BlockSize
           THEN shared' = shared \cup {block \cup {stored}} /\ block' = {}
           ELSE block' = block \cup {stored} /\ UNCHANGED shared
        /\ UNCHANGED deferred
  /\ UNCHANGED <<field, local, young, temp, ops, quiet, work, delayed, barrier,
                 slices, results, stage, num_busy, at, todo, list, more>>

(* The concurrent tasks have finished, the mutator is at a safepoint:      *)
(* MarkObjects() takes its blocks (DisableIncrementalBarrier), resets the  *)
(* slices and starts the parallel tasks with the same visitors.            *)
MarkObjects ==
  /\ stage = "concurrent" /\ stored = Null
  /\ \A m \in Thread : At(m, "drained")
  /\ stage' = "parallel"
  /\ shared' = shared \cup ({block} \ {{}}) /\ block' = {}
  /\ root_slices_started' = 0 /\ root_slices_finished' = 0
  /\ weak_slices_started' = 0
  /\ num_busy' = num_threads
  /\ at' = [m \in Thread |-> "slice"]
  /\ UNCHANGED <<field, local, young, temp, stored, ops, quiet, marked, work,
                 deferred, delayed, barrier, results, todo, list, more>>

-----------------------------------------------------------------------------
Task(m) ==
  \/ IterateRoots(m) \/ MarkObject(m)
  \/ ProcessDeferredMarking(m, "deferred", "enter")
  \/ DrainMarkingStack(m)
  \/ FindWork(m) \/ MarkingRound(m)
  \/ ProcessDeferredMarking(m, "final_deferred", "sync4")
  \/ Sync(m, "sync4", "weak") \/ IterateWeakRoots(m) \/ Sync(m, "sync5", "finalize")
  \/ Finalize(m) \/ InBarrier(m)

Finished == destroyed /\ UNCHANGED marker_vars

MarkerNext ==
  \/ \E m \in Thread : Task(m) \/ SpuriousWakeup(m)
  \/ MutatorLoad \/ MutatorStore \/ WriteBarrier
  \/ MarkObjects
  \/ Finished

(* Every task is scheduled and does not rely on spurious wakeups; the      *)
(* mutator is stopped at a safepoint in the end.                           *)
MarkerSpec ==
  /\ MarkerInit /\ [][MarkerNext]_marker_vars
  /\ \A m \in Thread : WF_marker_vars(Task(m))
  /\ WF_marker_vars(WriteBarrier) /\ WF_marker_vars(MarkObjects)

-----------------------------------------------------------------------------
MarkerTypeOK ==
  /\ TypeOK
  /\ field \in [Plain -> Object \cup {Null}]
  /\ local \subseteq Object /\ young \subseteq Object /\ temp \subseteq Plain
  /\ marked \subseteq Object /\ deferred \subseteq Object
  /\ shared \subseteq SUBSET Object /\ block \subseteq Object
  /\ \A m \in Thread : /\ work[m] \subseteq Object
                       /\ Cardinality(work[m]) <= BlockSize
                       /\ delayed[m] \subseteq Weak /\ list[m] \subseteq Weak
                       /\ todo[m] \subseteq Object
  /\ num_busy \in 0..num_threads

(* What the mutator can reach: from its stack and from new space, through  *)
(* plain objects, and through a weak property whose key is reachable.      *)
Closed(S) ==
  /\ local \cup young \subseteq S
  /\ \A o \in S \cap Plain : field[o] \in S \cup {Null}
  /\ \A w \in S \cap Weak : Key[w] \in S => Value[w] \in S
Reachable == {o \in Object : \A S \in SUBSET Object : Closed(S) => o \in S}

Phase1 == {"slice", "in_slice", "deferred", "enter", "enter_pending", "loop",
           "loop_pending", "again", "drained", "spin", "check", "add", "sync1",
           "round", "round_pending", "sync2", "decide", "sync3"}
Idle == {"spin", "check", "add", "sync1", "round", "round_pending"}

(* Marking is complete when a task starts to treat unmarked objects as     *)
(* garbage: whatever the mutator did beside the concurrent tasks and       *)
(* however the tasks raced, every reachable object is marked.  When no     *)
(* mutator ran beside them, nothing else is marked.                        *)
MarksWhatIsReachable ==
  (\E m \in Thread : at[m] \in {"weak", "sync5", "finalize", "exit", "end"}
                     /\ pc[m] = "out") =>
    /\ Reachable \subseteq marked
    /\ quiet => marked = Reachable

(* The tasks agree on when marking is over.  num_busy counts those that    *)
(* may still push work, so "no task is busy" really means that there is    *)
(* no work, and it never underflows; when the tasks leave phase 1 there is *)
(* none on any list (which work_list_.Finalize() asserts), and all of them *)
(* leave it in the same round.                                             *)
PhasesInStep ==
  /\ stage = "parallel" =>
       num_busy = Cardinality({m \in Thread :
         \/ at[m] \in Phase1 \ (Idle \cup {"sync2", "decide", "sync3"})
         \/ at[m] \in {"sync2", "decide", "sync3"} /\ more[m]})
  /\ (\E m \in Thread : at[m] \notin Phase1 /\ pc[m] = "out") =>
       /\ \A m \in Thread : work[m] = {} /\ at[m] \notin Phase1
       /\ shared = {} /\ block = {}

(* The weak properties and weak references are treated by the fate of      *)
(* their keys: what is cleared had an unreachable key (a RELEASE_ASSERT of *)
(* Finalize()), and once all is done no weak reference to an unmarked      *)
(* object is left and none to a reachable object was dropped.              *)
WeakByFateOfKey ==
  /\ \A w \in cleared : Key[w] \notin marked \cup Reachable
  /\ destroyed =>
       /\ \A w \in Reachable \cap Weak : w \in cleared <=> Key[w] \notin marked
       /\ \A s \in DOMAIN weak_set : weak_set[s] = marked

(* The marking ends: no task spins or waits at the barrier for ever.       *)
MarkingEnds == <>destroyed
=============================================================================
