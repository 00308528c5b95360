# Verification of the Dart VM runtime

This directory holds TLA+ models of the concurrent core of the Dart virtual
machine in this repository (a fork of the Dart SDK 2.13), TLC configurations that
check them on small instances, and TLAPS proofs for instances of any size.

The repository contains a whole SDK: compilers, analyzers, libraries and tools
besides the VM. The models are about `runtime/vm` and the timers that sit on it,
and there about the code that is hardest to test: threads that hand work, messages
and stop requests to each other under monitors and with lock-free fast paths. Paths below are relative to
`src/runtime/vm` unless they start with `src/`.

## 1. The system and its parts

| Part | State | Operations | Talks to |
|---|---|---|---|
| Thread pool (`thread_pool.cc`) | task queue, idle/running/dead worker lists and counters, `max_pool_size_`, shutdown flags | `Run`, `WorkerLoop`, `MarkCurrentWorkerAs(Un)Blocked`, `Shutdown`, joins | message handlers, GC tasks, background compiler |
| Mutator pool (`isolate.cc`) | the pool of an isolate group | `OnEnterIdleLocked`, `NotifyIdle` | thread pool, heap |
| Port set (`port_set.h`) | open-addressing table with deleted markers | `Insert`, lookup, `Delete`, `Rebalance`, `Rehash` | port map, handlers |
| Port map (`port.cc`) | port -> handler, port states | `CreatePort`, `SetPortState`, `ClosePort(s)`, `PostMessage` | message handlers |
| Message handler (`message_handler.cc`, `message.cc`) | two queues, pause flags, `live_ports_`, `task_running_`, `delete_me_` | `PostMessage`, `TaskCallback`, `HandleMessages` (re-entrant), `PauseAndHandleAllMessages`, `RequestDeletion` | port map, pool, isolates, embedder |
| Isolate message handling (`isolate.cc`, `dart_api_impl.cc`) | pause count, notify callback | library messages, `Dart_HandleMessage`, `Dart_WaitForEvent`, shutdown | message handler |
| Safepoints (`heap/safepoint.*`, `thread.h`) | `safepoint_state_`, `owner_`, operation count, count of awaited threads | `SafepointThreads`, `ResumeThreads`, enter/exit/block, transitions | threads, GC, reload, registry |
| Threads and registry (`thread.cc`, `thread_registry.cc`) | active and free lists, stack limit with interrupt bits | schedule, unschedule, interrupts | safepoints, isolates |
| Thread barrier (`thread_barrier.h`) | `remaining_`, `parity_`, `done_` | `Sync`, `Exit`, destructor | parallel GC tasks |
| Marker (`heap/marker.cc`, `heap/pointer_block.h`) | mark bits, shared and local work lists, delayed weak properties, slices, number of busy tasks | concurrent and parallel mark tasks, write barrier, `MarkObjects` | barrier, mutators |
| Old space (`heap/heap.cc`, `heap/pages.cc`, `heap/sweeper.cc`) | `phase_`, `tasks_`, list of large pages | collections, scavenges, concurrent marker and sweeper tasks, heap iteration, idle notification | safepoints, marker, group shutdown |
| Hot reload (`isolate_reload.cc`) | registered and checked-in isolates, the reloading thread | `PauseIsolatesForReloadLocked`, `ParticipateIfReloadRequested`, `ResumeIsolatesLocked` | message handlers, mutator count |
| Isolates, groups, `Dart_Cleanup` (`isolate.cc`, `dart.cc`, `lib/isolate.cc`) | lists of groups and isolates, spawn counts, `accepts_messages_`, `creation_enabled_` | spawn, registration, shutdown, `KillAllIsolates`, the waits of the cleanup | thread pools, kernel and service isolates |
| Kernel and service isolates (`kernel_isolate.cc`, `service_isolate.cc`) | `state_`, `isolate_`, the port | start, wait for the port, requests, shutdown | isolates, cleanup |
| Timers (`src/sdk/lib/_internal/vm/lib/timer_impl.dart`, `src/runtime/bin/eventhandler*`) | heap, queue of zero timers, scheduled wakeup, receive port | create, cancel, handle a message, run the due timers | event handler, message queue |
| Safepoint read-write lock, background compiler, the rest of dart:io | | | section 6 |
| Compiler, object model, snapshots, front end, core libraries, tools | | | not modelled, section 7 |

How they interact: a message is posted through the **port map** into a **message
handler**, which starts a task on a **thread pool**; the task's thread enters the
isolate group through the **thread registry** and from then on takes part in the
**safepoint** protocol; a garbage collection is a safepoint operation whose
parallel tasks run on a thread pool and meet at **thread barriers**, between
**old-space** phases in which concurrent **markers** and the sweeper run beside the
mutators; a **reload** is requested by messages and stops the isolates of a group
by a rendezvous of its own; **isolates** are spawned on the VM's pool, run on their
group's, and **Dart_Cleanup** ends them and the pools; **timers** live on messages from
another thread.

The behaviours that make this hard: lost wakeups when a wait times out while it
is notified; tasks and pauses that release a monitor in the middle of a decision;
objects deleted by whichever of two threads finishes last; re-entrant message
handling; requests raised by one thread and answered by another through an
atomic word; condition variables that wake spuriously; threads that enter or
leave while an operation is under way.

## 2. Modules

| Module | Models | Kind |
|---|---|---|
| `TaskPool` | what a pool promises its callers | abstract specification |
| `ThreadPool` | `thread_pool.{h,cc}`, the idle hook of `isolate.cc` | component, implements `TaskPool` |
| `ThreadPoolProofs` | | proofs |
| `PortSet` | `port_set.h`, `PortMap::AllocatePort` | component |
| `PortSetProofs` | | proofs |
| `MessageHandler` | `message_handler.cc`, `message.cc`, `port.cc`, message handling of `isolate.cc` | composition of a handler, its queues, its ports and its callers |
| `MessageHandlerProofs` | | proofs |
| `Safepoint` | `heap/safepoint.{h,cc}`, `thread.h`, active list, `WaitWithSafepointCheck` | component |
| `ThreadBarrier` | `thread_barrier.h` | component |
| `Marker` | `heap/marker.cc`, work lists of `heap/pointer_block.h`, write barrier | composition with `ThreadBarrier` (extends it) |
| `MarkerProofs` | | proofs about `ThreadBarrier` and `Marker` |
| `OldSpace` | `heap/heap.cc`, `heap/pages.cc`, `heap/sweeper.cc`, the tasks of `heap/marker.cc` | composition of mutators, markers and sweeper |
| `OldSpaceProofs` | | proofs |
| `TimerHeap` | the binary heap of `timer_impl.dart` | operators, checked against the definition of a heap |
| `Timers` | class `_Timer`, the timeouts of the event handler | composition of an isolate, its timers and the event handler |
| `Reload` | `ReloadHandler`, the mutator count of a group | composition with spawning, tasks and shutdown |
| `Lifecycle` | creation and end of isolates and groups, `Dart_Cleanup`, kernel and service isolate | composition |
| `LifecycleProofs`, `SafepointProofs`, `ReloadProofs` | | proofs |
| `MC*` | | instances for TLC |

The atomic steps are chosen in the same way everywhere. A step is a critical
section of the monitor that guards the component, or one atomic update of a
lock-free word, or a stretch of code between two of these. A wait on a condition
variable is a state of its own, which a notification, a timeout or a spurious
wakeup ends; the code after the wait is the next step. Names of variables are the
names of the fields without the trailing underscore. Definitions called
`X_Something` beside a definition `X` are wrong variants: the model with `X`
replaced by one of them violates a property, which shows what the property guards
against. They are part of no specification.

### ThreadPool

`pc[w]` is the place of a worker's thread in `WorkerLoop`; `lists` holds the three
worker lists with the counters the code keeps for them; `to_join` and
`shutdown_join` are the local lists of dead workers. `Run`/`RunRefused`,
`StartThread`, `LoopTakesTask`, `LoopFindsNoTask`, `TaskReturns`, `Done*`, `After*`,
`JoinDead`, `ExitThread` follow the loop; `Shutdown`, `ShutdownExitCheck`,
`ShutdownObtainDead`, `ShutdownJoinDead`, `ShutdownReturns` the thread that shuts
the pool down. The constant `IdleNotifier` selects the pool of an isolate group,
whose workers first wait for the idle time and may release the monitor to notify
the heap. `accepted`, `refused` and `finished` are history, used by the mapping to
`TaskPool`.

### PortSet

`map` gives the port in each slot (entries are abstracted to ports). The set is
used under the mutex of the port map, so there is no interleaving; `Rehash` moves
one entry a step only because it is a loop. A search is stated without a loop:
`FoundAt(p, k)` says that the probe sequence of `p` finds it after `k` steps.
`open` is history: the ports allocated and not closed.

### MessageHandler

One handler of one of three kinds (`h.kind`, chosen at the start from `Kinds`): a
native port, an isolate on its group's pool, an isolate whose embedder calls
`Dart_HandleMessage`. `PauseKinds` says which of them receive `Isolate.pause`: the
runs leave it out for embedders, because of disagreement 4 below. `WaitInOOB` says
whether an out-of-band message may call `Dart_WaitForEvent` (disagreement 3). `task` is
the place of `TaskCallback`; `frames` is the stack of calls of `HandleMessages`,
which nest through interrupts (`HandleOOBMessages`) and `Dart_WaitForEvent`
(`PauseAndHandleAllMessages`). What a message does when it is handled is one of
`Outcomes` (success, an error, a shutdown) and `Effects` (pause, resume, changes of
ports). A poster holds the mutex of the port map from the lookup to the end of
`MessageNotify`, as in the code. Messages are model values; the contents of
messages are left out.

The start callback is left out since every caller passes NULL.

### Safepoint

`safepoint_state[t]` is the atomic word, a record of its four bits. The fast paths
(`EnterSafepoint`, `ExitSafepoint`) compare and swap the whole word; if that fails
the thread goes on to `enter_lock` or `exit_lock`, the critical sections of its
`thread_lock`. Only the two walks over the active list (`RequestSafepoint`,
`ResumeThread`) hold `threads_lock` over several steps, one per visited thread,
so every thread can move between two visits; a walk visits the threads in any order,
which covers the order of the list. `cont[t]` is where a thread goes on
when it leaves the safepoint. The operation itself is the place `operating`.

Calls of the API made while typed data is acquired are limited to acquiring and
releasing: the entry points that allocate or call back into Dart return an error
in that state. The timed wait for awaited threads is a guard, since it looks at
the counter again at least every second.

### ThreadBarrier

`arrived` and `passed` count the calls of `Sync` a thread has made and that have
returned; the other variables are the fields of the class and the local
`old_parity`. The main thread destroys the barrier after its own `Exit`, as
`GCMarker`, `Scavenger` and `GCCompactor` do. Here a thread makes any number of
rounds up to a bound; `Marker` extends the module and calls `Sync` where the mark
tasks do.

### Marker

Objects are plain (one pointer slot), weak properties, or code. A behaviour starts
with the concurrent marking or with the parallel one. In the first the mutator loads
and stores pointers; a store and its write barrier are two steps, so a marker can
come between. `at[m]` is the place of a task in `RunEnteredIsolateGroup`; loading a
pointer, testing its mark bit and setting it are separate steps (`todo[m]` holds
what was loaded). `work`, `shared`, `deferred` and `block` are the block lists with
blocks of `BlockSize` objects. `root_slices_started`, `weak_slices_started` and
`num_busy` are the atomic counters. `quiet` is history: with it a weak property can be
required to be cleared *exactly* when its key is not reachable, without it only
objects reachable at the end are required to be marked.

### OldSpace

What a mutator has to do is a sequence `todo[t]` of steps, since operations call
each other (an idle notification may scavenge, start marking, or collect; a scavenge
may be followed by a collection). `Operations` lists what a mutator may begin. The
safepoint is that of `Safepoint` seen from outside: `SafepointThreads(t)` is possible when
every other mutator is at a poll or waits with a safepoint check, and marker and sweeper
tasks bypass it. Sizes and deadlines, which decide what is collected when, are
arbitrary choices. The list of large pages is kept with its links, because the
sweeper, the scavenger and allocation use it at the same time; the other pages have
no part in the properties. `mapped` is history: the pages that have not been freed.

### TimerHeap and Timers

`TimerHeap` has the operations on the array as functions from list to list.
`Timers` keeps the static fields of `_Timer` in the record `q`; the Dart methods are
operators from `q` to `q`, so that one action is one uninterrupted stretch of
Dart code: handling a message up to the first callback, the callback itself
(in which timers are created and cancelled), the microtasks after it, the end of the
loop with its `finally`. The event handler thread takes requests from a pipe
(`HandleInterruptFd`) and sends a message when its timeout has passed
(`HandleTimerFd`). A plan is the sequence of timers the program creates; when it
does so, and what it cancels, is arbitrary.

### Reload

`pc[i]` is where the thread of an isolate is, `op[i]` what it came for: isolates enter
the rendezvous when they are created, when they end, when they handle a reload
message and when they request a reload themselves. Waits are `sleeping`, and every
wait can end spuriously. Leaving and entering the isolate inside the rendezvous goes
through the mutator count, as `Thread::ExitIsolate` and `EnterIsolate` do; marking a
worker as blocked and releasing its slot are one step. Threads of embedders, which
enter isolates from outside the pool, are left out. With a semi-space so small that
`max_active_mutators_` is 1 (`--new_gen_semi_max_size=1`) the model still applies, but
was checked with two.

### Lifecycle

One thread per isolate carries it from the spawn to the end (`pc[i]`): queued on the
VM's pool, group registered, listed, ready, created, running, and the steps of
`Dart_ShutdownIsolate` back. Any creation can fail at any of the places where the
code can fail. A group is named after its first isolate and ends in
`IsolateGroup::Shutdown`, inline or on the VM's pool. `cleanup` is where
`Dart_Cleanup` is. `ForEachIsolate` and `VisitIsolate` are the killer's visits, under the
locks the code holds.

`request[i]` is how far a thread is with a request to the kernel isolate: it starts the
kernel isolate if nobody has yet, waits for its port, posts the request and waits for the
answer. Requests come from a running isolate (expression evaluation, reload) and from
the callback of a spawn that loads its script from source, before its isolate exists (null
safety) and once it is ready (compilation). A compilation and its acceptance are one
request. `Source` is the set of isolates that make requests, `MayFail` the set of system
isolates that may end by an error.

Steps that nobody else can tell apart are one: the lock of a group is taken with the first
visit; the last release of the locks goes with the check that follows; resetting
`isolate_` of a system isolate goes with its `UnregisterIsolate`; a spawn task starts the
isolate's message handler as it decrements the spawn count; a group is unregistered as
its pool is found empty; whoever shut a group down goes on as it is deleted.

## 3. What TLC checks

Each run lists the properties in its `.cfg`; the comment above a property in its
module says which code it is about. The type invariants (`TypeOK`, `MarkerTypeOK`)
describe the variables and are not among the questions of the runs.

| Run | Instance | States | Shows |
|---|---|---|---|
| `threadpool` | 3 workers, 3 tasks, limit 1, idle hook, fair | 30,717 | every queued task has a worker awake for it, every dead worker one joiner, blocked workers are replaced; the pool implements `TaskPool`: accepted tasks start in order and finish, `Shutdown` returns after the last (lists, counters, limit and joins: section 4) |
| `portset` | 8 colliding ids, 8 slots growing to 16 | 431,901 | a search finds exactly the open ports and ends |
| `handler_safety` | all three kinds of handlers; 2 events, 2 out-of-band, 1 control message, 2 ports, nesting 2 | 1,714,879 | one task at a time, no message is stranded in a queue, with a thread that waits for messages or with an embedder, no use after deletion, `live_ports_` exact |
| `handler_live` | native and pool handlers; 2 events, 1 out-of-band message, fair | 23,024 | every message is taken unless the isolate ends or stays paused; a closed native handler is deleted |
| `safepoint` | 2 mutators, a helper with or without bypass, nesting 2, data acquired twice, fair | 86,746 | an operation runs alone, the count of awaited threads is exact, no request is left behind, acquired data is not exposed to an operation; a requested safepoint is reached; threads wait only while operations go on |
| `marker` | 2 tasks, 4 heaps of 6 objects, blocks of one object, fair | 439,490 | everything reachable is marked, weak properties live exactly as long as their keys, `num_busy` is exact, the tasks are in the same phase; marking ends |
| `old_space` | 2 mutators, 2 marker tasks, the sweeper, 2 large pages, 3 operations, fair | 288,456 | the phase and the counts are true, nobody uses the heap beside whoever needs it alone, the list of large pages stays intact and the scavenger walks live pages only, no task outlives the group; every operation ends |
| `timers` | 3 timers, 5 programs, clock to 5, 1 cancellation, 1 exception, fair | 246,454 | no wakeup is lost, no timer fires early or out of order (unless one threw), one message per zero timer, the port is open while and only while timers are pending, every timer fires; the heap is right for up to 7 timers |
| `reload` | 3 isolates, 2 mutator slots, 2 reloads, 2 tasks, fair | 739,669 | a reload runs alone and outside every `NoReloadScope`, the counters of the rendezvous and the slots are exact, everyone goes on afterwards |
| `lifecycle` | 2 application isolates, of which the spawned one uses the compiler, service isolate, a kernel isolate that may fail, fair | 942,325 | no isolate escapes the kill, a spawner outlives the tasks of its spawns, a group its isolates; the cleanup enters the VM isolate alone, nothing runs after it, and it returns unless an answer of the kernel isolate got lost (section 5) |

Two runs end in a violation and show where the code disagrees with what its comments
say (section 5): `handler_error_exit` and `reload_scope`.

**Bounds.** Three workers are enough for one that runs, one that sleeps or dies,
and one that is created meanwhile; there are more tasks than the limit (the proofs
cover pools without one). The ids of `portset` share slots in tables of 8 and of 16
slots, so probe sequences overlap and wrap around, deleted slots are reused, and
both kinds of rehash (growing and flushing) happen. `MaxDepth` bounds the nesting
of `HandleMessages`: two levels are an interrupted handler. For safepoints three
threads give a requester, a thread that is asked, and a third that starts an operation, enters or leaves meanwhile;
`MaxNesting` and `MaxAcquired` bound the two counters.

With two mark tasks and blocks of one object every push publishes a block, so the
tasks steal from each other; the heaps have a pointer that the mutator can hide
behind a scanned object, weak properties whose keys are reached through each other
or not at all, a cycle, and a temporary. `Rounds` is only the type's bound, chosen
above what is reached. Three operations of two mutators are enough for a marking that
is started, one that finds it running, and a third that finalises, sweeps, iterates or
scavenges beside the sweeper; two pages for a list whose head, tail and only element
are freed. Five programs of timers have zero timers around others, equal wakeup times
and a periodic timer that falls behind; callbacks cancel periodic timers at
`MaxRuns` ticks. Three isolates and two slots make one wait for a slot while the
others meet; a second reload finds threads that are still coming back from the first.
Two application isolates are a spawner and a spawned one, in one group or two. The spawned
one (`Source`) makes requests in each of the three ways, and with a second isolate that
makes them the instance would take too long for a liveness check; that requests of several
isolates compete is left out, as the kernel isolate answers each on its own. With
`MayFail = {kernel, service}` (1,265,689 states) all properties hold too.

**Deadlock** is checked for `PortSet`, `Safepoint`, `Marker`, `OldSpace` and `Reload`,
whose final states are named (`Finished`, `AtRest`) and stutter. The other models stop
when all tasks, messages or timers are used up, which is no error;
that nothing stops too early is checked by the liveness properties.

**Fairness.** Assumed is only that a thread that can run is scheduled.
- `ThreadPool`: a started task returns, and a worker blocked in native code comes
  back; the idle wait ends because it has a timeout. Nothing is assumed of the
  worker timeout (a flag turns it off), of spurious wakeups, of the callers.
- `MessageHandler`: the pool starts its tasks (shown for `ThreadPool`), a message is
  handled to its end. Strong fairness is used where handling is interrupted by
  out-of-band messages (of which there are finitely many) and where the port map's
  mutex is contended.
- `Safepoint`: VM code returns, blocks or checks for safepoints, and generated code
  with an interrupt pending reaches its next stack check, which compiled code has
  in every function and loop. Generated code is *not* assumed to return to the VM
  or call native code by itself, nor native code to return. An operation ends. Native
  code that has acquired typed data releases all of it in the end; this is asked of the
  embedder, and nothing in the VM enforces it. Strong fairness says so: with weak fairness it could release one list and
  acquire another forever, and the requester would wait for it.
  A thread that wants to enter may be overtaken by further operations again and
  again, because `threads_lock` is not fair: `BlockedOnlyForOperations` says just
  that it is not kept waiting once they stop.
- `Marker`: tasks outside a wait, or notified, go on; the mutator completes a store and
  reaches the safepoint in which `MarkObjects` runs.
- `OldSpace`: mutators go on with what they have begun, tasks run. That mutators reach
  their polls is what `Safepoint` shows.
- `Timers`: the isolate handles its messages and its callbacks return, the event
  handler runs, time passes.
- `Reload`: threads go on, a task for a pending out-of-band message is started (shown for
  `MessageHandler`), a task ends and a `NoReloadScope` is left. A thread that is in such
  a scope and in the loop over its messages has nothing else to do than to take the
  next one: that is what `reload_scope` is about, and `EveryoneGoesOn` is about the
  threads that are not caught there.
- `Lifecycle`: as long as some creation, end or shutdown or `Dart_Cleanup` can go on one of
  them does, and as long as a request can go on one does; an isolate with a kill message
  ends. An isolate is *not* assumed to end by itself.

## 4. What is proved

TLAPS checks the following for all values of the constants that satisfy the named
assumptions.

**ThreadPoolProofs** (any finite set of workers, any tasks, any limit;
`ThreadPoolAssumption`). The inductive invariant `IInv` relates the lists to the
places of the threads, the counters to the sizes of the lists, the queue to the
idle workers that are awake, the local lists of dead workers to each other, and the
history to queue and tasks. It is needed because each property rests on the others:
that no wakeup is lost (`EveryTaskHasAWorker`) follows from a comparison of
counters in `ScheduleTaskLocked`, so the counters have to be right, and they are
right only if each worker is in the list that its place says. From it follow
`TypeCorrect`, `ListsCorrect`, `NoLostWakeup`, `BlockedWorkersAreReplaced`,
`LimitCorrect`, `OneJoiner`, `ShutdownIsComplete`, `ShutdownLeavesNoThread`, the
action property `DeadForever`, and `Refinement`: `ThreadPool` implements `TaskPool`
(its safety part) under the mapping at the end of `ThreadPool.tla`.

**PortSetProofs** (any finite set of ids of the form that `AllocatePort` produces,
any initial capacity divisible by four; `PortSetAssumption`). The theorems assume
that the generator does not draw the marker 3: with it they are false
(section 5). The invariant says that no slot between a port's home slot and its
place is free, that no port is entered twice, the same of the half-filled table in
`Rehash`, and that the counters are exact with the slack that the thresholds of
`MaintainInvariants` leave in each phase. `LookupCorrect`, `SearchesTerminate` and
`CountersCorrect` follow; the last of the three is what keeps a free slot in the
table.

**MarkerProofs, the barrier** (any finite set of threads, any number of rounds;
`BarrierAssumption`). `RoundsLineUp` is not inductive. `BarrierInv` adds that all threads
have completed the same number of rounds, where a thread in its wait has completed
its round exactly if `parity_` has changed since, and that `remaining_` is the
number of threads that have neither arrived in this round nor exited.
`TypeCorrect`, `SyncLinesUp` and `DestroyedAfterLastUse` follow for a client that makes
a fixed number of rounds and exits. The lemmas about `Sync` and `Exit` do not depend on
the client, and the marker uses them too.

**MarkerProofs, the marker** (any finite set of mark tasks, any heap of plain
objects, weak properties and code, any size of the blocks, any number of loads and
stores of the mutator, any bound on the calls of `Sync`; `MarkerAssumption`, which says that a key is not code and that a
temporary is on the stack). `MarkingCorrect`, `WeakCorrect` and `PhasesCorrect` state
the three invariants of the `marker` run. None is inductive: that marking is complete is
known only at the end, from counters that each task has changed on its own. `MarkerInv`
has `BarrierInv` and five parts.

- *In step* (`InStep`). The calls of `Sync` cut a marking into segments (draining,
  a round over the weak properties, the decision, the deferred objects, the weak
  slices, the end). All tasks are in the same segment, where one that waits counts as
  being where it called `Sync`. Hence a task that has left a barrier knows what all
  others have done before it.
- *Who has work* (`LocalOK`, `CountOK`, `SharedOK`). `num_busy_` is the number of
  tasks that have not given up. A non-empty block, a loaded pointer or a block in the
  shared list implies such a task, so `num_busy_ = 0` means that the work is done.
  A task that saw work and gets busy again too late, when all others have stopped, finds
  nothing and gives up in turn; the invariant allows for it.
- *Tricolour* (`Tricolour`, `DeferredOK`, `RootsOK`). What a marked object refers to is
  marked, loaded by some task, on the deferred list, or just stored and not yet through
  the write barrier, unless the object is itself still to be scanned. A weak
  property is done when it waits in some `delayed` list or its key is marked and its
  value held. Roots are held once their slice has been started and left.
- *Rounds* (`RoundsOK`). After a round either some task has found a weak property with a
  marked key and says so, or none has one. This is what allows the tasks to stop.
- *Only reachable objects are known* (`OnlyReachable`), if no mutator has run. It gives
  the other direction of `MarksWhatIsReachable`: nothing else is marked.

At the end no object is gray and none is on its way, so the marked objects are a set that
is closed under `Closed`, and `Reachable` is the least such set (`MarkingComplete`).
`MarkerInv` was checked with TLC on the instance of the `marker` run before it was
proved.

**LifecycleProofs** (any finite set of application isolates, any of which may use the
compiler, system isolates that may fail or not; `LifecycleAssumption`). `IInv` says of every list, counter and flag that it
is what the places of the threads imply: who accepts messages, has an open port, is
listed, is counted (`ListsExact`, `CountsExact`); a group is live while an isolate is in
it (`GroupsLive`); whoever is being created has a parent that waits (`ParentsWait`);
whoever has not got the kill is still to be visited (`KillReaches`). The subtle part is
`NoGroupNoIsolate`: when `Dart_Cleanup` finds the list of groups empty no isolate is on
its way either, because a queued child has a parent in a live group, a queued kernel
isolate somebody who waits for its port (an isolate, or a callback whose parent waits for
it), and the service isolate has been waited for.
`TypeCorrect`, `KillAlwaysPosted`, `KillReachesAll`, `SpawnersWait`, `GroupsEndLast` and
`CleanupIsLast` follow. `IInv` itself was checked with TLC on the instance of `lifecycle`.

**SafepointProofs** (any finite set of threads, any `MaxNesting` and `MaxAcquired`;
`SafepointAssumption`). None of the three properties is inductive. `IInv` says for every
thread whether the place it is at implies that it is at a safepoint (`AtSafepoint`) and
what its other bits, its execution state and its continuation are (`Consistent`); who
owns the operation, holds `threads_lock` and is in the list (`Roles`); that a thread is
requested exactly if the walk has come to it, it does not bypass safepoints and is not
the owner (`Requests`); and that the count is that of the requested threads which are not
at a safepoint, none once the owner operates (`Counts`). Most steps touch one thread only
and are dealt with by `LocalPreserves`; the walks, entering and leaving the group have
proofs of their own. `TypeCorrect`, `WorldStops`, `CountCorrect` and `DataStays` follow.

**ReloadProofs** (any finite set of isolates, any number of slots, reloads and tasks;
`ReloadAssumption`). `IInv` adds to the exact counters what a thread may have come for at
each place (`Places`), that `reloading_thread_` is the one requester and the number of
isolates that it has read is still right (`OneRequester`), and that once it reloads all
others take part (`OthersTakePart`): those that checked in are registered, are not the
requester and are as many as the others, hence are the others. `TypeCorrect`,
`CountersCorrect`, `SlotsCorrect` and `ReloadAlone` follow. Both invariants were checked
with TLC on the instances of `safepoint` and `reload`.

**MessageHandlerProofs** (any messages, any finite set of ports, any nesting of
`HandleMessages`; `HandlerAssumption`, which says that events, out-of-band and control
messages are different messages). `OneTask` and `NoUseAfterDelete` rest on each other and
on where the handler is: `IInv` adds who calls `HandleMessages` from where (`Stack`), that
`PortMap::mutex_` keeps the port of a message open until it is delivered (`MutexHeld`),
and with whom the deletion of the handler is at each moment: for an isolate its ports are
closed first (`IsolateLife`); for a native port it is with the closer, with the task that
runs, or done (`NativeLife`). `NextInvariant` shows that each action keeps it, through a
few named steps on frames: of a task (`TaskPreserves`), of a call inside a message
(`InnerPreserves`), of the posters (`PostStep`), of the ports (`PortStep`), of the closer
(`CloserFrame`) and of the shutdown (`ShutdownStep`). `TypeCorrect`, `TasksCorrect`,
`PortsCorrect` and `DeletionCorrect` follow.

`NoStrandedMessage` is proved in three parts, each with an invariant of its own on top of
`IInv`. For the pool: a task gives up only after a look at the queues in the critical
section in which it clears `task_running_`, in whichever of the four loops of
`TaskCallback` it is (`Drained` with `Bottom`); this part has no further condition
(`PoolHears`). For a thread that waits: only out-of-band messages are handled inside a
wait, so `paused_for_messages_` is true as long as somebody waits (`Waiting`); this needs
`~WaitInOOB` (`WaiterCorrect`). For an embedder: the messages in the queues are never more
than the notifications it has not answered, counting a post that has yet to notify and a
call that has yet to take its message (`Answered`); this needs that no message pauses its
isolate (`EmbedderCorrect`). The two conditions are those without which the code strands
messages (3 and 4 in section 5), so `NoMessageStranded` assumes both, as the runs do.
All these invariants were checked with TLC with three nested calls before they were proved.

**OldSpaceProofs** (any mutators, any finite set of marker tasks, any large pages, any
number of operations; `OldSpaceAssumption`, which also says that the initial pages are
different pages). What a thread may assume depends on how far its operation has come, so
the first part of the invariant is about `todo`. Every step has a mode in which it is
taken and one that it leads to (`Entry`, `Exit`: `free`, `marking`, `begun`, `starting`,
`sweeping`, `ending`, `visiting`, `iterating`, `iterated`); what a thread still has to do
is a path (`Leads`) from the mode and the safepoint nesting it is at to `free` and no
safepoint, and only the owner of the safepoint is in another mode than `free`
(`ThreadsInv`). Each of `Operations`, and each continuation that an action puts in front
of the rest, is shown to be such a path. `HeapInv` then says what phase, counters, tasks
and marker are for each mode of the owner; this is where it matters that
`PageSpace::CollectGarbage`, when it is to start marking, and `HeapIterationScope` look at
the phase in the same critical section in which they find that no task runs. `PagesInv` names the list that the links form, and says that
the page the scavenger visits lies before the tail it has read, and that the sweeper's
`prev` is the page before the one it sweeps or the page is the first; the two never run
on the list together. That appending a page and unlinking one keep the list are lemmas
about any such list (`ChainAppend`, `ChainRemove`). `PhaseCorrect`, `QuietCorrect`,
`PagesCorrect` and `ShutdownCorrect` follow.

The lemmas of `MarkerProofs`, `MessageHandlerProofs` and `OldSpaceProofs` assume what
they need of the library about finite sets and naturals (`CountFacts`, `LibraryFacts`),
which `Library` proves near the end of each module; the theorems do not assume it.

**Only model-checked:** everything about liveness (the prover has no support for
fairness and ENABLED), the types of `OldSpace`, and `Timers` as a whole: `NoLostWakeup`
and `HeapCorrect` rest on what the recursive operations of the heap compute, which this
prover cannot show for every input.

## 5. Disagreements between code and documentation

With a run that shows the sequence (quotations in `PROJECT.json`):

1. `message_handler.cc:414` – an isolate that failed, was paused on exit and is
   resumed handles further events, since its error is a local variable of the task
   that has returned (`handler_error_exit`).
2. `isolate_reload.cc:2651` – a thread that handles out-of-band messages inside a
   `NoReloadScope` sends the reload message to itself again and takes it from the queue
   at once, forever (`reload_scope`). The scopes that run Dart code without deferring
   messages are in `exceptions.cc:1143`, `isolate.cc:1518` and `object.cc:18134`.

Met while modelling, and kept out of the passing runs by a constant that can be
changed to see them:

3. `message_handler.cc:329` – `paused_for_messages_` is a flag; a wait nested in
   a wait resets it and the outer wait is no longer notified, although
   `message_handler.h:69` says that it blocks until a message arrives (`WaiterHears`, a
   part of `NoStrandedMessage`, with
   `WaitInOOB = TRUE` and `MaxDepth = 3`).
4. `message_handler.cc:277` – with one `Dart_HandleMessage` for each notification, as
   `dart_api.h:1320` asks for, events that arrive during `Isolate.pause` are left
   in the queue after the resume (`EmbedderHears`, likewise, with
   `"embedder"` in `PauseKinds`).
5. `port.cc:58` – the `continue` of the do-while loop in `AllocatePort` jumps to the
   loop's condition, so the marker 3 of deleted slots can be returned as a port,
   although the comment above says that it cannot (`PortSet` with 3 in `Draw`). The
   probability of drawing it is 2^-50.
6. `service_isolate.cc:528` – `Shutdown` tests `IsRunning()` and then sets `kStopping` in
   another critical section; if the service isolate ends by an error in between,
   the cleanup waits forever (`StopLost`, with the service isolate in `MayFail`). The
   assertion at l. 531 shows that this is not expected.

One more is in the passing run, as a case that `CleanupReturns` names:

7. `kernel_isolate.cc:878` – a request to the kernel isolate waits for its answer without
   a timeout, and nobody tells it when the kernel isolate ends. If this happens to the callback of a
   spawn, its parent waits for it (`isolate.cc:3590`) and `Dart_Cleanup` for the parent's
   group, forever (`AnswerLost`). There are two ways to it. The kernel isolate ends by an
   error (`kernel_isolate.cc:150`). Or `Dart_Cleanup` stops it: at `dart.cc:532` it waits for
   the application only if the service or the kernel isolate is running, so if both are
   still starting (or the service isolate has failed to) the kernel isolate is
   killed with a request in its queue. With `MayFail = {}` only the second is possible. Once
   `Dart_Cleanup` has waited for the application no answer can be lost, and without a lost
   answer (or 6) it returns: that is what the property says.

About timers: a callback that throws ends the run of due timers, and those that were
left are queued again behind timers created meanwhile, so the order holds only until
something throws (`FifoUnlessThrown`); a periodic timer whose callback throws is not
scheduled again. No comment promises otherwise.

In passing: `kRestart` is never produced, no port is made a
control port and no message has a delivery failure port outside the tests, so these
are not modelled.

## 6. Plan

Done: thread pool, port set, message handler, safepoints, thread barrier, marking,
the phases of the old space, timers, the reload rendezvous, the life cycle of
isolates with `Dart_Cleanup`, and the proofs of section 4. In this order:

1. `SafepointRwLock` (`lockers.cc`): re-entrant readers, a writer that may read,
   and waits that have to block for a safepoint; composed with `Safepoint`. Deadlock
   freedom, exclusion.
2. The background compiler's queue and stop protocol
   (`compiler/jit/compiler.cc`); the tokens of the event handler; interrupts with
   the deferral of message interrupts (`thread.cc`).
3. The parallel scavenger (`heap/scavenger.cc`), whose termination is that of the
   marker with promotion and weak properties of its own.
4. Proofs: the types of `OldSpace`.

## 7. Not modelled

- The compiler back end, the object model, snapshots, the kernel loader, the front
  end, dart2js, the analyzer: sequential transformations of large data structures,
  better served by tests and out of a model checker's reach as a whole.
- The heap's layout, free lists, growth policy and compaction: sequential code inside a
  safepoint operation.
- The comparison and exchange of programs in a reload, likewise.
- The C++ memory model: the atomic words are
  modelled as sequentially consistent. The orderings used for `safepoint_state_`
  (release on entry, acquire on the request) publish the thread's data, which the
  model does not contain.
- The branch of the marker for no marker tasks (`--marker_tasks=0`), which is sequential,
  and black allocation during concurrent marking: `Marker` has no allocation.
- The service protocol, apart from the resume request: it formats JSON.
- Sockets, files and processes of dart:io: operating system I/O.
- Tracing, names, statistics and timeline events.

## Running

    tlc -config <run>.cfg <module>     # module and cfg of each run: PROJECT.json
    tlapm ThreadPoolProofs.tla         # about ten minutes, the others up to six
