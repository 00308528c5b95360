-------------------------------- MODULE Reload --------------------------------
(***************************************************************************)
(* Hot reload of an isolate group: the rendezvous of its isolates          *)
(* (ReloadHandler, runtime/vm/isolate_reload.cc), the limit on mutators    *)
(* that run at the same time (IsolateGroup::IncreaseMutatorCount,          *)
(* isolate.cc) and the way isolates come, run tasks and go.                *)
(*                                                                         *)
(* Every isolate has at most one thread; pc says where it is and op what   *)
(* it came for.  A thread that sleeps on a condition variable is in        *)
(* sleeping, and its pc tells on which one.  A step is a critical section  *)
(* of the monitor named in its comment.  The pool is the one ThreadPool    *)
(* describes, reduced to the number of its workers.                        *)
(***************************************************************************)
EXTENDS Integers, FiniteSets

CONSTANTS
  Isolate,
  Main,         \* the first isolate of the group
  NoIsolate,
  MaxMutators,  \* max_active_mutators_, and the size of the group's pool
  MaxReloads,   \* bound: reloads that may be requested
  MaxEvents     \* bound: tasks started for other messages

ASSUME ReloadAssumption ==
  /\ IsFiniteSet(Isolate) /\ Main \in Isolate /\ NoIsolate \notin Isolate
  /\ MaxMutators \in Nat \ {0} /\ MaxReloads \in Nat /\ MaxEvents \in Nat

VARIABLES
  pc, op,
  sleeping,
  isolates,   \* isolates_ of the group
  pool,       \* isolates whose thread is a worker of the group's pool
  oob,        \* kCheckForReload messages in the queue of each isolate
  noReload,   \* isolates in a NoReloadScope
  active_mutators,
  registered_isolate_count, reloading_thread, isolates_checked_in,
  registered, \* what the requester read of registered_isolate_count_
  reloads, events

handler == <<registered_isolate_count, reloading_thread,
             isolates_checked_in, registered>>
world == <<isolates, pool, noReload, events>>
vars == <<pc, op, sleeping, oob, active_mutators, handler, world, reloads>>

Ops == {"none", "spawn", "task", "shutdown",
        "register", "unregister", "check", "pause"}
(* The places in the while loop of ParticipateIfReloadRequested. *)
Participation == {"exit", "wait", "enter", "recheck"}
HandlerOps == {"register", "unregister", "check", "pause"}

Participates(i) == op[i] \in HandlerOps /\ pc[i] \in Participation

(* Isolates that the handler has counted and not yet taken off. *)
Registered ==
  {i \in Isolate :
     /\ pc[i] \notin {"none", "append", "left", "gone"}
     /\ op[i] \notin {"spawn", "register"}}

CheckedIn == {i \in Isolate : Participates(i) /\ op[i] # "register"}

(* Threads that have entered their isolate. *)
Entered ==
  {i \in Isolate : pc[i] \notin {"none", "idle", "enter", "wait", "gone"}}

(* The first isolate has been created and registered by its creator. *)
Init ==
  /\ pc = [i \in Isolate |-> IF i = Main THEN "idle" ELSE "none"]
  /\ op = [i \in Isolate |-> "none"]
  /\ sleeping = {}
  /\ isolates = {Main}
  /\ pool = {}
  /\ oob = [i \in Isolate |-> 0]
  /\ noReload = {}
  /\ active_mutators = 0
  /\ registered_isolate_count = 1
  /\ reloading_thread = NoIsolate
  /\ isolates_checked_in = 0
  /\ registered = 0
  /\ reloads = 0
  /\ events = 0

Goto(i, where, what) ==
  /\ pc' = [pc EXCEPT ![i] = where]
  /\ op' = [op EXCEPT ![i] = what]

-----------------------------------------------------------------------------
(* Entering and leaving: the mutator count. *)

(* Where a thread is once it has entered its isolate. *)
Inside(i) ==
  CASE op[i] = "task" -> "run"
    [] op[i] = "spawn" -> "append"
    [] op[i] = "shutdown" -> "close"
    [] OTHER -> "recheck"

(* active_mutators_monitor_: IncreaseMutatorCount.  waiting_mutators_ is   *)
(* the number of threads that sleep here.                                  *)
IncreaseMutatorCount(i) ==
  /\ pc[i] = "enter" /\ i \notin sleeping
  /\ IF active_mutators = MaxMutators
     THEN /\ sleeping' = sleeping \cup {i}
          /\ UNCHANGED <<pc, active_mutators>>
     ELSE /\ active_mutators' = active_mutators + 1
          /\ pc' = [pc EXCEPT ![i] = Inside(i)]
          /\ UNCHANGED sleeping
  /\ UNCHANGED <<op, oob, handler, world, reloads>>

(* Wrong variant: the slot is not given back. *)
OneLess_Same == active_mutators

OneLess == active_mutators - 1

(* DecreaseMutatorCount: Notify() wakes one thread, if any waits. *)
DecreaseMutatorCount ==
  LET waiting == {j \in sleeping : pc[j] = "enter"} IN
  /\ active_mutators' = OneLess
  /\ IF waiting = {} THEN UNCHANGED sleeping
     ELSE \E j \in waiting : sleeping' = sleeping \ {j}

(* Mutators that wait for the end of a reload are blocked workers, which   *)
(* raise the size of the pool.                                             *)
PoolHasRoom ==
  Cardinality(pool)
    < MaxMutators + Cardinality({i \in Isolate : pc[i] = "wait"})

-----------------------------------------------------------------------------
(* The life of an isolate. *)

(* Isolate.spawn(): a task of the VM's pool enters the new isolate. *)
Spawn(i) ==
  /\ pc[i] = "none"
  /\ \E parent \in Isolate : pc[parent] = "run"
  /\ Goto(i, "enter", "spawn")
  /\ UNCHANGED <<sleeping, oob, active_mutators, handler, world, reloads>>

(* isolates_lock_: RegisterIsolate appends the isolate, then calls the     *)
(* handler's RegisterIsolate.                                              *)
Append(i) ==
  /\ pc[i] = "append"
  /\ isolates' = isolates \cup {i}
  /\ Goto(i, "call", "register")
  /\ UNCHANGED <<sleeping, oob, active_mutators, handler, pool, noReload,
                 events, reloads>>

(* The message handler's task: for a kCheckForReload message, or for some  *)
(* other message.                                                          *)
StartTask(i) ==
  /\ pc[i] = "idle"
  /\ PoolHasRoom
  /\ \/ oob[i] > 0 /\ UNCHANGED events
     \/ events < MaxEvents /\ events' = events + 1
  /\ Goto(i, "enter", "task")
  /\ pool' = pool \cup {i}
  /\ UNCHANGED <<sleeping, oob, active_mutators, handler, isolates, noReload,
                 reloads>>

(* The thread leaves the isolate: the spawning task by Dart_RunLoopAsync,  *)
(* the handler's task when its queue is empty.                             *)
Leave(i) ==
  /\ pc[i] = "run" /\ i \notin noReload
  /\ i \in pool => oob[i] = 0
  /\ Goto(i, "idle", "none")
  /\ pool' = pool \ {i}
  /\ DecreaseMutatorCount
  /\ UNCHANGED <<oob, handler, isolates, noReload, events, reloads>>

EnterNoReloadScope(i) ==
  /\ pc[i] = "run" /\ i \notin noReload /\ events < MaxEvents
  /\ noReload' = noReload \cup {i}
  /\ events' = events + 1
  /\ UNCHANGED <<pc, op, sleeping, oob, active_mutators, handler, isolates,
                 pool, reloads>>

LeaveNoReloadScope(i) ==
  /\ pc[i] = "run" /\ i \in noReload
  /\ noReload' = noReload \ {i}
  /\ UNCHANGED <<pc, op, sleeping, oob, active_mutators, handler, isolates,
                 pool, events, reloads>>

(* The task ends the isolate: it leaves it, and the end callback           *)
(* ShutdownIsolate enters it again.                                        *)
EndTask(i) ==
  /\ pc[i] = "run" /\ i \in pool /\ i \notin noReload
  /\ Goto(i, "enter", "shutdown")
  /\ DecreaseMutatorCount
  /\ UNCHANGED <<oob, handler, world, reloads>>

(* LowLevelShutdown closes the ports, with the messages that were queued. *)
ClosePorts(i) ==
  /\ pc[i] = "close"
  /\ Goto(i, "call", "unregister")
  /\ oob' = [oob EXCEPT ![i] = 0]
  /\ UNCHANGED <<sleeping, active_mutators, handler, world, reloads>>

(* isolates_lock_: the rest of UnregisterIsolate; then ExitIsolate. *)
Gone(i) ==
  /\ pc[i] = "left"
  /\ Goto(i, "gone", "none")
  /\ isolates' = isolates \ {i}
  /\ pool' = pool \ {i}
  /\ DecreaseMutatorCount
  /\ UNCHANGED <<oob, handler, noReload, events, reloads>>

-----------------------------------------------------------------------------
(* The rendezvous. *)

(* The message kCheckForReload is handled, in the main loop or, in the     *)
(* middle of Dart code, by HandleOOBMessages.                              *)
CheckForReload(i) ==
  /\ pc[i] \in {"run", "oob"} /\ oob[i] > 0
  /\ oob' = [oob EXCEPT ![i] = @ - 1]
  /\ Goto(i, "call", "check")
  /\ UNCHANGED <<sleeping, active_mutators, handler, world, reloads>>

(* HandleMessages returns only when it finds no further message. *)
OOBMessagesHandled(i) ==
  /\ pc[i] = "oob" /\ oob[i] = 0
  /\ Goto(i, "run", "task")
  /\ UNCHANGED <<sleeping, oob, active_mutators, handler, world, reloads>>

(* ReloadSources() and ReloadKernel(), where CanReload() allows it. *)
ReloadSources(i) ==
  /\ pc[i] = "run" /\ i \notin noReload /\ reloads < MaxReloads
  /\ reloads' = reloads + 1
  /\ Goto(i, "call", "pause")
  /\ UNCHANGED <<sleeping, oob, active_mutators, handler, world>>

(* What the caller of ParticipateIfReloadRequested does after it, still    *)
(* under monitor_.                                                         *)
Proceed(i) ==
  \/ /\ op[i] = "register"
     /\ registered_isolate_count' = registered_isolate_count + 1
     /\ Goto(i, "run", "task")
     /\ UNCHANGED <<reloading_thread, registered>>
  \/ /\ op[i] = "unregister"
     /\ registered_isolate_count' = registered_isolate_count - 1
     /\ Goto(i, "left", "none")
     /\ UNCHANGED <<reloading_thread, registered>>
  \/ /\ op[i] = "check"
     /\ Goto(i, "oob", "task")
     /\ UNCHANGED <<registered_isolate_count, reloading_thread, registered>>
  \/ /\ op[i] = "pause"
     /\ reloading_thread' = i
     /\ registered' = registered_isolate_count
     /\ Goto(i, "request", "pause")
     /\ UNCHANGED registered_isolate_count

(* NotifyAll() on checkin_monitor_. *)
NotifyRequester ==
  sleeping' = sleeping \ {j \in Isolate : pc[j] = "await"}

(* Wrong variant: an isolate that is not registered yet checks in too. *)
CheckIn_Unregistered(i) ==
  isolates_checked_in' = isolates_checked_in + 1 /\ NotifyRequester

(* An isolate that is registered checks in; the others only wait. *)
CheckIn(i) ==
  IF op[i] = "register" THEN UNCHANGED <<isolates_checked_in, sleeping>>
  ELSE /\ isolates_checked_in' = isolates_checked_in + 1
       /\ NotifyRequester

(* monitor_: ParticipateIfReloadRequested, up to where it leaves the       *)
(* isolate.  A thread in a NoReloadScope sends itself the message again.   *)
ParticipateIfReloadRequested(i) ==
  /\ pc[i] = "call"
  /\ \/ /\ reloading_thread = NoIsolate
        /\ Proceed(i)
        /\ UNCHANGED <<sleeping, oob, isolates_checked_in>>
     \/ /\ reloading_thread # NoIsolate /\ i \in noReload
        /\ oob' = [oob EXCEPT ![i] = @ + 1]
        /\ Goto(i, "oob", "task")
        /\ UNCHANGED <<sleeping, handler>>
     \/ /\ reloading_thread # NoIsolate /\ i \notin noReload
        /\ CheckIn(i)
        /\ Goto(i, "exit", op[i])
        /\ UNCHANGED <<oob, registered_isolate_count, reloading_thread,
                       registered>>
  /\ UNCHANGED <<active_mutators, world, reloads>>

(* ExitIsolate(nested): the mutator gives up its slot. *)
ExitIsolate(i) ==
  /\ pc[i] = "exit"
  /\ Goto(i, "wait", op[i])
  /\ DecreaseMutatorCount
  /\ UNCHANGED <<oob, handler, world, reloads>>

(* monitor_: the inner loop waits for the end of the reload; EnterIsolate  *)
(* comes after it.                                                         *)
WaitForReload(i) ==
  /\ pc[i] = "wait" /\ i \notin sleeping
  /\ IF reloading_thread # NoIsolate
     THEN sleeping' = sleeping \cup {i} /\ UNCHANGED <<pc, op>>
     ELSE Goto(i, "enter", op[i]) /\ UNCHANGED sleeping
  /\ UNCHANGED <<oob, active_mutators, handler, world, reloads>>

CheckOut(i) ==
  isolates_checked_in' =
    IF op[i] = "register" THEN isolates_checked_in
    ELSE isolates_checked_in - 1

(* The outer loop: another reload may have been requested meanwhile. *)
Again == reloading_thread # NoIsolate

(* monitor_: back in the isolate. *)
Recheck(i) ==
  /\ pc[i] = "recheck"
  /\ \/ /\ Again
        /\ Goto(i, "exit", op[i])
        /\ UNCHANGED handler
     \/ /\ ~Again
        /\ CheckOut(i)
        /\ Proceed(i)
  /\ UNCHANGED <<sleeping, oob, active_mutators, world, reloads>>

(* isolates_lock_: every isolate of the group is sent the message; it is   *)
(* lost where the ports are closed.                                        *)
SendCheckForReload(i) ==
  /\ pc[i] = "request"
  /\ oob' = [j \in Isolate |->
               IF j \in isolates /\ op[j] # "unregister" /\ pc[j] # "left"
               THEN oob[j] + 1 ELSE oob[j]]
  /\ Goto(i, "await", "pause")
  /\ UNCHANGED <<sleeping, active_mutators, handler, world, reloads>>

(* Wrong variant: the requester is counted among those that check in. *)
AllCheckedIn_OneLess == isolates_checked_in >= registered - 2

AllCheckedIn == isolates_checked_in >= registered - 1

(* checkin_monitor_: the requester waits for the others. *)
AwaitCheckIns(i) ==
  /\ pc[i] = "await" /\ i \notin sleeping
  /\ IF AllCheckedIn
     THEN Goto(i, "reload", "pause") /\ UNCHANGED sleeping
     ELSE sleeping' = sleeping \cup {i} /\ UNCHANGED <<pc, op>>
  /\ UNCHANGED <<oob, active_mutators, handler, world, reloads>>

(* Wrong variant: Notify() instead of NotifyAll(). *)
NotifyWaiters_One ==
  IF \E j \in sleeping : pc[j] = "wait"
  THEN \E j \in sleeping : pc[j] = "wait" /\ sleeping' = sleeping \ {j}
  ELSE UNCHANGED sleeping

(* NotifyAll() on monitor_. *)
NotifyWaiters == sleeping' = sleeping \ {j \in Isolate : pc[j] = "wait"}

(* monitor_: the reload has been done; everyone is woken. *)
ResumeIsolates(i) ==
  /\ pc[i] = "reload"
  /\ reloading_thread' = NoIsolate
  /\ NotifyWaiters
  /\ Goto(i, "run", "task")
  /\ UNCHANGED <<oob, active_mutators, registered_isolate_count,
                 isolates_checked_in, registered, world, reloads>>

-----------------------------------------------------------------------------
SpuriousWakeup(i) ==
  /\ i \in sleeping
  /\ sleeping' = sleeping \ {i}
  /\ UNCHANGED <<pc, op, oob, active_mutators, handler, world, reloads>>

(* The group may rest when none of its isolates has anything to do. *)
AtRest ==
  /\ \A i \in Isolate : pc[i] \in {"none", "idle", "gone"} /\ oob[i] = 0
  /\ UNCHANGED vars

(* What a thread does without being asked again. *)
Step(i) ==
  \/ IncreaseMutatorCount(i) \/ Append(i) \/ ClosePorts(i) \/ Gone(i)
  \/ ParticipateIfReloadRequested(i) \/ ExitIsolate(i) \/ WaitForReload(i)
  \/ Recheck(i) \/ SendCheckForReload(i) \/ AwaitCheckIns(i)
  \/ ResumeIsolates(i) \/ OOBMessagesHandled(i)

Next ==
  \/ AtRest
  \/ \E i \in Isolate :
       \/ Step(i)
       \/ Spawn(i) \/ StartTask(i) \/ Leave(i) \/ EndTask(i)
       \/ EnterNoReloadScope(i) \/ LeaveNoReloadScope(i)
       \/ CheckForReload(i) \/ ReloadSources(i)
       \/ SpuriousWakeup(i)

Spec == Init /\ [][Next]_vars

(* Threads make progress, scopes end, the pool starts tasks for queued     *)
(* messages, and a running isolate gets to its out-of-band messages or     *)
(* leaves.                                                                 *)
Progress(i) ==
  \/ Step(i) \/ LeaveNoReloadScope(i) \/ Leave(i)
  \/ oob[i] > 0 /\ StartTask(i)
  \/ CheckForReload(i) /\ (pc[i] = "oob" \/ i \notin noReload)

Fairness == \A i \in Isolate : WF_vars(Progress(i))

FairSpec == Spec /\ Fairness
-----------------------------------------------------------------------------
TypeOK ==
  /\ pc \in [Isolate -> {"none", "idle", "run", "append", "close", "left",
                         "gone", "call", "oob", "request", "await",
                         "reload"}
                          \cup Participation]
  /\ op \in [Isolate -> Ops]
  /\ sleeping \subseteq {i \in Isolate : pc[i] \in {"enter", "wait", "await"}}
  /\ isolates \subseteq Isolate /\ pool \subseteq Isolate
  /\ noReload \subseteq Isolate
  /\ oob \in [Isolate -> Nat]
  /\ active_mutators \in 0..MaxMutators
  /\ registered_isolate_count \in Nat /\ isolates_checked_in \in Nat
  /\ registered \in Nat
  /\ reloading_thread \in Isolate \cup {NoIsolate}

(* While the program is being reloaded, every other registered isolate is  *)
(* in the loop of ParticipateIfReloadRequested, and none has come or gone  *)
(* since the requester read the count: the requester runs alone, whatever  *)
(* overlaps of an earlier reload's end with this one's request.  No thread *)
(* is in a NoReloadScope: it would not check in, but send itself the       *)
(* message again.                                                          *)
ReloadIsAlone ==
  \A r \in Isolate :
    pc[r] = "reload" =>
      /\ \A i \in Registered \ {r} : Participates(i)
      /\ registered = Cardinality(Registered)
      /\ noReload = {}

(* isolates_checked_in_ and registered_isolate_count_ count what they say, *)
(* also for isolates that go from one reload into the next, that register  *)
(* or that unregister during one.                                          *)
CountersExact ==
  /\ isolates_checked_in = Cardinality(CheckedIn)
  /\ registered_isolate_count = Cardinality(Registered)

(* active_mutators_ is the number of threads inside their isolates: no     *)
(* slot leaks, whichever way an isolate is left and entered, and never are *)
(* more inside than there are slots.                                       *)
SlotsExact == /\ active_mutators = Cardinality(Entered)
              /\ active_mutators <= MaxMutators

(* A thread that handles its messages in a NoReloadScope takes out and     *)
(* puts back the same message until the reload is over, which waits for    *)
(* it.                                                                     *)
Spins == \E i \in noReload : pc[i] = "oob" /\ reloading_thread # NoIsolate

(* Unless a thread spins, a reload ends for everyone: the requester is not *)
(* left waiting, although slots and workers are limited and isolates are   *)
(* idle, starting or ending, and an isolate that took part goes on: no     *)
(* wakeup of the waiters, nor of those that wait for a slot, is lost.      *)
EveryoneGoesOn ==
  \A i \in Isolate :
    []<>(~(Participates(i) \/ reloading_thread = i) \/ Spins)

(* What the comments at ParticipateIfReloadRequested and CanReload say: a  *)
(* reload waits until every thread is out of its NoReloadScope, and is     *)
(* done.                                                                   *)
ReloadIsDone ==
  reloading_thread # NoIsolate ~> reloading_thread = NoIsolate
=============================================================================
