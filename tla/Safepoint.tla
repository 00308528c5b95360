------------------------------ MODULE Safepoint ------------------------------
(***************************************************************************)
(* The safepoint protocol of one isolate group: SafepointHandler           *)
(* (runtime/vm/heap/safepoint.cc), the transitions of a thread between     *)
(* generated, VM, native and blocked code (safepoint.h, thread.h), the     *)
(* list of active threads (isolate.cc, thread_registry.cc) and             *)
(* WaitWithSafepointCheck (lockers.cc).                                    *)
(*                                                                         *)
(* A step is an atomic update of safepoint_state_, or a critical section   *)
(* of a thread_lock or of threads_lock.  Only the walks over the active    *)
(* list hold threads_lock for several steps, one for each thread visited:  *)
(* the thread they visit needs no lock for its fast paths.  The order of   *)
(* the list is left open: a walk visits its threads in any order.          *)
(***************************************************************************)
EXTENDS Integers, FiniteSets

CONSTANTS
  Thread,      \* threads that may enter the group
  Mutator,     \* those that run isolates
  Bypass,      \* helpers that may be scheduled with bypass_safepoint
  NoThread,
  MaxNesting,  \* bound: nested safepoint operations of one thread
  MaxAcquired  \* bound: typed data a thread has acquired at once

ASSUME SafepointAssumption ==
  /\ IsFiniteSet(Thread)
  /\ Mutator \subseteq Thread
  /\ Bypass \subseteq Thread \ Mutator
  /\ NoThread \notin Thread
  /\ MaxNesting \in Nat \ {0}
  /\ MaxAcquired \in Nat

VARIABLES
  active,           \* active_list_
  safepoint_state,  \* the bits of safepoint_state_
  execution_state,
  interrupted,      \* kVMInterrupt is set in stack_limit_
  acquired,         \* no_callback_scope_depth_
  pc,               \* where a thread is in this protocol, see Places
  cont,             \* where it goes when it may leave the safepoint
  threads_lock,     \* the thread that walks the active list
  todo,             \* the threads it has still to visit
  owner,            \* owner_
  operation_count,  \* safepoint_operation_count_
  not_at_safepoint  \* number_threads_not_at_safepoint_

handler == <<owner, operation_count, not_at_safepoint>>
walk == <<threads_lock, todo>>
vars == <<active, safepoint_state, execution_state, interrupted, acquired, pc,
          cont, walk, handler>>

Places ==
  {"out",         \* not scheduled
   "entry_wait", "entry_woken",  \* in ScheduleThreadLocked
   "run",
   "handle", "check",            \* in HandleInterrupts
   "enter_lock", "exit_lock", "block_lock",  \* a fast path has failed
   "wait", "woken",              \* blocked until the operation is over
   "begin_wait", "begin_woken",  \* another operation is in progress
   "relock",      \* back from the safepoint, to lock threads_lock again
   "requesting", "gathering", "operating", "resuming"}

Bits == [at : BOOLEAN, requested : BOOLEAN, blocked : BOOLEAN, bypass : BOOLEAN]

TypeOK ==
  /\ active \subseteq Thread
  /\ safepoint_state \in [Thread -> Bits]
  /\ execution_state \in
       [Thread -> {"VM", "Generated", "Native", "Blocked"}]
  /\ interrupted \in [Thread -> BOOLEAN]
  /\ acquired \in [Thread -> 0..MaxAcquired]
  /\ pc \in [Thread -> Places]
  /\ cont \in [Thread -> {"VM", "Generated", "handle", "relock"}]
  /\ threads_lock \in Thread \cup {NoThread}
  /\ todo \subseteq Thread
  /\ owner \in Thread \cup {NoThread}
  /\ operation_count \in 0..MaxNesting
  /\ not_at_safepoint \in 0..Cardinality(Thread)

(* The values of safepoint_state_ that the fast paths compare with. *)
Unacquired == [at |-> FALSE, requested |-> FALSE, blocked |-> FALSE,
               bypass |-> FALSE]
Acquired == [Unacquired EXCEPT !.at = TRUE]

Init ==
  /\ active = {}
  /\ safepoint_state = [t \in Thread |-> Acquired]
  /\ execution_state = [t \in Thread |-> "Native"]
  /\ interrupted = [t \in Thread |-> FALSE]
  /\ acquired = [t \in Thread |-> 0]
  /\ pc = [t \in Thread |-> "out"]
  /\ cont = [t \in Thread |-> "VM"]
  /\ threads_lock = NoThread /\ todo = {}
  /\ owner = NoThread /\ operation_count = 0 /\ not_at_safepoint = 0

SafepointInProgress == operation_count > 0 /\ owner # NoThread
Requested(t) == safepoint_state[t].requested
Goto(t, place) == pc' = [pc EXCEPT ![t] = place]
SetExecution(t, e) == execution_state' = [execution_state EXCEPT ![t] = e]
SetBits(t, s) == safepoint_state' = [safepoint_state EXCEPT ![t] = s]

-----------------------------------------------------------------------------
(* Reaching and leaving a safepoint. *)

(* A requested thread that reports itself is no longer waited for. *)
CheckIn(t) ==
  not_at_safepoint' = not_at_safepoint - (IF Requested(t) THEN 1 ELSE 0)

(* EnterSafepoint: one compare-and-swap, or the way over the lock. *)
EnterSafepoint(t) ==
  IF safepoint_state[t] = Unacquired
  THEN SetBits(t, Acquired) /\ UNCHANGED pc
  ELSE Goto(t, "enter_lock") /\ UNCHANGED safepoint_state

EnterSafepointUsingLock(t) ==
  /\ pc[t] = "enter_lock"
  /\ SetBits(t, [safepoint_state[t] EXCEPT !.at = TRUE])
  /\ CheckIn(t)
  /\ Goto(t, "run")
  /\ UNCHANGED <<active, execution_state, interrupted, acquired, cont, walk,
                 owner, operation_count>>

(* What a thread does once it has left the safepoint. *)
Continue(t) ==
  /\ Goto(t, IF cont[t] \in {"handle", "relock"} THEN cont[t] ELSE "run")
  /\ IF cont[t] \in {"VM", "Generated"} THEN SetExecution(t, cont[t])
                                        ELSE UNCHANGED execution_state
  /\ cont' = [cont EXCEPT ![t] = "VM"]

(* ExitSafepoint, and then execution state e. *)
ExitSafepoint(t, e) ==
  IF safepoint_state[t] = Acquired
  THEN /\ SetBits(t, Unacquired)
       /\ SetExecution(t, e)
       /\ UNCHANGED <<pc, cont>>
  ELSE /\ Goto(t, "exit_lock")
       /\ cont' = [cont EXCEPT ![t] = e]
       /\ UNCHANGED <<safepoint_state, execution_state>>

(* One turn of the loop around tl.Wait(), with thread_lock held. *)
WaitForResume(t) ==
  IF Requested(t)
  THEN /\ SetBits(t, [safepoint_state[t] EXCEPT !.at = TRUE, !.blocked = TRUE])
       /\ Goto(t, "wait")
       /\ UNCHANGED <<execution_state, cont>>
  ELSE /\ SetBits(t, [safepoint_state[t] EXCEPT !.at = FALSE,
                                                !.blocked = FALSE])
       /\ Continue(t)

ExitSafepointUsingLock(t) ==
  /\ pc[t] = "exit_lock"
  /\ WaitForResume(t)
  /\ UNCHANGED <<active, interrupted, acquired, walk, handler>>

BlockForSafepoint(t) ==
  /\ pc[t] = "block_lock"
  /\ WaitForResume(t)
  /\ CheckIn(t)
  /\ UNCHANGED <<active, interrupted, acquired, walk, owner, operation_count>>

Resumed(t) ==
  /\ pc[t] = "woken"
  /\ WaitForResume(t)
  /\ UNCHANGED <<active, interrupted, acquired, walk, handler>>

(* A condition variable may return without being notified. *)
SpuriousWakeup(t) ==
  /\ \/ pc[t] = "wait" /\ Goto(t, "woken")
     \/ pc[t] = "begin_wait" /\ Goto(t, "begin_woken")
     \/ pc[t] = "entry_wait" /\ Goto(t, "entry_woken")
  /\ UNCHANGED <<active, safepoint_state, execution_state, interrupted,
                 acquired, cont, walk, handler>>

-----------------------------------------------------------------------------
(* The transitions of a running thread. *)

In(t, e) == pc[t] = "run" /\ execution_state[t] = e

(* The fast check of the request; the thread blocks, then goes to place. *)
CheckRequest(t, place) ==
  IF Requested(t)
  THEN /\ Goto(t, "block_lock")
       /\ cont' = [cont EXCEPT ![t] = IF place = "run" THEN "VM" ELSE place]
  ELSE Goto(t, place) /\ UNCHANGED cont

GeneratedToVM(t) ==
  /\ In(t, "Generated")
  /\ SetExecution(t, "VM")
  /\ CheckRequest(t, "run")
  /\ UNCHANGED <<active, safepoint_state, interrupted, acquired, walk, handler>>

(* The stack check fails: the StackOverflow runtime entry. *)
StackOverflow(t) ==
  /\ In(t, "Generated")
  /\ interrupted[t]
  /\ SetExecution(t, "VM")
  /\ CheckRequest(t, "handle")
  /\ UNCHANGED <<active, safepoint_state, interrupted, acquired, walk, handler>>

HandleInterrupts(t) ==
  /\ pc[t] = "handle"
  /\ interrupted' = [interrupted EXCEPT ![t] = FALSE]
  /\ Goto(t, IF interrupted[t] THEN "check" ELSE "run")
  /\ UNCHANGED <<active, safepoint_state, execution_state, acquired, cont,
                 walk, handler>>

(* CheckForSafepoint, in HandleInterrupts or in the compiler's loops. *)
CheckForSafepoint(t) ==
  /\ \/ pc[t] = "check"
     \/ In(t, "VM") /\ Requested(t) /\ ~safepoint_state[t].bypass
  /\ CheckRequest(t, "run")
  /\ UNCHANGED <<active, safepoint_state, execution_state, interrupted,
                 acquired, walk, handler>>

VMToGenerated(t) ==
  /\ In(t, "VM") /\ t \in Mutator
  /\ SetExecution(t, "Generated")
  /\ UNCHANGED <<active, safepoint_state, interrupted, acquired, pc, cont,
                 walk, handler>>

(* TransitionVMToNative and TransitionGeneratedToNative. *)
ToNative(t, e) ==
  /\ In(t, e) /\ t \in Mutator
  /\ SetExecution(t, "Native")
  /\ EnterSafepoint(t)
  /\ UNCHANGED <<active, interrupted, acquired, cont, walk, handler>>

VMToBlocked(t) ==
  /\ In(t, "VM")
  /\ SetExecution(t, "Blocked")
  /\ EnterSafepoint(t)
  /\ UNCHANGED <<active, interrupted, acquired, cont, walk, handler>>

NativeTo(t, e) ==
  /\ In(t, "Native") /\ acquired[t] = 0
  /\ ExitSafepoint(t, e)
  /\ UNCHANGED <<active, interrupted, acquired, walk, handler>>

BlockedToVM(t) ==
  /\ In(t, "Blocked")
  /\ ExitSafepoint(t, "VM")
  /\ UNCHANGED <<active, interrupted, acquired, walk, handler>>

(* Wrong variant: the return to native code enters a safepoint. *)
TypedDataAcquireData_AtSafepoint(t) ==
  /\ In(t, "VM") /\ t \in Mutator
  /\ acquired[t] < MaxAcquired
  /\ acquired' = [acquired EXCEPT ![t] = @ + 1]
  /\ SetExecution(t, "Native")
  /\ EnterSafepoint(t)
  /\ UNCHANGED <<active, interrupted, cont, walk, handler>>

(* Dart_TypedDataAcquireData returns to native code, not at a safepoint. *)
TypedDataAcquireData(t) ==
  /\ \/ In(t, "VM") /\ acquired[t] = 0
     \/ In(t, "Native") /\ acquired[t] > 0
  /\ t \in Mutator
  /\ acquired[t] < MaxAcquired
  /\ acquired' = [acquired EXCEPT ![t] = @ + 1]
  /\ SetExecution(t, "Native")
  /\ UNCHANGED <<active, safepoint_state, interrupted, pc, cont, walk, handler>>

TypedDataReleaseData(t) ==
  /\ In(t, "Native")
  /\ acquired[t] > 0
  /\ acquired' = [acquired EXCEPT ![t] = @ - 1]
  /\ IF acquired[t] = 1 THEN EnterSafepoint(t)
                        ELSE UNCHANGED <<safepoint_state, pc>>
  /\ UNCHANGED <<active, execution_state, interrupted, cont, walk, handler>>

-----------------------------------------------------------------------------
(* Entering and leaving the isolate group. *)

(* Wrong variant: a thread enters the group during an operation. *)
ScheduleThread_NoWait(t) ==
  \E bypass \in BOOLEAN :
    /\ bypass => t \in Bypass
    /\ pc[t] = "out"
    /\ threads_lock = NoThread
    /\ active' = active \cup {t}
    /\ SetExecution(t, "VM")
    /\ SetBits(t, [Unacquired EXCEPT !.bypass = bypass])
    /\ Goto(t, "run")
    /\ UNCHANGED <<interrupted, acquired, cont, walk, handler>>

ScheduleThread(t) ==
  \E bypass \in BOOLEAN :
    /\ bypass => t \in Bypass /\ pc[t] = "out"
    /\ pc[t] \in {"out", "entry_woken"}
    /\ threads_lock = NoThread
    /\ IF SafepointInProgress /\ ~bypass
       THEN /\ Goto(t, "entry_wait")
            /\ UNCHANGED <<active, safepoint_state, execution_state>>
       ELSE /\ active' = active \cup {t}
            /\ SetExecution(t, "VM")
            /\ SetBits(t, [Unacquired EXCEPT !.bypass = bypass])
            /\ Goto(t, "run")
    /\ UNCHANGED <<interrupted, acquired, cont, walk, handler>>

(* Wrong variant: the thread leaves without entering the safepoint. *)
UnscheduleThread_NoCheckIn(t) ==
  /\ In(t, "VM")
  /\ threads_lock = NoThread
  /\ active' = active \ {t}
  /\ SetExecution(t, "Native")
  /\ SetBits(t, Acquired)
  /\ Goto(t, "out")
  /\ UNCHANGED <<interrupted, acquired, cont, walk, handler>>

(* EnterSafepoint is called with threads_lock held: no walk is under way. *)
UnscheduleThread(t) ==
  /\ In(t, "VM")
  /\ threads_lock = NoThread
  /\ CheckIn(t)
  /\ active' = active \ {t}
  /\ SetExecution(t, "Native")
  /\ SetBits(t, Acquired)
  /\ Goto(t, "out")
  /\ UNCHANGED <<interrupted, acquired, cont, walk, owner, operation_count>>

-----------------------------------------------------------------------------
(* A safepoint operation. *)

(* The loop of SafepointThreads: wait at a safepoint, or become the owner. *)
StartOrWait(t) ==
  IF SafepointInProgress
  THEN /\ Goto(t, "begin_wait")
       /\ SetExecution(t, "Blocked")
       /\ SetBits(t, [safepoint_state[t] EXCEPT !.at = TRUE])
       /\ CheckIn(t)
       /\ UNCHANGED <<walk, owner, operation_count>>
  ELSE /\ owner' = t /\ operation_count' = 1
       /\ threads_lock' = t /\ todo' = active
       /\ Goto(t, "requesting")
       /\ SetExecution(t, "VM")
       /\ SetBits(t, [safepoint_state[t] EXCEPT !.at = FALSE])
       /\ UNCHANGED not_at_safepoint

SafepointThreads(t) ==
  /\ In(t, "VM") /\ ~safepoint_state[t].bypass
  /\ threads_lock = NoThread
  /\ StartOrWait(t)
  /\ UNCHANGED <<active, interrupted, acquired, cont>>

(* WaitWithSafepointCheck returns: the fast path, or through the lock. *)
WaitWithSafepointCheck(t) ==
  /\ threads_lock = NoThread
  /\ \/ /\ pc[t] = "begin_woken" /\ safepoint_state[t] = Acquired
        /\ StartOrWait(t)
        /\ UNCHANGED cont
     \/ /\ pc[t] = "begin_woken" /\ safepoint_state[t] # Acquired
        /\ Goto(t, "exit_lock")
        /\ cont' = [cont EXCEPT ![t] = "relock"]
        /\ UNCHANGED <<safepoint_state, execution_state, walk, handler>>
     \/ /\ pc[t] = "relock"
        /\ StartOrWait(t)
        /\ UNCHANGED cont
  /\ UNCHANGED <<active, interrupted, acquired>>

(* Wrong variant: no interrupt is scheduled for a mutator. *)
RequestSafepoint_NoInterrupt(t) == \E u \in todo :
  LET counted == u # t /\ ~safepoint_state[u].bypass /\ ~safepoint_state[u].at
  IN
  /\ pc[t] = "requesting"
  /\ safepoint_state' =
       IF safepoint_state[u].bypass THEN safepoint_state
       ELSE IF u = t THEN [safepoint_state EXCEPT ![u].at = TRUE]
       ELSE [safepoint_state EXCEPT ![u].requested = TRUE]
  /\ not_at_safepoint' = not_at_safepoint + (IF counted THEN 1 ELSE 0)
  /\ todo' = todo \ {u}
  /\ IF todo # {u} THEN UNCHANGED <<threads_lock, pc>>
                   ELSE threads_lock' = NoThread /\ Goto(t, "gathering")
  /\ UNCHANGED <<active, execution_state, interrupted, acquired, cont, owner,
                 operation_count>>

(* The first visit to thread u: request the safepoint, count u if needed. *)
RequestSafepoint(t) == \E u \in todo :
  LET counted == u # t /\ ~safepoint_state[u].bypass /\ ~safepoint_state[u].at
  IN
  /\ pc[t] = "requesting"
  /\ safepoint_state' =
       IF safepoint_state[u].bypass THEN safepoint_state
       ELSE IF u = t THEN [safepoint_state EXCEPT ![u].at = TRUE]
       ELSE [safepoint_state EXCEPT ![u].requested = TRUE]
  /\ not_at_safepoint' = not_at_safepoint + (IF counted THEN 1 ELSE 0)
  /\ interrupted' = [interrupted EXCEPT ![u] = @ \/ (counted /\ u \in Mutator)]
  /\ todo' = todo \ {u}
  /\ IF todo # {u} THEN UNCHANGED <<threads_lock, pc>>
                   ELSE threads_lock' = NoThread /\ Goto(t, "gathering")
  /\ UNCHANGED <<active, execution_state, acquired, cont, owner,
                 operation_count>>

(* The timed wait for number_threads_not_at_safepoint_ ends. *)
AllAtSafepoint(t) ==
  /\ pc[t] = "gathering"
  /\ not_at_safepoint = 0
  /\ Goto(t, "operating")
  /\ UNCHANGED <<active, safepoint_state, execution_state, interrupted,
                 acquired, cont, walk, handler>>

NestedSafepointThreads(t) ==
  /\ pc[t] = "operating"
  /\ threads_lock = NoThread
  /\ owner = t /\ operation_count < MaxNesting
  /\ operation_count' = operation_count + 1
  /\ UNCHANGED <<active, safepoint_state, execution_state, interrupted,
                 acquired, pc, cont, walk, owner, not_at_safepoint>>

ResumeThreads(t) ==
  /\ pc[t] = "operating"
  /\ threads_lock = NoThread
  /\ IF operation_count > 1
     THEN /\ operation_count' = operation_count - 1
          /\ UNCHANGED <<pc, walk>>
     ELSE /\ threads_lock' = t /\ todo' = active
          /\ Goto(t, "resuming")
          /\ UNCHANGED operation_count
  /\ UNCHANGED <<active, safepoint_state, execution_state, interrupted,
                 acquired, cont, owner, not_at_safepoint>>

(* Wrong variant: the threads that wait to enter are not notified. *)
Notified_BlockedOnly(t, u, over) ==
  [x \in Thread |->
     IF x = u /\ pc[x] = "wait" /\ safepoint_state[x].blocked THEN "woken"
     ELSE IF over /\ x = t THEN "run"
     ELSE pc[x]]

(* tl.Notify() for a blocked thread; NotifyAll when the walk t is over. *)
Notified(t, u, over) ==
  [x \in Thread |->
     IF x = u /\ pc[x] = "wait" /\ safepoint_state[x].blocked THEN "woken"
     ELSE IF ~over THEN pc[x]
     ELSE IF x = t THEN "run"
     ELSE IF pc[x] = "begin_wait" THEN "begin_woken"
     ELSE IF pc[x] = "entry_wait" THEN "entry_woken"
     ELSE pc[x]]

(* The second visit to thread u: withdraw the request, wake u. *)
ResumeThread(t) == \E u \in todo :
  LET over == todo = {u} IN
  /\ pc[t] = "resuming"
  /\ safepoint_state' =
       IF safepoint_state[u].bypass THEN safepoint_state
       ELSE IF u = t THEN [safepoint_state EXCEPT ![u].at = FALSE]
       ELSE [safepoint_state EXCEPT ![u].requested = FALSE]
  /\ pc' = Notified(t, u, over)
  /\ todo' = todo \ {u}
  /\ IF over THEN threads_lock' = NoThread /\ owner' = NoThread
                  /\ operation_count' = 0
             ELSE UNCHANGED <<threads_lock, owner, operation_count>>
  /\ UNCHANGED <<active, execution_state, interrupted, acquired, cont,
                 not_at_safepoint>>

-----------------------------------------------------------------------------
LeavesVM(t) ==
  \/ CheckForSafepoint(t) \/ VMToGenerated(t) \/ ToNative(t, "VM")
  \/ VMToBlocked(t)
  \/ TypedDataAcquireData(t) \/ UnscheduleThread(t) \/ SafepointThreads(t)

(* Steps inside the protocol, which a thread takes without further ado. *)
Proceeds(t) ==
  \/ EnterSafepointUsingLock(t) \/ ExitSafepointUsingLock(t)
  \/ BlockForSafepoint(t) \/ Resumed(t) \/ HandleInterrupts(t)
  \/ WaitWithSafepointCheck(t)
  \/ RequestSafepoint(t) \/ AllAtSafepoint(t) \/ ResumeThread(t)

Next ==
  \E t \in Thread :
    \/ Proceeds(t)
    \/ LeavesVM(t)
    \/ GeneratedToVM(t) \/ StackOverflow(t) \/ ToNative(t, "Generated")
    \/ \E e \in {"VM", "Generated"} : NativeTo(t, e)
    \/ BlockedToVM(t)
    \/ TypedDataReleaseData(t)
    \/ ScheduleThread(t)
    \/ NestedSafepointThreads(t) \/ ResumeThreads(t)
    \/ SpuriousWakeup(t)

Spec == Init /\ [][Next]_vars

(* VM code returns or checks for safepoints, generated code checks the     *)
(* stack limit, acquired data is released (in the end all that a thread    *)
(* holds, not some while it acquires more), an operation ends, and a       *)
(* thread that was woken gets to run.  Nothing makes a thread start an     *)
(* operation, leave native code, or wake up spuriously.                    *)
Fairness ==
  \A t \in Thread :
    /\ WF_vars(Proceeds(t))
    /\ WF_vars(LeavesVM(t))
    /\ WF_vars(StackOverflow(t))
    /\ WF_vars(TypedDataReleaseData(t))
    /\ SF_vars(acquired[t] = 1 /\ TypedDataReleaseData(t))
    /\ WF_vars(operation_count = 1 /\ ResumeThreads(t))
    /\ WF_vars(operation_count > 1 /\ ResumeThreads(t))
    /\ WF_vars(pc[t] = "entry_woken" /\ ScheduleThread(t))

FairSpec == Spec /\ Fairness

-----------------------------------------------------------------------------
(* While a thread operates, no other thread of the group executes VM or    *)
(* generated code, except the tasks that bypass safepoints.                *)
Executes(t) ==
  /\ pc[t] \in {"run", "handle", "check"}
  /\ execution_state[t] \in {"VM", "Generated"}
StopTheWorld ==
  \A t \in Thread : pc[t] = "operating" =>
    \A u \in {v \in Thread \ {t} : ~safepoint_state[v].bypass} :
      ~Executes(u) /\ pc[u] \notin {"requesting", "gathering", "operating",
                                    "resuming"}

(* Native code may use acquired typed data: no operation runs meanwhile.   *)
AcquiredDataStays ==
  \A t, u \in Thread : pc[t] = "operating" => acquired[u] = 0

(* number_threads_not_at_safepoint_ is the number of threads that were     *)
(* asked to come to the safepoint and have not reported themselves.        *)
(* Between operations no request is left behind, and a thread that counts  *)
(* as blocked has been woken.                                              *)
CountExact ==
  /\ not_at_safepoint =
       Cardinality({t \in Thread : Requested(t) /\ ~safepoint_state[t].at})
  /\ owner = NoThread =>
       \A t \in Thread : ~Requested(t) /\ pc[t] # "wait"
                         /\ (safepoint_state[t].blocked => pc[t] = "woken")

(* A thread that has requested a safepoint gets it.                        *)
OperationStarts ==
  \A t \in Thread : pc[t] = "requesting" ~> pc[t] = "operating"

(* A thread is kept waiting only while operations go on.                   *)
Waiting == {"entry_wait", "entry_woken", "wait", "woken", "begin_wait",
            "begin_woken", "exit_lock", "relock"}
BlockedOnlyForOperations ==
  \A t \in Thread : []<>(owner # NoThread \/ pc[t] \notin Waiting)

=============================================================================
