---------------------------- MODULE SafepointProofs ----------------------------
(***************************************************************************)
(* Proofs about Safepoint, for any finite set of threads, any nesting of   *)
(* operations and any amount of acquired data: an operation stops the      *)
(* world, and the number of threads it waits for is exact.                 *)
(***************************************************************************)
EXTENDS Safepoint, FiniteSetTheorems, TLAPS

(* A thread that is not in the group, and one that owns the operation. *)
Away == {"out", "entry_wait", "entry_woken"}
Owning == {"requesting", "gathering", "operating", "resuming"}

(* The types of what belongs to a thread. *)
ThreadTypes ==
  /\ safepoint_state \in [Thread -> Bits]
  /\ execution_state \in
       [Thread -> {"VM", "Generated", "Native", "Blocked"}]
  /\ interrupted \in [Thread -> BOOLEAN]
  /\ acquired \in [Thread -> 0..MaxAcquired]
  /\ pc \in [Thread -> Places]
  /\ cont \in [Thread -> {"VM", "Generated", "handle", "relock"}]

OtherTypes ==
  /\ active \subseteq Thread
  /\ threads_lock \in Thread \cup {NoThread}
  /\ todo \subseteq Thread
  /\ owner \in Thread \cup {NoThread}
  /\ operation_count \in 0..MaxNesting

(* Where a thread is tells whether it is at a safepoint: everywhere but in *)
(* VM code, in generated code and where it holds acquired data.            *)
AtSafepoint(t) ==
  /\ pc[t] \in Away \cup {"exit_lock", "wait", "woken", "begin_wait",
                          "begin_woken", "gathering", "operating"}
       => safepoint_state[t].at
  /\ pc[t] \in {"handle", "check", "block_lock", "relock", "enter_lock"}
       => ~safepoint_state[t].at
  /\ pc[t] = "run" =>
       (safepoint_state[t].at
          <=> \/ execution_state[t] = "Blocked"
              \/ execution_state[t] = "Native" /\ acquired[t] = 0)
  /\ pc[t] = "requesting" => (safepoint_state[t].at <=> t \notin todo)
  /\ pc[t] = "resuming" => (safepoint_state[t].at <=> t \in todo)

(* The other bits, the execution state and the way on. *)
Consistent(t) ==
  /\ pc[t] \in Away => ~safepoint_state[t].requested
                       /\ ~safepoint_state[t].bypass
  /\ safepoint_state[t].blocked <=> pc[t] \in {"wait", "woken"}
  /\ pc[t] = "wait" => safepoint_state[t].requested
  /\ safepoint_state[t].bypass =>
       /\ t \in Bypass
       /\ pc[t] \notin Owning \cup {"begin_wait", "begin_woken", "relock"}
       /\ cont[t] # "relock"
  /\ acquired[t] > 0 =>
       pc[t] = "run" /\ execution_state[t] = "Native" /\ t \in Mutator
  /\ pc[t] = "enter_lock" => execution_state[t] \in {"Native", "Blocked"}
  /\ pc[t] \in Owning \cup {"handle", "check"} => execution_state[t] = "VM"
  /\ cont[t] = "relock" => pc[t] \in {"exit_lock", "wait", "woken"}
  /\ cont[t] = "handle" => /\ pc[t] \in {"block_lock", "wait", "woken"}
                           /\ execution_state[t] = "VM"

(* The owner of the operation, the holder of threads_lock, the list. *)
Roles ==
  /\ \A t \in Thread :
       /\ pc[t] \in Owning <=> owner = t
       /\ pc[t] \in {"requesting", "resuming"} <=> threads_lock = t
       /\ t \in active <=> pc[t] \notin Away
  /\ owner = NoThread <=> operation_count = 0
  /\ todo = {} <=> threads_lock = NoThread
  /\ todo \subseteq active

(* Who has been asked to come to the safepoint, in each phase. *)
Asked(u, o) ==
  CASE pc[o] = "requesting" -> u \in active \ todo
    [] pc[o] = "resuming" -> u \in todo
    [] OTHER -> u \in active

Requests ==
  \A u \in Thread :
    /\ owner = NoThread => ~Requested(u)
    /\ owner # NoThread =>
         (Requested(u) <=> /\ Asked(u, owner)
                           /\ ~safepoint_state[u].bypass /\ u # owner)

(* The threads that are waited for. *)
Late == {t \in Thread : Requested(t) /\ ~safepoint_state[t].at}

Counts ==
  /\ not_at_safepoint = Cardinality(Late)
  /\ \A t \in Thread :
       pc[t] \in {"operating", "resuming"} => not_at_safepoint = 0

(* The inductive invariant. *)
IInv == /\ ThreadTypes /\ OtherTypes /\ Roles /\ Requests /\ Counts
        /\ \A t \in Thread : AtSafepoint(t) /\ Consistent(t)

-----------------------------------------------------------------------------
(* A set of threads is finite and can be counted, also when a thread joins *)
(* or leaves it.                                                           *)
LEMMA Counting ==
  ASSUME NEW S, S \subseteq Thread
  PROVE  /\ Cardinality(S) \in 0..Cardinality(Thread)
         /\ Cardinality(Thread) \in Nat
         /\ \A x : x \notin S => Cardinality(S \cup {x}) = Cardinality(S) + 1
         /\ \A x \in S : Cardinality(S \ {x}) = Cardinality(S) - 1
         /\ Cardinality(S) = 0 <=> S = {}
<1>1. IsFiniteSet(S) /\ IsFiniteSet(Thread)
  BY Zenon, SafepointAssumption, FS_Subset
<1>2. Cardinality(S) \in Nat /\ Cardinality(Thread) \in Nat
  BY Zenon, <1>1, FS_CardinalityType
<1>3. Cardinality(S) <= Cardinality(Thread)
  BY Zenon, <1>1, FS_Subset
<1>4. Cardinality(S) = 0 <=> S = {}
  BY Zenon, <1>1, FS_EmptySet
<1> QED
  BY <1>1, <1>2, <1>3, <1>4, FS_AddElement, FS_RemoveElement

(* The threads that are waited for, now and after a step, are threads. *)
LEMMA LateThreads == Late \subseteq Thread /\ Late' \subseteq Thread
BY Zenon DEF Late

(* number_threads_not_at_safepoint_ is at most the number of threads. *)
LEMMA CountIsNatural == IInv => not_at_safepoint \in 0..Cardinality(Thread)
BY Zenon, LateThreads, Counting DEF IInv, Counts

USE DEF Away, Owning, Goto, SetBits, SetExecution, Requested, In, walk,
        handler

(* The bits of a thread at a safepoint of which nothing is requested. *)
LEMMA AcquiredBits ==
  /\ Acquired \in Bits
  /\ Acquired.at /\ ~Acquired.requested /\ ~Acquired.blocked
  /\ ~Acquired.bypass
<1>1. Acquired \in Bits
  BY Zenon DEF Acquired, Unacquired, Bits
<1>2. Acquired.at /\ ~Acquired.requested
  BY Zenon DEF Acquired, Unacquired
<1>3. ~Acquired.blocked /\ ~Acquired.bypass
  BY Zenon DEF Acquired, Unacquired
<1> QED
  BY Zenon, <1>1, <1>2, <1>3

(* The bits of a thread in VM code of which nothing is requested. *)
LEMMA UnacquiredBits ==
  /\ Unacquired \in Bits
  /\ ~Unacquired.at /\ ~Unacquired.requested /\ ~Unacquired.blocked
  /\ ~Unacquired.bypass
<1>1. Unacquired \in Bits
  BY Zenon DEF Unacquired, Bits
<1>2. ~Unacquired.at /\ ~Unacquired.requested
  BY Zenon DEF Unacquired
<1>3. ~Unacquired.blocked /\ ~Unacquired.bypass
  BY Zenon DEF Unacquired
<1> QED
  BY Zenon, <1>1, <1>2, <1>3

(* Thread t has set two of its bits: the others are as before. *)
BitsSet(t, at, blocked) ==
  /\ safepoint_state' \in [Thread -> Bits]
  /\ \A u \in Thread \ {t} : safepoint_state'[u] = safepoint_state[u]
  /\ safepoint_state'[t].at <=> at
  /\ safepoint_state'[t].blocked <=> blocked
  /\ safepoint_state'[t].requested <=> safepoint_state[t].requested
  /\ safepoint_state'[t].bypass <=> safepoint_state[t].bypass

(* What the slow way into the safepoint writes. *)
LEMMA AtSet ==
  ASSUME ThreadTypes, NEW t \in Thread, NEW b \in BOOLEAN,
         SetBits(t, [safepoint_state[t] EXCEPT !.at = b])
  PROVE  BitsSet(t, b, safepoint_state[t].blocked)
<1> DEFINE s == safepoint_state[t]
           r == [s EXCEPT !.at = b]
<1>1. s \in Bits
  BY Zenon DEF ThreadTypes
<1>2. r \in Bits
  BY Zenon, <1>1 DEF Bits
<1>3. (r.at <=> b) /\ (r.requested <=> s.requested)
  BY Zenon, <1>1 DEF Bits
<1>4. (r.blocked <=> s.blocked) /\ (r.bypass <=> s.bypass)
  BY Zenon, <1>1 DEF Bits
<1>5. safepoint_state' = [safepoint_state EXCEPT ![t] = r]
  BY Zenon DEF SetBits
<1> HIDE DEF r
<1>6. safepoint_state'[t] = r /\ safepoint_state' \in [Thread -> Bits]
  BY Zenon, <1>2, <1>5 DEF ThreadTypes
<1>7. \A u \in Thread \ {t} : safepoint_state'[u] = safepoint_state[u]
  BY Zenon, <1>5 DEF ThreadTypes
<1> QED
  BY Zenon, <1>3, <1>4, <1>6, <1>7 DEF BitsSet

(* What the loop around the wait writes. *)
LEMMA AtAndBlockedSet ==
  ASSUME ThreadTypes, NEW t \in Thread, NEW b \in BOOLEAN,
         SetBits(t, [safepoint_state[t] EXCEPT !.at = b, !.blocked = b])
  PROVE  BitsSet(t, b, b)
<1> DEFINE s == safepoint_state[t]
           r == [s EXCEPT !.at = b, !.blocked = b]
<1>1. s \in Bits
  BY Zenon DEF ThreadTypes
<1>2. r \in Bits
  BY Zenon, <1>1 DEF Bits
<1>3. (r.at <=> b) /\ (r.requested <=> s.requested)
  BY Zenon, <1>1 DEF Bits
<1>4. (r.blocked <=> b) /\ (r.bypass <=> s.bypass)
  BY Zenon, <1>1 DEF Bits
<1>5. safepoint_state' = [safepoint_state EXCEPT ![t] = r]
  BY Zenon DEF SetBits
<1> HIDE DEF r
<1>6. safepoint_state'[t] = r /\ safepoint_state' \in [Thread -> Bits]
  BY Zenon, <1>2, <1>5 DEF ThreadTypes
<1>7. \A u \in Thread \ {t} : safepoint_state'[u] = safepoint_state[u]
  BY Zenon, <1>5 DEF ThreadTypes
<1> QED
  BY Zenon, <1>3, <1>4, <1>6, <1>7 DEF BitsSet

(* The fast paths succeed only if nothing was requested of the thread. *)
LEMMA FastEnter ==
  ASSUME ThreadTypes, NEW t \in Thread, EnterSafepoint(t)
  PROVE  \/ /\ BitsSet(t, TRUE, FALSE) /\ UNCHANGED pc
            /\ ~safepoint_state[t].requested /\ ~safepoint_state[t].at
            /\ ~safepoint_state[t].blocked
         \/ /\ UNCHANGED safepoint_state
            /\ pc' = [pc EXCEPT ![t] = "enter_lock"]
BY Zenon, AcquiredBits, UnacquiredBits DEF ThreadTypes, EnterSafepoint, BitsSet

(* The fast path out, likewise. *)
LEMMA FastExit ==
  ASSUME ThreadTypes, NEW t \in Thread, NEW e, ExitSafepoint(t, e)
  PROVE  \/ /\ BitsSet(t, FALSE, FALSE) /\ SetExecution(t, e)
            /\ ~safepoint_state[t].requested /\ safepoint_state[t].at
            /\ ~safepoint_state[t].blocked
            /\ UNCHANGED <<pc, cont>>
         \/ /\ UNCHANGED <<safepoint_state, execution_state>>
            /\ pc' = [pc EXCEPT ![t] = "exit_lock"]
            /\ cont' = [cont EXCEPT ![t] = e]
BY Zenon, AcquiredBits, UnacquiredBits DEF ThreadTypes, ExitSafepoint, BitsSet

(* A thread waits while it is requested and then goes on. *)
LEMMA WaitOrContinue ==
  ASSUME ThreadTypes, NEW t \in Thread, WaitForResume(t)
  PROVE  \/ /\ safepoint_state[t].requested /\ BitsSet(t, TRUE, TRUE)
            /\ pc' = [pc EXCEPT ![t] = "wait"]
            /\ UNCHANGED <<execution_state, cont>>
         \/ /\ ~safepoint_state[t].requested /\ BitsSet(t, FALSE, FALSE)
            /\ Continue(t)
<1>1. CASE Requested(t)
  BY Zenon, <1>1, AtAndBlockedSet DEF WaitForResume
<1>2. CASE ~Requested(t)
  BY Zenon, <1>2, AtAndBlockedSet DEF WaitForResume
<1> QED
  BY Zenon, <1>1, <1>2

(* The initial states satisfy the invariant. *)
LEMMA InitHolds == Init => IInv
<1> SUFFICES ASSUME Init PROVE IInv
  BY Zenon
<1>1. ThreadTypes
  BY SafepointAssumption, AcquiredBits DEF Init, ThreadTypes, Places
<1>2. OtherTypes
  BY SafepointAssumption DEF Init, OtherTypes
<1>3. \A t \in Thread :
        /\ safepoint_state[t].at /\ ~safepoint_state[t].requested
        /\ ~safepoint_state[t].blocked /\ ~safepoint_state[t].bypass
  BY Zenon, AcquiredBits DEF Init
<1>4. Roles /\ Requests
  BY Zenon, <1>3, SafepointAssumption DEF Init, Roles, Requests
<1>5. Late = {}
  BY Zenon, <1>3 DEF Late
<1>6. Counts
  BY Zenon, <1>5, FS_EmptySet DEF Init, Counts
<1>7. \A t \in Thread : AtSafepoint(t) /\ Consistent(t)
  BY <1>3 DEF Init, AtSafepoint, Consistent
<1> QED
  BY Zenon, <1>1, <1>2, <1>4, <1>6, <1>7 DEF IInv

-----------------------------------------------------------------------------
(* A step of thread t that concerns only its own state: its request and    *)
(* its membership in the group stay, and it is taken off the count when it *)
(* comes to the safepoint.                                                 *)
LocalStep(t) ==
  /\ UNCHANGED <<active, walk, owner, operation_count>>
  /\ \A u \in Thread \ {t} :
       /\ pc'[u] = pc[u] /\ safepoint_state'[u] = safepoint_state[u]
       /\ execution_state'[u] = execution_state[u]
       /\ acquired'[u] = acquired[u] /\ cont'[u] = cont[u]
  /\ safepoint_state'[t].requested <=> safepoint_state[t].requested
  /\ safepoint_state'[t].bypass <=> safepoint_state[t].bypass
  /\ pc[t] \in Away <=> pc'[t] \in Away
  /\ pc[t] \notin Owning /\ pc'[t] \notin Owning
  /\ \/ /\ (safepoint_state'[t].requested /\ ~safepoint_state'[t].at)
             <=> (safepoint_state[t].requested /\ ~safepoint_state[t].at)
        /\ UNCHANGED not_at_safepoint
     \/ /\ safepoint_state[t].requested
        /\ ~safepoint_state[t].at /\ safepoint_state'[t].at
        /\ not_at_safepoint' = not_at_safepoint - 1

(* Such a step preserves the invariant if it leaves the thread in order. *)
LEMMA LocalPreserves ==
  ASSUME IInv, NEW t \in Thread, LocalStep(t), ThreadTypes',
         AtSafepoint(t)', Consistent(t)'
  PROVE  IInv'
<1>1. OtherTypes' /\ Roles'
  BY Zenon DEF IInv, LocalStep, OtherTypes, Roles
<1>2. Requests'
  <2>1. \A o \in Thread : pc[o] \in Owning => pc'[o] = pc[o]
    BY Zenon DEF LocalStep
  <2>2. \A u \in Thread : /\ Requested(u)' <=> Requested(u)
                          /\ safepoint_state'[u].bypass
                               <=> safepoint_state[u].bypass
    BY Zenon DEF LocalStep
  <2>3. owner # NoThread => pc[owner] \in Owning /\ owner \in Thread
    BY Zenon DEF IInv, OtherTypes, Roles
  <2>4. \A u \in Thread : owner # NoThread =>
          (Asked(u, owner)' <=> Asked(u, owner))
    BY Zenon, <2>1, <2>3 DEF LocalStep, Asked
  <2> QED
    BY Zenon, <2>2, <2>4 DEF IInv, Requests, LocalStep
<1>3. \/ Late' = Late /\ UNCHANGED not_at_safepoint
      \/ /\ t \in Late /\ Late' = Late \ {t}
         /\ not_at_safepoint' = not_at_safepoint - 1
  BY Zenon DEF LocalStep, Late
<1>4. not_at_safepoint' = Cardinality(Late')
  BY Zenon, <1>3, LateThreads, Counting DEF IInv, Counts
<1>5. not_at_safepoint = 0 => not_at_safepoint' = 0
  BY Zenon, <1>3, LateThreads, Counting DEF IInv, Counts
<1>6. Counts'
  BY Zenon, <1>4, <1>5 DEF IInv, Counts, LocalStep
<1>7. \A u \in Thread : AtSafepoint(u)' /\ Consistent(u)'
  BY DEF IInv, LocalStep, AtSafepoint, Consistent
<1> QED
  BY Zenon, <1>1, <1>2, <1>6, <1>7 DEF IInv

(* The slow way into the safepoint.                                        *)
LEMMA EnterSafepointUsingLockStep ==
  ASSUME IInv, NEW t \in Thread, EnterSafepointUsingLock(t)
  PROVE  IInv'
<1>0. BitsSet(t, TRUE, safepoint_state[t].blocked)
  BY Zenon, AtSet DEF IInv, EnterSafepointUsingLock, CheckIn
<1>1. ThreadTypes'
  BY Zenon, <1>0
     DEF IInv, ThreadTypes, Places, BitsSet, EnterSafepointUsingLock,
      CheckIn
<1>2. LocalStep(t)
  BY <1>0, CountIsNatural DEF IInv, ThreadTypes, AtSafepoint, Consistent,
      LocalStep, BitsSet, EnterSafepointUsingLock, CheckIn
<1>3. AtSafepoint(t)'
  BY <1>0 DEF IInv, ThreadTypes, AtSafepoint, Consistent, BitsSet,
      EnterSafepointUsingLock, CheckIn
<1>4. Consistent(t)'
  BY Zenon, <1>0 DEF IInv, ThreadTypes, AtSafepoint, Consistent, BitsSet,
      EnterSafepointUsingLock, CheckIn
<1> QED
  BY Zenon, <1>1, <1>2, <1>3, <1>4, LocalPreserves

(* The slow way out of it blocks while a safepoint is requested.           *)
LEMMA ExitSafepointUsingLockStep ==
  ASSUME IInv, NEW t \in Thread, ExitSafepointUsingLock(t)
  PROVE  IInv'
<1>0. \/ /\ safepoint_state[t].requested /\ BitsSet(t, TRUE, TRUE)
         /\ pc' = [pc EXCEPT ![t] = "wait"]
         /\ UNCHANGED <<execution_state, cont>>
      \/ /\ ~safepoint_state[t].requested /\ BitsSet(t, FALSE, FALSE)
         /\ Continue(t)
  BY Zenon, WaitOrContinue DEF IInv, ExitSafepointUsingLock, Continue
<1>1. ThreadTypes'
  BY <1>0 DEF IInv, ThreadTypes, Places, BitsSet, ExitSafepointUsingLock,
      Continue
<1>2. LocalStep(t)
  BY <1>0 DEF IInv, ThreadTypes, AtSafepoint, Consistent, LocalStep, BitsSet,
      ExitSafepointUsingLock, Continue
<1>3. AtSafepoint(t)'
  BY <1>0 DEF IInv, ThreadTypes, AtSafepoint, Consistent, BitsSet,
      ExitSafepointUsingLock, Continue
<1>4. Consistent(t)'
  BY <1>0 DEF IInv, ThreadTypes, AtSafepoint, Consistent, BitsSet,
      ExitSafepointUsingLock, Continue
<1> QED
  BY Zenon, <1>1, <1>2, <1>3, <1>4, LocalPreserves

(* A thread that saw the request blocks, or finds it withdrawn.            *)
LEMMA BlockForSafepointStep ==
  ASSUME IInv, NEW t \in Thread, BlockForSafepoint(t)
  PROVE  IInv'
<1>0. \/ /\ safepoint_state[t].requested /\ BitsSet(t, TRUE, TRUE)
         /\ pc' = [pc EXCEPT ![t] = "wait"]
         /\ UNCHANGED <<execution_state, cont>>
      \/ /\ ~safepoint_state[t].requested /\ BitsSet(t, FALSE, FALSE)
         /\ Continue(t)
  BY Zenon, WaitOrContinue DEF IInv, BlockForSafepoint, Continue, CheckIn
<1>1. ThreadTypes'
  BY <1>0 DEF IInv, ThreadTypes, Places, BitsSet, BlockForSafepoint, Continue,
      CheckIn
<1>2. LocalStep(t)
  BY <1>0, CountIsNatural DEF IInv, ThreadTypes, AtSafepoint, Consistent,
      LocalStep, BitsSet, BlockForSafepoint, Continue, CheckIn
<1>3. AtSafepoint(t)'
  BY <1>0 DEF IInv, ThreadTypes, AtSafepoint, Consistent, BitsSet,
      BlockForSafepoint, Continue, CheckIn
<1>4. Consistent(t)'
  BY <1>0 DEF IInv, ThreadTypes, AtSafepoint, Consistent, BitsSet,
      BlockForSafepoint, Continue, CheckIn
<1> QED
  BY Zenon, <1>1, <1>2, <1>3, <1>4, LocalPreserves

(* A blocked thread looks at the request again.                            *)
LEMMA ResumedStep ==
  ASSUME IInv, NEW t \in Thread, Resumed(t)
  PROVE  IInv'
<1>0. \/ /\ safepoint_state[t].requested /\ BitsSet(t, TRUE, TRUE)
         /\ pc' = [pc EXCEPT ![t] = "wait"]
         /\ UNCHANGED <<execution_state, cont>>
      \/ /\ ~safepoint_state[t].requested /\ BitsSet(t, FALSE, FALSE)
         /\ Continue(t)
  BY Zenon, WaitOrContinue DEF IInv, Resumed, Continue
<1>1. ThreadTypes'
  BY <1>0 DEF IInv, ThreadTypes, Places, BitsSet, Resumed, Continue
<1>2. LocalStep(t)
  BY <1>0 DEF IInv, ThreadTypes, AtSafepoint, Consistent, LocalStep, BitsSet,
      Resumed, Continue
<1>3. AtSafepoint(t)'
  BY <1>0 DEF IInv, ThreadTypes, AtSafepoint, Consistent, BitsSet, Resumed,
      Continue
<1>4. Consistent(t)'
  BY <1>0 DEF IInv, ThreadTypes, AtSafepoint, Consistent, BitsSet, Resumed,
      Continue
<1> QED
  BY Zenon, <1>1, <1>2, <1>3, <1>4, LocalPreserves

(* A wait returns without being notified.                                  *)
LEMMA SpuriousWakeupStep ==
  ASSUME IInv, NEW t \in Thread, SpuriousWakeup(t)
  PROVE  IInv'
<1>1. ThreadTypes'
  BY Zenon DEF IInv, ThreadTypes, Places, SpuriousWakeup
<1>2. LocalStep(t)
  BY DEF IInv, ThreadTypes, AtSafepoint, Consistent, LocalStep, SpuriousWakeup
<1>3. AtSafepoint(t)'
  BY DEF IInv, ThreadTypes, AtSafepoint, Consistent, SpuriousWakeup
<1>4. Consistent(t)'
  BY DEF IInv, ThreadTypes, AtSafepoint, Consistent, SpuriousWakeup
<1> QED
  BY Zenon, <1>1, <1>2, <1>3, <1>4, LocalPreserves

(* Generated code calls the runtime.                                       *)
LEMMA GeneratedToVMStep ==
  ASSUME IInv, NEW t \in Thread, GeneratedToVM(t)
  PROVE  IInv'
<1>1. ThreadTypes'
  BY Zenon DEF IInv, ThreadTypes, Places, GeneratedToVM, CheckRequest
<1>2. LocalStep(t)
  BY DEF IInv, ThreadTypes, AtSafepoint, Consistent, LocalStep, GeneratedToVM,
      CheckRequest
<1>3. AtSafepoint(t)'
  BY DEF IInv, ThreadTypes, AtSafepoint, Consistent, GeneratedToVM,
      CheckRequest
<1>4. Consistent(t)'
  BY DEF IInv, ThreadTypes, AtSafepoint, Consistent, GeneratedToVM,
      CheckRequest
<1> QED
  BY Zenon, <1>1, <1>2, <1>3, <1>4, LocalPreserves

(* The stack check fails.                                                  *)
LEMMA StackOverflowStep ==
  ASSUME IInv, NEW t \in Thread, StackOverflow(t)
  PROVE  IInv'
<1>1. ThreadTypes'
  BY Zenon DEF IInv, ThreadTypes, Places, StackOverflow, CheckRequest
<1>2. LocalStep(t)
  BY DEF IInv, ThreadTypes, AtSafepoint, Consistent, LocalStep, StackOverflow,
      CheckRequest
<1>3. AtSafepoint(t)'
  BY DEF IInv, ThreadTypes, AtSafepoint, Consistent, StackOverflow,
      CheckRequest
<1>4. Consistent(t)'
  BY DEF IInv, ThreadTypes, AtSafepoint, Consistent, StackOverflow,
      CheckRequest
<1> QED
  BY Zenon, <1>1, <1>2, <1>3, <1>4, LocalPreserves

(* The interrupt is handled.                                               *)
LEMMA HandleInterruptsStep ==
  ASSUME IInv, NEW t \in Thread, HandleInterrupts(t)
  PROVE  IInv'
<1>1. ThreadTypes'
  BY Zenon DEF IInv, ThreadTypes, Places, HandleInterrupts
<1>2. LocalStep(t)
  BY Zenon DEF IInv, ThreadTypes, AtSafepoint, Consistent, LocalStep,
      HandleInterrupts
<1>3. AtSafepoint(t)'
  BY Zenon DEF IInv, ThreadTypes, AtSafepoint, Consistent, HandleInterrupts
<1>4. Consistent(t)'
  BY Zenon DEF IInv, ThreadTypes, AtSafepoint, Consistent, HandleInterrupts
<1> QED
  BY Zenon, <1>1, <1>2, <1>3, <1>4, LocalPreserves

(* VM code checks for a request.                                           *)
LEMMA CheckForSafepointStep ==
  ASSUME IInv, NEW t \in Thread, CheckForSafepoint(t)
  PROVE  IInv'
<1>1. ThreadTypes'
  BY Zenon DEF IInv, ThreadTypes, Places, CheckForSafepoint, CheckRequest
<1>2. LocalStep(t)
  BY DEF IInv, ThreadTypes, AtSafepoint, Consistent, LocalStep,
      CheckForSafepoint, CheckRequest
<1>3. AtSafepoint(t)'
  BY DEF IInv, ThreadTypes, AtSafepoint, Consistent, CheckForSafepoint,
      CheckRequest
<1>4. Consistent(t)'
  BY DEF IInv, ThreadTypes, AtSafepoint, Consistent, CheckForSafepoint,
      CheckRequest
<1> QED
  BY Zenon, <1>1, <1>2, <1>3, <1>4, LocalPreserves

(* VM code calls or returns to generated code.                             *)
LEMMA VMToGeneratedStep ==
  ASSUME IInv, NEW t \in Thread, VMToGenerated(t)
  PROVE  IInv'
<1>1. ThreadTypes'
  BY Zenon DEF IInv, ThreadTypes, Places, VMToGenerated
<1>2. LocalStep(t)
  BY Zenon
     DEF IInv, ThreadTypes, AtSafepoint, Consistent, LocalStep, VMToGenerated
<1>3. AtSafepoint(t)'
  BY Zenon DEF IInv, ThreadTypes, AtSafepoint, Consistent, VMToGenerated
<1>4. Consistent(t)'
  BY Zenon DEF IInv, ThreadTypes, AtSafepoint, Consistent, VMToGenerated
<1> QED
  BY Zenon, <1>1, <1>2, <1>3, <1>4, LocalPreserves

(* Native code is called: the thread enters the safepoint, or its lock.    *)
LEMMA ToNativeStep ==
  ASSUME IInv, NEW t \in Thread, NEW e \in {"VM", "Generated"}, ToNative(t, e)
  PROVE  IInv'
<1>0. \/ /\ BitsSet(t, TRUE, FALSE) /\ UNCHANGED pc
         /\ ~safepoint_state[t].requested /\ ~safepoint_state[t].at
         /\ ~safepoint_state[t].blocked
      \/ /\ UNCHANGED safepoint_state
         /\ pc' = [pc EXCEPT ![t] = "enter_lock"]
  BY Zenon, FastEnter DEF IInv, ToNative
<1>1. ThreadTypes'
  BY Zenon, <1>0 DEF IInv, ThreadTypes, Places, BitsSet, ToNative
<1>2. LocalStep(t)
  BY <1>0 DEF IInv, ThreadTypes, AtSafepoint, Consistent, LocalStep, BitsSet,
      ToNative
<1>3. AtSafepoint(t)'
  BY <1>0 DEF IInv, ThreadTypes, AtSafepoint, Consistent, BitsSet, ToNative
<1>4. Consistent(t)'
  BY <1>0 DEF IInv, ThreadTypes, AtSafepoint, Consistent, BitsSet, ToNative
<1> QED
  BY Zenon, <1>1, <1>2, <1>3, <1>4, LocalPreserves

(* The thread blocks for some other reason.                                *)
LEMMA VMToBlockedStep ==
  ASSUME IInv, NEW t \in Thread, VMToBlocked(t)
  PROVE  IInv'
<1>0. \/ /\ BitsSet(t, TRUE, FALSE) /\ UNCHANGED pc
         /\ ~safepoint_state[t].requested /\ ~safepoint_state[t].at
         /\ ~safepoint_state[t].blocked
      \/ /\ UNCHANGED safepoint_state
         /\ pc' = [pc EXCEPT ![t] = "enter_lock"]
  BY Zenon, FastEnter DEF IInv, VMToBlocked
<1>1. ThreadTypes'
  BY Zenon, <1>0 DEF IInv, ThreadTypes, Places, BitsSet, VMToBlocked
<1>2. LocalStep(t)
  BY <1>0 DEF IInv, ThreadTypes, AtSafepoint, Consistent, LocalStep, BitsSet,
      VMToBlocked
<1>3. AtSafepoint(t)'
  BY <1>0 DEF IInv, ThreadTypes, AtSafepoint, Consistent, BitsSet, VMToBlocked
<1>4. Consistent(t)'
  BY <1>0 DEF IInv, ThreadTypes, AtSafepoint, Consistent, BitsSet, VMToBlocked
<1> QED
  BY Zenon, <1>1, <1>2, <1>3, <1>4, LocalPreserves

(* Native code returns or calls back.                                      *)
LEMMA NativeToStep ==
  ASSUME IInv, NEW t \in Thread, NEW e \in {"VM", "Generated"}, NativeTo(t, e)
  PROVE  IInv'
<1>0. \/ /\ BitsSet(t, FALSE, FALSE) /\ SetExecution(t, e)
         /\ ~safepoint_state[t].requested /\ safepoint_state[t].at
         /\ ~safepoint_state[t].blocked
         /\ UNCHANGED <<pc, cont>>
      \/ /\ UNCHANGED <<safepoint_state, execution_state>>
         /\ pc' = [pc EXCEPT ![t] = "exit_lock"]
         /\ cont' = [cont EXCEPT ![t] = e]
  BY Zenon, FastExit DEF IInv, NativeTo
<1>1. ThreadTypes'
  BY Zenon, <1>0 DEF IInv, ThreadTypes, Places, BitsSet, NativeTo
<1>2. LocalStep(t)
  BY <1>0 DEF IInv, ThreadTypes, AtSafepoint, Consistent, LocalStep, BitsSet,
      NativeTo
<1>3. AtSafepoint(t)'
  BY <1>0 DEF IInv, ThreadTypes, AtSafepoint, Consistent, BitsSet, NativeTo
<1>4. Consistent(t)'
  BY <1>0 DEF IInv, ThreadTypes, AtSafepoint, Consistent, BitsSet, NativeTo
<1> QED
  BY Zenon, <1>1, <1>2, <1>3, <1>4, LocalPreserves

(* The thread is no longer blocked.                                        *)
LEMMA BlockedToVMStep ==
  ASSUME IInv, NEW t \in Thread, BlockedToVM(t)
  PROVE  IInv'
<1>0. \/ /\ BitsSet(t, FALSE, FALSE) /\ SetExecution(t, "VM")
         /\ ~safepoint_state[t].requested /\ safepoint_state[t].at
         /\ ~safepoint_state[t].blocked
         /\ UNCHANGED <<pc, cont>>
      \/ /\ UNCHANGED <<safepoint_state, execution_state>>
         /\ pc' = [pc EXCEPT ![t] = "exit_lock"]
         /\ cont' = [cont EXCEPT ![t] = "VM"]
  BY Zenon, FastExit DEF IInv, BlockedToVM
<1>1. ThreadTypes'
  BY Zenon, <1>0 DEF IInv, ThreadTypes, Places, BitsSet, BlockedToVM
<1>2. LocalStep(t)
  BY <1>0 DEF IInv, ThreadTypes, AtSafepoint, Consistent, LocalStep, BitsSet,
      BlockedToVM
<1>3. AtSafepoint(t)'
  BY <1>0 DEF IInv, ThreadTypes, AtSafepoint, Consistent, BitsSet, BlockedToVM
<1>4. Consistent(t)'
  BY <1>0 DEF IInv, ThreadTypes, AtSafepoint, Consistent, BitsSet, BlockedToVM
<1> QED
  BY Zenon, <1>1, <1>2, <1>3, <1>4, LocalPreserves

(* Native code acquires the data of a list.                                *)
LEMMA TypedDataAcquireDataStep ==
  ASSUME IInv, NEW t \in Thread, TypedDataAcquireData(t)
  PROVE  IInv'
<1>1. ThreadTypes'
  BY SafepointAssumption DEF IInv, ThreadTypes, Places, TypedDataAcquireData
<1>2. LocalStep(t)
  BY Zenon DEF IInv, ThreadTypes, AtSafepoint, Consistent, LocalStep,
      TypedDataAcquireData
<1>3. AtSafepoint(t)'
  BY DEF IInv, ThreadTypes, AtSafepoint, Consistent, TypedDataAcquireData
<1>4. Consistent(t)'
  BY Zenon DEF IInv, ThreadTypes, AtSafepoint, Consistent, TypedDataAcquireData
<1> QED
  BY Zenon, <1>1, <1>2, <1>3, <1>4, LocalPreserves

(* It releases it, and enters the safepoint with the last.                 *)
LEMMA TypedDataReleaseDataStep ==
  ASSUME IInv, NEW t \in Thread, TypedDataReleaseData(t)
  PROVE  IInv'
<1>0. \/ /\ BitsSet(t, TRUE, FALSE) /\ UNCHANGED pc /\ acquired[t] = 1
         /\ ~safepoint_state[t].requested /\ ~safepoint_state[t].at
         /\ ~safepoint_state[t].blocked
      \/ /\ acquired[t] = 1 /\ UNCHANGED safepoint_state
         /\ pc' = [pc EXCEPT ![t] = "enter_lock"]
      \/ acquired[t] # 1 /\ UNCHANGED <<safepoint_state, pc>>
  BY Zenon, FastEnter DEF IInv, TypedDataReleaseData
<1>1. ThreadTypes'
  BY <1>0, SafepointAssumption DEF IInv, ThreadTypes, Places, BitsSet,
      TypedDataReleaseData
<1>2. LocalStep(t)
  BY <1>0 DEF IInv, ThreadTypes, AtSafepoint, Consistent, LocalStep, BitsSet,
      TypedDataReleaseData
<1>3. AtSafepoint(t)'
  BY <1>0 DEF IInv, ThreadTypes, AtSafepoint, Consistent, BitsSet,
      TypedDataReleaseData
<1>4. Consistent(t)'
  BY <1>0 DEF IInv, ThreadTypes, AtSafepoint, Consistent, BitsSet,
      TypedDataReleaseData
<1> QED
  BY Zenon, <1>1, <1>2, <1>3, <1>4, LocalPreserves

-----------------------------------------------------------------------------
(* Threads whose own state does not change stay in order; only a thread    *)
(* that walks the list depends on how far the walk has come.               *)
LEMMA OthersInOrder ==
  ASSUME IInv, NEW S \in SUBSET Thread,
         \A u \in S :
           /\ pc'[u] = pc[u] /\ safepoint_state'[u] = safepoint_state[u]
           /\ execution_state'[u] = execution_state[u]
           /\ acquired'[u] = acquired[u] /\ cont'[u] = cont[u]
           /\ pc[u] \notin {"requesting", "resuming"}
  PROVE  \A u \in S : AtSafepoint(u)' /\ Consistent(u)'
BY DEF IInv, AtSafepoint, Consistent

(* Without an operation nobody is in it, asked or waited for. *)
LEMMA NoOperation ==
  ASSUME IInv, owner = NoThread
  PROVE  /\ \A t \in Thread : pc[t] \notin Owning /\ ~Requested(t)
         /\ Late = {} /\ not_at_safepoint = 0
<1>1. \A t \in Thread : pc[t] \notin Owning /\ ~Requested(t)
  BY Zenon, SafepointAssumption DEF IInv, Roles, Requests
<1>2. Late = {}
  BY Zenon, <1>1 DEF Late
<1> QED
  BY Zenon, <1>1, <1>2, FS_EmptySet DEF IInv, Counts

(* A thread that wants an operation waits for another one ... *)
LEMMA WaitStep ==
  ASSUME IInv, NEW t \in Thread, StartOrWait(t), SafepointInProgress,
         UNCHANGED <<active, interrupted, acquired, cont>>,
         \/ In(t, "VM") /\ ~safepoint_state[t].bypass
         \/ pc[t] = "begin_woken" /\ safepoint_state[t] = Acquired
         \/ pc[t] = "relock"
  PROVE  IInv'
<1>0. BitsSet(t, TRUE, safepoint_state[t].blocked)
  BY Zenon, AtSet DEF IInv, StartOrWait
<1>1. ThreadTypes'
  BY Zenon, <1>0 DEF IInv, ThreadTypes, Places, BitsSet, StartOrWait
<1>2. safepoint_state[t].requested => ~safepoint_state[t].at
  BY Zenon, AcquiredBits DEF IInv, AtSafepoint
<1>3. LocalStep(t)
  BY <1>0, <1>2, CountIsNatural
  DEF IInv, ThreadTypes, AtSafepoint, Consistent, LocalStep, BitsSet,
      StartOrWait, CheckIn
<1>4. AtSafepoint(t)'
  BY <1>0 DEF IInv, ThreadTypes, AtSafepoint, BitsSet, StartOrWait
<1>5. Consistent(t)'
  BY <1>0 DEF IInv, ThreadTypes, AtSafepoint, Consistent, BitsSet, StartOrWait
<1> QED
  BY Zenon, <1>1, <1>3, <1>4, <1>5, LocalPreserves

(* ... or becomes the owner. *)
LEMMA StartStep ==
  ASSUME IInv, NEW t \in Thread, StartOrWait(t), ~SafepointInProgress,
         UNCHANGED <<active, interrupted, acquired, cont>>,
         \/ In(t, "VM") /\ ~safepoint_state[t].bypass
         \/ pc[t] = "begin_woken" /\ safepoint_state[t] = Acquired
         \/ pc[t] = "relock"
  PROVE  IInv'
<1>0. owner = NoThread /\ t \in active
  BY DEF IInv, OtherTypes, Roles, SafepointInProgress
<1>1. BitsSet(t, FALSE, safepoint_state[t].blocked)
  BY Zenon, AtSet DEF IInv, StartOrWait
<1>2. /\ owner' = t /\ operation_count' = 1 /\ threads_lock' = t
      /\ todo' = active /\ pc' = [pc EXCEPT ![t] = "requesting"]
      /\ execution_state' = [execution_state EXCEPT ![t] = "VM"]
      /\ UNCHANGED not_at_safepoint
  BY Zenon DEF StartOrWait
<1>3. ThreadTypes' /\ OtherTypes'
  BY <1>1, <1>2, SafepointAssumption
  DEF IInv, ThreadTypes, OtherTypes, Places, BitsSet
<1>4. Roles'
  BY <1>0, <1>2, SafepointAssumption, NoOperation DEF IInv, ThreadTypes, Roles
<1>5. \A u \in Thread : ~Requested(u)'
  BY Zenon, <1>0, <1>1, NoOperation DEF BitsSet
<1>6. Requests'
  <2>1. owner' # NoThread /\ \A u : ~Asked(u, owner)'
    BY Zenon, <1>2, SafepointAssumption DEF IInv, ThreadTypes, Asked
  <2> QED
    BY Zenon, <1>5, <2>1 DEF Requests
<1>7. Late' = {}
  BY Zenon, <1>5 DEF Late
<1>8. Counts'
  BY Zenon, <1>0, <1>2, <1>7, NoOperation, FS_EmptySet DEF Counts
<1>9. AtSafepoint(t)' /\ Consistent(t)'
  BY Zenon, <1>0, <1>1, <1>2
  DEF IInv, ThreadTypes, AtSafepoint, Consistent, BitsSet
<1>10. \A u \in Thread \ {t} : AtSafepoint(u)' /\ Consistent(u)'
  BY Zenon, <1>0, <1>1, <1>2, OthersInOrder, NoOperation
     DEF IInv, ThreadTypes, BitsSet
<1> QED
  BY Zenon, <1>3, <1>4, <1>6, <1>8, <1>9, <1>10 DEF IInv

(* SafepointThreads, called in VM code. *)
LEMMA SafepointThreadsStep ==
  ASSUME IInv, NEW t \in Thread, SafepointThreads(t) PROVE IInv'
BY Zenon, WaitStep, StartStep DEF SafepointThreads

(* The wait for another operation is over: the loop starts again. *)
LEMMA WaitWithSafepointCheckStep ==
  ASSUME IInv, NEW t \in Thread, WaitWithSafepointCheck(t) PROVE IInv'
<1>1. CASE pc[t] = "begin_woken" /\ safepoint_state[t] # Acquired
  <2>1. ThreadTypes'
    BY Zenon, <1>1 DEF IInv, ThreadTypes, Places, WaitWithSafepointCheck
  <2>2. LocalStep(t)
    BY Zenon, <1>1 DEF IInv, ThreadTypes, LocalStep, WaitWithSafepointCheck
  <2>3. AtSafepoint(t)' /\ Consistent(t)'
    BY <1>1
    DEF IInv, ThreadTypes, AtSafepoint, Consistent, WaitWithSafepointCheck
  <2> QED
    BY Zenon, <2>1, <2>2, <2>3, LocalPreserves
<1>2. CASE StartOrWait(t) /\ UNCHANGED cont
           /\ (\/ pc[t] = "begin_woken" /\ safepoint_state[t] = Acquired
               \/ pc[t] = "relock")
  BY Zenon, <1>2, WaitStep, StartStep DEF WaitWithSafepointCheck
<1> QED
  BY Zenon, <1>1, <1>2 DEF WaitWithSafepointCheck

-----------------------------------------------------------------------------
(* Entering and leaving the group. *)

(* A thread that enters during an operation waits, or bypasses it. *)
LEMMA ScheduleThreadStep ==
  ASSUME IInv, NEW t \in Thread, ScheduleThread(t) PROVE IInv'
<1> PICK bypass \in BOOLEAN :
      /\ bypass => t \in Bypass /\ pc[t] = "out"
      /\ pc[t] \in {"out", "entry_woken"}
      /\ threads_lock = NoThread
      /\ IF SafepointInProgress /\ ~bypass
         THEN /\ Goto(t, "entry_wait")
              /\ UNCHANGED <<active, safepoint_state, execution_state>>
         ELSE /\ active' = active \cup {t}
              /\ SetExecution(t, "VM")
              /\ SetBits(t, [Unacquired EXCEPT !.bypass = bypass])
              /\ Goto(t, "run")
      /\ UNCHANGED <<interrupted, acquired, cont, walk, handler>>
  BY Zenon DEF ScheduleThread
<1>1. CASE SafepointInProgress /\ ~bypass
  <2>1. ThreadTypes'
    BY Zenon, <1>1 DEF IInv, ThreadTypes, Places
  <2>2. LocalStep(t)
    BY Zenon, <1>1 DEF IInv, ThreadTypes, LocalStep
  <2>3. AtSafepoint(t)' /\ Consistent(t)'
    BY <1>1 DEF IInv, ThreadTypes, AtSafepoint, Consistent
  <2> QED
    BY Zenon, <2>1, <2>2, <2>3, LocalPreserves
<1>2. CASE ~(SafepointInProgress /\ ~bypass)
  <2> DEFINE r == [Unacquired EXCEPT !.bypass = bypass]
  <2>1. r \in Bits
    BY Zenon, UnacquiredBits DEF Bits
  <2>2. ~r.at /\ ~r.requested
    BY Zenon DEF Unacquired
  <2>3. ~r.blocked /\ (r.bypass <=> bypass)
    BY Zenon DEF Unacquired
  <2>4. /\ safepoint_state' = [safepoint_state EXCEPT ![t] = r]
        /\ pc' = [pc EXCEPT ![t] = "run"] /\ active' = active \cup {t}
        /\ execution_state' = [execution_state EXCEPT ![t] = "VM"]
        /\ UNCHANGED <<interrupted, acquired, cont, walk, handler>>
    BY Zenon, <1>2
  <2> HIDE DEF r
  <2>5. owner = NoThread \/ bypass
    BY <1>2 DEF IInv, OtherTypes, Roles, SafepointInProgress
  <2>6. ThreadTypes' /\ OtherTypes'
    BY Zenon, <2>1, <2>4 DEF IInv, ThreadTypes, OtherTypes, Places
  <2>7. Roles'
    BY Zenon, <2>4 DEF IInv, ThreadTypes, Roles
  <2>8. /\ \A u \in Thread \ {t} : safepoint_state'[u] = safepoint_state[u]
        /\ safepoint_state'[t] = r
    BY Zenon, <2>4 DEF IInv, ThreadTypes
  <2>9. Requests'
    <3>1. owner # NoThread => owner \in Thread \ {t} /\ pc'[owner] = pc[owner]
                              /\ pc[owner] \in {"gathering", "operating"}
      BY Zenon, <2>4 DEF IInv, ThreadTypes, OtherTypes, Roles
    <3>2. \A u \in Thread \ {t} : owner # NoThread =>
            (Asked(u, owner)' <=> Asked(u, owner))
      BY Zenon, <2>4, <3>1 DEF Asked
    <3> QED
      BY Zenon, <2>2, <2>3, <2>4, <2>5, <2>8, <3>2 DEF IInv, Requests
  <2>10. Late' = Late
    BY Zenon, <2>2, <2>8 DEF IInv, Consistent, Late
  <2>11. Counts'
    BY Zenon, <2>4, <2>10 DEF IInv, ThreadTypes, Counts
  <2>12. AtSafepoint(t)' /\ Consistent(t)'
    BY Zenon, <2>2, <2>3, <2>4, <2>8
    DEF IInv, ThreadTypes, AtSafepoint, Consistent
  <2>13. \A u \in Thread \ {t} : AtSafepoint(u)' /\ Consistent(u)'
    <3>1. \A u \in Thread : pc[u] \notin {"requesting", "resuming"}
      BY Zenon, SafepointAssumption DEF IInv, Roles
    <3> QED
      BY Zenon, <2>4, <2>8, <3>1, OthersInOrder DEF IInv, ThreadTypes
  <2> QED
    BY Zenon, <2>6, <2>7, <2>9, <2>11, <2>12, <2>13 DEF IInv
<1> QED
  BY Zenon, <1>1, <1>2

(* A thread that leaves the group reports itself. *)
LEMMA UnscheduleThreadStep ==
  ASSUME IInv, NEW t \in Thread, UnscheduleThread(t) PROVE IInv'
<1>1. ThreadTypes' /\ OtherTypes'
  BY Zenon, AcquiredBits
  DEF IInv, ThreadTypes, OtherTypes, Places, UnscheduleThread
<1>2. Roles'
  BY Zenon DEF IInv, ThreadTypes, Roles, UnscheduleThread
<1>3. /\ \A u \in Thread \ {t} : safepoint_state'[u] = safepoint_state[u]
      /\ safepoint_state'[t] = Acquired /\ ~safepoint_state[t].at
  BY Zenon DEF IInv, ThreadTypes, AtSafepoint, UnscheduleThread
<1>4. Requests'
  <2>1. owner # NoThread => owner \in Thread \ {t} /\ pc'[owner] = pc[owner]
                            /\ pc[owner] \in {"gathering", "operating"}
    BY Zenon DEF IInv, ThreadTypes, OtherTypes, Roles, UnscheduleThread
  <2>2. \A u \in Thread : owner # NoThread =>
          (Asked(u, owner)' <=> Asked(u, owner) /\ u # t)
    BY Zenon, <2>1 DEF Asked, UnscheduleThread
  <2> QED
    BY Zenon, <1>3, <2>2, AcquiredBits DEF IInv, Requests, UnscheduleThread
<1>5. \/ Late' = Late /\ not_at_safepoint' = not_at_safepoint
      \/ /\ t \in Late /\ Late' = Late \ {t}
         /\ not_at_safepoint' = not_at_safepoint - 1
  BY <1>3, AcquiredBits, CountIsNatural DEF Late, CheckIn, UnscheduleThread
<1>6. not_at_safepoint' = Cardinality(Late')
  BY Zenon, <1>5, LateThreads, Counting DEF IInv, Counts
<1>7. not_at_safepoint = 0 => not_at_safepoint' = 0
  BY Zenon, <1>5, LateThreads, Counting DEF IInv, Counts
<1>8. Counts'
  BY Zenon, <1>6, <1>7 DEF IInv, ThreadTypes, Counts, UnscheduleThread
<1>9. AtSafepoint(t)' /\ Consistent(t)'
  BY Zenon, <1>3, AcquiredBits
  DEF IInv, ThreadTypes, AtSafepoint, Consistent, UnscheduleThread
<1>10. \A u \in Thread \ {t} : AtSafepoint(u)' /\ Consistent(u)'
  <2>1. \A u \in Thread : pc[u] \notin {"requesting", "resuming"}
    BY Zenon, SafepointAssumption DEF IInv, Roles, UnscheduleThread
  <2> QED
    BY Zenon, <1>3, <2>1, OthersInOrder DEF IInv, ThreadTypes, UnscheduleThread
<1> QED
  BY Zenon, <1>1, <1>2, <1>4, <1>8, <1>9, <1>10 DEF IInv

-----------------------------------------------------------------------------
(* The operation. *)

(* Setting or withdrawing a request leaves the other bits as they are. *)
LEMMA RequestSet ==
  ASSUME ThreadTypes, NEW u \in Thread, NEW b \in BOOLEAN,
         safepoint_state' = [safepoint_state EXCEPT ![u].requested = b]
  PROVE  /\ safepoint_state' \in [Thread -> Bits]
         /\ \A v \in Thread \ {u} : safepoint_state'[v] = safepoint_state[v]
         /\ safepoint_state'[u].requested <=> b
         /\ safepoint_state'[u].at <=> safepoint_state[u].at
         /\ safepoint_state'[u].blocked <=> safepoint_state[u].blocked
         /\ safepoint_state'[u].bypass <=> safepoint_state[u].bypass
<1> DEFINE s == safepoint_state[u]
           r == [s EXCEPT !.requested = b]
<1>1. s \in Bits
  BY Zenon DEF ThreadTypes
<1>2. r \in Bits
  BY Zenon, <1>1 DEF Bits
<1>3. (r.requested <=> b) /\ (r.at <=> s.at)
  BY Zenon, <1>1 DEF Bits
<1>4. (r.blocked <=> s.blocked) /\ (r.bypass <=> s.bypass)
  BY Zenon, <1>1 DEF Bits
<1>5. safepoint_state' = [safepoint_state EXCEPT ![u] = r]
  BY Zenon
<1> HIDE DEF r
<1>6. safepoint_state'[u] = r /\ safepoint_state' \in [Thread -> Bits]
  BY Zenon, <1>2, <1>5 DEF ThreadTypes
<1>7. \A v \in Thread \ {u} : safepoint_state'[v] = safepoint_state[v]
  BY Zenon, <1>5 DEF ThreadTypes
<1> QED
  BY Zenon, <1>3, <1>4, <1>6, <1>7

(* What a visit of owner t to thread u does to the bits: it sets the bit   *)
(* of its own that says it is at the safepoint, or the other's request.    *)
Visited(t, u, b) ==
  /\ safepoint_state' \in [Thread -> Bits]
  /\ \A v \in Thread :
       /\ safepoint_state'[v].at <=>
            IF v = u /\ u = t THEN b ELSE safepoint_state[v].at
       /\ safepoint_state'[v].requested <=>
            IF v = u /\ u # t /\ ~safepoint_state[u].bypass
            THEN b ELSE safepoint_state[v].requested
       /\ safepoint_state'[v].blocked <=> safepoint_state[v].blocked
       /\ safepoint_state'[v].bypass <=> safepoint_state[v].bypass

(* Both walks do so. *)
LEMMA VisitSets ==
  ASSUME ThreadTypes, NEW t \in Thread, NEW u \in Thread, NEW b \in BOOLEAN,
         ~safepoint_state[t].bypass,
         safepoint_state' =
           IF safepoint_state[u].bypass THEN safepoint_state
           ELSE IF u = t THEN [safepoint_state EXCEPT ![u].at = b]
           ELSE [safepoint_state EXCEPT ![u].requested = b]
  PROVE  Visited(t, u, b)
<1>1. CASE safepoint_state[u].bypass
  BY Zenon, <1>1 DEF ThreadTypes, Visited
<1>2. CASE ~safepoint_state[u].bypass /\ u = t
  <2>1. SetBits(t, [safepoint_state[t] EXCEPT !.at = b])
    BY Zenon, <1>2
  <2>2. BitsSet(t, b, safepoint_state[t].blocked)
    BY Zenon, <2>1, AtSet
  <2> QED
    BY Zenon, <1>2, <2>2 DEF BitsSet, Visited
<1>3. CASE ~safepoint_state[u].bypass /\ u # t
  <2>1. safepoint_state' = [safepoint_state EXCEPT ![u].requested = b]
    BY Zenon, <1>3
  <2> QED
    BY Zenon, <1>3, <2>1, RequestSet DEF Visited
<1> QED
  BY Zenon, <1>1, <1>2, <1>3

(* The first visit: a thread that is not at the safepoint is counted. *)
LEMMA RequestSafepointStep ==
  ASSUME IInv, NEW t \in Thread, RequestSafepoint(t) PROVE IInv'
<1>0. PICK u \in todo :
        LET counted == u # t /\ ~safepoint_state[u].bypass
                             /\ ~safepoint_state[u].at
        IN
        /\ pc[t] = "requesting"
        /\ safepoint_state' =
             IF safepoint_state[u].bypass THEN safepoint_state
             ELSE IF u = t THEN [safepoint_state EXCEPT ![u].at = TRUE]
             ELSE [safepoint_state EXCEPT ![u].requested = TRUE]
        /\ not_at_safepoint' = not_at_safepoint + (IF counted THEN 1 ELSE 0)
        /\ interrupted' = [interrupted EXCEPT
                             ![u] = @ \/ (counted /\ u \in Mutator)]
        /\ todo' = todo \ {u}
        /\ IF todo # {u} THEN UNCHANGED <<threads_lock, pc>>
           ELSE threads_lock' = NoThread /\ Goto(t, "gathering")
        /\ UNCHANGED <<active, execution_state, acquired, cont, owner,
                       operation_count>>
  BY Zenon DEF RequestSafepoint
<1>1. /\ u \in Thread /\ u \in active /\ owner = t /\ threads_lock = t
      /\ ~safepoint_state[t].bypass /\ pc[u] \notin Away
  BY Zenon, <1>0 DEF IInv, OtherTypes, Roles, Consistent
<1>2. Visited(t, u, TRUE)
  BY Zenon, <1>0, <1>1, VisitSets DEF IInv
<1>3. ThreadTypes' /\ OtherTypes'
  BY <1>0, <1>1, <1>2 DEF IInv, ThreadTypes, OtherTypes, Places, Visited
<1>4. /\ \A v \in Thread \ {t} : pc'[v] = pc[v] /\ pc[v] \notin Owning
      /\ pc'[t] = IF todo' = {} THEN "gathering" ELSE "requesting"
  BY <1>0, <1>1, SafepointAssumption DEF IInv, ThreadTypes, Roles
<1>5. Roles'
  BY Zenon, <1>0, <1>1, <1>4, SafepointAssumption DEF IInv, OtherTypes, Roles
<1>6. Requests'
  <2>1. \A v \in Thread : Asked(v, t)' <=> v \in active \ todo'
    BY Zenon, <1>0, <1>4 DEF Asked
  <2>2. \A v \in Thread : Asked(v, t) <=> v \in active \ todo
    BY Zenon, <1>0 DEF Asked
  <2> QED
    BY Zenon, <1>0, <1>1, <1>2, <2>1, <2>2, SafepointAssumption
    DEF IInv, Requests, Visited
<1>7. ~Requested(u)
  BY Zenon, <1>0, <1>1, SafepointAssumption DEF IInv, Requests, Asked
<1>8. \/ Late' = Late /\ not_at_safepoint' = not_at_safepoint
      \/ /\ u \notin Late /\ Late' = Late \cup {u}
         /\ not_at_safepoint' = not_at_safepoint + 1
  <2>1. CASE u # t /\ ~safepoint_state[u].bypass /\ ~safepoint_state[u].at
    BY Zenon, <1>0, <1>1, <1>2, <1>7, <2>1 DEF Late, Visited
  <2>2. CASE ~(u # t /\ ~safepoint_state[u].bypass /\ ~safepoint_state[u].at)
    BY <1>0, <1>1, <1>2, <1>7, <2>2, CountIsNatural DEF Late, Visited
  <2> QED
    BY Zenon, <2>1, <2>2
<1>9. Counts'
  <2>1. not_at_safepoint' = Cardinality(Late')
    BY Zenon, <1>8, LateThreads, Counting DEF IInv, Counts
  <2>2. \A v \in Thread : pc'[v] \notin {"operating", "resuming"}
    BY Zenon, <1>4
  <2> QED
    BY Zenon, <2>1, <2>2 DEF Counts
<1>10. \A v \in Thread : AtSafepoint(v)'
  BY <1>0, <1>1, <1>2, <1>4 DEF IInv, AtSafepoint, Visited
<1>11. \A v \in Thread : Consistent(v)'
  BY <1>0, <1>1, <1>2, <1>4 DEF IInv, Consistent, Visited
<1> QED
  BY Zenon, <1>3, <1>5, <1>6, <1>9, <1>10, <1>11 DEF IInv

(* Everybody has come to the safepoint. *)
LEMMA AllAtSafepointStep ==
  ASSUME IInv, NEW t \in Thread, AllAtSafepoint(t) PROVE IInv'
<1>1. ThreadTypes' /\ OtherTypes'
  BY Zenon DEF IInv, ThreadTypes, OtherTypes, Places, AllAtSafepoint
<1>2. /\ \A v \in Thread \ {t} : pc'[v] = pc[v]
      /\ pc'[t] = "operating" /\ pc[t] = "gathering" /\ owner = t
  BY Zenon DEF IInv, ThreadTypes, Roles, AllAtSafepoint
<1>3. Roles'
  BY Zenon, <1>2 DEF IInv, Roles, AllAtSafepoint
<1>4. Requests'
  <2>1. \A v \in Thread : Asked(v, t)' <=> Asked(v, t)
    BY Zenon, <1>2 DEF Asked, AllAtSafepoint
  <2> QED
    BY Zenon, <1>2, <2>1 DEF IInv, Requests, AllAtSafepoint
<1>5. Late' = Late
  BY Zenon DEF Late, AllAtSafepoint
<1>6. Counts'
  BY Zenon, <1>5 DEF IInv, Counts, AllAtSafepoint
<1>7. \A v \in Thread : AtSafepoint(v)' /\ Consistent(v)'
  BY <1>2 DEF IInv, AtSafepoint, Consistent, AllAtSafepoint
<1> QED
  BY Zenon, <1>1, <1>3, <1>4, <1>6, <1>7 DEF IInv

(* The owner starts a nested operation. *)
LEMMA NestedSafepointThreadsStep ==
  ASSUME IInv, NEW t \in Thread, NestedSafepointThreads(t) PROVE IInv'
<1>1. ThreadTypes' /\ OtherTypes' /\ Roles'
  BY SafepointAssumption
  DEF IInv, ThreadTypes, OtherTypes, Roles, NestedSafepointThreads
<1>2. Requests' /\ Late' = Late
  BY Zenon DEF IInv, Requests, Asked, Late, NestedSafepointThreads
<1>3. Counts'
  BY Zenon, <1>2 DEF IInv, Counts, NestedSafepointThreads
<1>4. \A v \in Thread : AtSafepoint(v)' /\ Consistent(v)'
  BY DEF IInv, AtSafepoint, Consistent, NestedSafepointThreads
<1> QED
  BY Zenon, <1>1, <1>2, <1>3, <1>4 DEF IInv

(* It ends one: the walk that resumes the threads starts with the last. *)
LEMMA ResumeThreadsStep ==
  ASSUME IInv, NEW t \in Thread, ResumeThreads(t) PROVE IInv'
<1>1. ThreadTypes' /\ OtherTypes'
  BY SafepointAssumption
  DEF IInv, ThreadTypes, OtherTypes, Places, ResumeThreads
<1>2. /\ owner = t /\ t \in active /\ pc[t] = "operating"
      /\ \A v \in Thread \ {t} : pc'[v] = pc[v] /\ pc[v] \notin Owning
  BY Zenon DEF IInv, ThreadTypes, Roles, ResumeThreads
<1>3. \/ /\ pc' = pc /\ UNCHANGED walk /\ operation_count > 1
         /\ operation_count' = operation_count - 1
      \/ /\ pc'[t] = "resuming" /\ threads_lock' = t /\ todo' = active
         /\ UNCHANGED operation_count
  BY Zenon DEF IInv, ThreadTypes, ResumeThreads
<1>4. Roles'
  BY <1>2, <1>3, SafepointAssumption DEF IInv, OtherTypes, Roles, ResumeThreads
<1>5. Requests'
  <2>1. \A v \in Thread : Asked(v, t)' <=> Asked(v, t)
    BY Zenon, <1>2, <1>3 DEF Asked, ResumeThreads
  <2> QED
    BY Zenon, <1>2, <2>1 DEF IInv, Requests, ResumeThreads
<1>6. Late' = Late
  BY Zenon DEF Late, ResumeThreads
<1>7. Counts'
  BY Zenon, <1>2, <1>6 DEF IInv, Counts, ResumeThreads
<1>8. \A v \in Thread : AtSafepoint(v)' /\ Consistent(v)'
  BY <1>2, <1>3 DEF IInv, AtSafepoint, Consistent, ResumeThreads
<1> QED
  BY Zenon, <1>1, <1>4, <1>5, <1>7, <1>8 DEF IInv

(* The second visit: nobody is late, so the count does not change; the     *)
(* last visit ends the operation.                                          *)
LEMMA ResumeThreadStep ==
  ASSUME IInv, NEW t \in Thread, ResumeThread(t) PROVE IInv'
<1>0. PICK u \in todo :
        LET over == todo = {u} IN
        /\ pc[t] = "resuming"
        /\ safepoint_state' =
             IF safepoint_state[u].bypass THEN safepoint_state
             ELSE IF u = t THEN [safepoint_state EXCEPT ![u].at = FALSE]
             ELSE [safepoint_state EXCEPT ![u].requested = FALSE]
        /\ pc' = Notified(t, u, over)
        /\ todo' = todo \ {u}
        /\ IF over THEN threads_lock' = NoThread /\ owner' = NoThread
                        /\ operation_count' = 0
           ELSE UNCHANGED <<threads_lock, owner, operation_count>>
        /\ UNCHANGED <<active, execution_state, interrupted, acquired, cont,
                       not_at_safepoint>>
  BY Zenon DEF ResumeThread
<1>1. /\ u \in Thread /\ u \in active /\ owner = t /\ threads_lock = t
      /\ ~safepoint_state[t].bypass
  BY Zenon, <1>0 DEF IInv, OtherTypes, Roles, Consistent
<1>2. Visited(t, u, FALSE)
  BY Zenon, <1>0, <1>1, VisitSets DEF IInv
<1>3. /\ pc' \in [Thread -> Places]
      /\ \A v \in Thread \ {t} : pc[v] \notin Owning /\ pc'[v] \notin Owning
      /\ pc'[t] = IF todo' = {} THEN "run" ELSE "resuming"
  BY Zenon, <1>0, <1>1 DEF IInv, ThreadTypes, Places, Roles, Notified
<1>4. \A v \in Thread \ {t} :
        \/ pc'[v] = pc[v]
        \/ pc[v] = "wait" /\ pc'[v] = "woken" /\ v = u
        \/ pc[v] = "begin_wait" /\ pc'[v] = "begin_woken"
        \/ pc[v] = "entry_wait" /\ pc'[v] = "entry_woken"
  BY Zenon, <1>0, <1>1 DEF Notified
<1>5. ThreadTypes' /\ OtherTypes'
  BY <1>0, <1>2, <1>3, SafepointAssumption
  DEF IInv, ThreadTypes, OtherTypes, Visited
<1>6. Roles'
  <2>1. \A v \in Thread : pc'[v] \in Away <=> pc[v] \in Away
    BY Zenon, <1>0, <1>3, <1>4
  <2> QED
    BY <1>0, <1>1, <1>3, <2>1, SafepointAssumption DEF IInv, OtherTypes, Roles
<1>7. \A v \in Thread :
        /\ Requested(v) <=> v \in todo /\ ~safepoint_state[v].bypass /\ v # t
        /\ Requested(v)' <=> v \in todo' /\ ~safepoint_state[v].bypass
                             /\ v # t
  <2>1. \A v \in Thread : Asked(v, t) <=> v \in todo
    BY Zenon, <1>0 DEF Asked
  <2>2. \A v \in Thread :
          Requested(v) <=> v \in todo /\ ~safepoint_state[v].bypass /\ v # t
    BY Zenon, <1>1, <2>1, SafepointAssumption DEF IInv, Requests
  <2> QED
    BY Zenon, <1>0, <1>1, <1>2, <2>2 DEF Visited
<1>8. Requests'
  <2>1. todo' # {} => owner' = t /\ \A v \in Thread :
                                      Asked(v, t)' <=> v \in todo'
    BY Zenon, <1>0, <1>1, <1>3 DEF Asked
  <2>2. todo' = {} => owner' = NoThread
    BY Zenon, <1>0
  <2> QED
    BY Zenon, <1>2, <1>7, <2>1, <2>2, SafepointAssumption DEF Requests, Visited
<1>9. Late = {} /\ not_at_safepoint = 0
  BY Zenon, <1>0, LateThreads, Counting DEF IInv, Counts
<1>10. Late' = {}
  BY Zenon, <1>1, <1>2, <1>7, <1>9 DEF Late, Visited
<1>11. Counts'
  BY Zenon, <1>0, <1>9, <1>10, FS_EmptySet DEF Counts
<1>12. \A v \in Thread : AtSafepoint(v)'
  BY <1>0, <1>1, <1>2, <1>3, <1>4 DEF IInv, AtSafepoint, Consistent, Visited
<1>13. Consistent(t)'
  BY Zenon, <1>0, <1>1, <1>2, <1>3 DEF IInv, Consistent, Visited
<1>14. ASSUME NEW v \in Thread \ {t} PROVE Consistent(v)'
  <2>1. pc'[v] = "wait" => safepoint_state'[v].requested
    BY Zenon, <1>0, <1>1, <1>2
       DEF IInv, ThreadTypes, Consistent, Visited, Notified
  <2> QED
    BY <1>0, <1>1, <1>2, <1>3, <1>4, <1>7, <2>1
    DEF IInv, Consistent, Visited
<1> QED
  BY Zenon, <1>5, <1>6, <1>8, <1>11, <1>12, <1>13, <1>14 DEF IInv

-----------------------------------------------------------------------------
(* Every step of the specification preserves the invariant. *)
LEMMA NextPreserves ==
  ASSUME IInv, [Next]_vars PROVE IInv'
<1>1. CASE UNCHANGED vars
  <2>1. ThreadTypes' /\ OtherTypes' /\ Roles'
    BY Zenon, <1>1 DEF IInv, vars, ThreadTypes, OtherTypes, Roles
  <2>2. Requests' /\ Counts'
    BY Zenon, <1>1 DEF IInv, vars, Requests, Asked, Counts, Late
  <2>3. \A t \in Thread : AtSafepoint(t)' /\ Consistent(t)'
    BY <1>1 DEF IInv, vars, AtSafepoint, Consistent
  <2> QED
    BY Zenon, <2>1, <2>2, <2>3 DEF IInv
<1>2. ASSUME NEW t \in Thread, Proceeds(t) PROVE IInv'
  BY Zenon, <1>2, EnterSafepointUsingLockStep, ExitSafepointUsingLockStep,
     BlockForSafepointStep, ResumedStep, HandleInterruptsStep,
     WaitWithSafepointCheckStep, RequestSafepointStep, AllAtSafepointStep,
     ResumeThreadStep DEF Proceeds
<1>3. ASSUME NEW t \in Thread, LeavesVM(t) PROVE IInv'
  BY Zenon, <1>3, CheckForSafepointStep, VMToGeneratedStep, ToNativeStep,
     VMToBlockedStep, TypedDataAcquireDataStep, UnscheduleThreadStep,
     SafepointThreadsStep DEF LeavesVM
<1> QED
  BY Zenon, <1>1, <1>2, <1>3, GeneratedToVMStep, StackOverflowStep,
     ToNativeStep,
     NativeToStep, BlockedToVMStep, TypedDataReleaseDataStep,
     ScheduleThreadStep, NestedSafepointThreadsStep, ResumeThreadsStep,
     SpuriousWakeupStep DEF Next

-----------------------------------------------------------------------------
(* The inductive invariant of the protocol, for any finite set of threads, *)
(* any depth of nesting and any number of acquired lists.                  *)
THEOREM Invariant == Spec => []IInv
BY InitHolds, NextPreserves, PTL DEF Spec

(* Type correctness: number_threads_not_at_safepoint_ never underflows and *)
(* never exceeds the number of threads.                                    *)
THEOREM TypeCorrect == Spec => []TypeOK
<1>1. IInv => TypeOK
  BY Zenon, CountIsNatural DEF IInv, ThreadTypes, OtherTypes, TypeOK
<1> QED
  BY <1>1, Invariant, PTL

(* While a thread operates, everybody else has been asked and is at the    *)
(* safepoint, or is outside, or bypasses it.                               *)
LEMMA AllStopped ==
  ASSUME IInv, NEW t \in Thread, pc[t] = "operating", NEW u \in Thread \ {t},
         ~safepoint_state[u].bypass
  PROVE  safepoint_state[u].at /\ pc[u] \notin Owning
<1>1. owner = t /\ owner # NoThread
  BY Zenon, SafepointAssumption DEF IInv, Roles
<1>2. pc[u] \notin Owning
  BY Zenon, <1>1 DEF IInv, Roles
<1>3. Late = {}
  BY Zenon, LateThreads, Counting DEF IInv, Counts
<1>4. CASE u \in active
  <2>1. Asked(u, t)
    BY Zenon, <1>4 DEF Asked
  <2>2. Requested(u)
    BY Zenon, <1>1, <2>1 DEF IInv, Requests
  <2> QED
    BY Zenon, <1>2, <1>3, <2>2 DEF Late
<1>5. CASE u \notin active
  BY Zenon, <1>2, <1>5 DEF IInv, Roles, AtSafepoint
<1> QED
  BY Zenon, <1>4, <1>5

(* A safepoint operation stops the world: no other thread of the group     *)
(* runs VM or generated code or another operation, except the tasks that   *)
(* bypass safepoints.                                                      *)
THEOREM WorldStops == Spec => []StopTheWorld
<1>1. IInv => StopTheWorld
  <2> SUFFICES ASSUME IInv, NEW t \in Thread, pc[t] = "operating",
                      NEW u \in Thread \ {t}, ~safepoint_state[u].bypass
               PROVE  ~Executes(u) /\ pc[u] \notin Owning
    BY Zenon DEF StopTheWorld
  <2> QED
    BY Zenon, AllStopped DEF IInv, AtSafepoint, Executes
<1> QED
  BY <1>1, Invariant, PTL

(* number_threads_not_at_safepoint_ is exact, and nothing is left behind   *)
(* between operations.                                                     *)
THEOREM CountCorrect == Spec => []CountExact
<1>1. IInv => CountExact
  BY Zenon, NoOperation DEF IInv, Counts, Late, Consistent, CountExact
<1> QED
  BY <1>1, Invariant, PTL

(* No operation runs while native code uses acquired data.                 *)
THEOREM DataStays == Spec => []AcquiredDataStays
<1>1. IInv => AcquiredDataStays
  <2> SUFFICES ASSUME IInv, NEW t \in Thread, NEW u \in Thread,
                      pc[t] = "operating", acquired[u] # 0
               PROVE  FALSE
    BY Zenon DEF AcquiredDataStays
  <2>1. acquired[u] > 0
    BY SafepointAssumption DEF IInv, ThreadTypes
  <2>2. /\ pc[u] = "run" /\ execution_state[u] = "Native" /\ u \in Mutator
        /\ ~safepoint_state[u].at
    BY Zenon, <2>1 DEF IInv, AtSafepoint, Consistent
  <2>3. ~safepoint_state[u].bypass
    BY Zenon, <2>2, SafepointAssumption DEF IInv, Consistent
  <2> QED
    BY Zenon, <2>2, <2>3, AllStopped
<1> QED
  BY <1>1, Invariant, PTL

=============================================================================
