----------------------------- MODULE ReloadProofs -----------------------------
(***************************************************************************)
(* Proofs about Reload, for any finite set of isolates and any number of   *)
(* mutator slots: the counters of the rendezvous and of the slots are      *)
(* exact, and a reload runs alone.                                         *)
(***************************************************************************)
EXTENDS Reload, FiniteSetTheorems, TLAPS

Requesting == {"request", "await", "reload"}

(* What the thread of an isolate may have come for, where it is. *)
Places ==
  \A i \in Isolate :
    /\ pc[i] \in {"none", "idle", "left", "gone"} => op[i] = "none"
    /\ pc[i] = "enter" => op[i] # "none"
    /\ pc[i] = "append" => op[i] = "spawn"
    /\ pc[i] = "close" => op[i] = "shutdown"
    /\ pc[i] \in {"run", "oob"} => op[i] = "task"
    /\ pc[i] \in {"call", "exit", "wait", "recheck"} => op[i] \in HandlerOps
    /\ pc[i] \in Requesting => op[i] = "pause"
    /\ i \in noReload => pc[i] \in {"run", "oob"}
                         \/ (pc[i] = "call" /\ op[i] = "check")

(* reloading_thread_ is the requester, and the number of isolates that it  *)
(* has read does not change until it is done.                              *)
OneRequester ==
  /\ \A i \in Isolate : pc[i] \in Requesting <=> reloading_thread = i
  /\ reloading_thread # NoIsolate => registered = registered_isolate_count

(* The heart of ReloadIsAlone. *)
OthersTakePart ==
  \A r \in Isolate : pc[r] = "reload" =>
    \A i \in Registered \ {r} : Participates(i)

(* The inductive invariant. *)
IInv == /\ TypeOK /\ Places /\ CountersExact /\ SlotsExact /\ OneRequester
        /\ OthersTakePart

-----------------------------------------------------------------------------
(* A set of isolates is finite and can be counted, also when an isolate    *)
(* joins or leaves it.                                                     *)
LEMMA Counting ==
  ASSUME NEW S, S \subseteq Isolate
  PROVE  /\ IsFiniteSet(S) /\ Cardinality(S) \in Nat
         /\ \A x : x \notin S => Cardinality(S \cup {x}) = Cardinality(S) + 1
         /\ \A x \in S : Cardinality(S \ {x}) = Cardinality(S) - 1
<1>1. IsFiniteSet(S)
  BY Zenon, ReloadAssumption, FS_Subset
<1> QED
  BY Zenon, <1>1, FS_CardinalityType, FS_AddElement, FS_RemoveElement

(* The counted sets consist of isolates, now and after a step. *)
LEMMA CountedSets ==
  /\ Registered \subseteq Isolate /\ CheckedIn \subseteq Isolate
  /\ Entered \subseteq Isolate
  /\ Registered' \subseteq Isolate /\ CheckedIn' \subseteq Isolate
  /\ Entered' \subseteq Isolate
BY Zenon DEF Registered, CheckedIn, Entered

(* Two sets of isolates, one in the other and not smaller, are the same. *)
LEMMA SameSize ==
  ASSUME NEW S, NEW T, T \subseteq Isolate, S \subseteq T,
         Cardinality(S) >= Cardinality(T)
  PROVE  S = T
<1>1. /\ IsFiniteSet(T) /\ Cardinality(S) <= Cardinality(T)
      /\ Cardinality(S) = Cardinality(T) => S = T
  BY Zenon, ReloadAssumption, FS_Subset
<1>2. Cardinality(S) \in Nat /\ Cardinality(T) \in Nat
  BY Zenon, Counting
<1> QED
  BY <1>1, <1>2

USE ReloadAssumption DEF Goto, Participation, HandlerOps, Ops, Participates,
                         Requesting, handler, world

(* The properties follow from the invariant. *)
LEMMA InvariantImplies == IInv => ReloadIsAlone
<1> SUFFICES ASSUME IInv, NEW r \in Isolate, pc[r] = "reload"
             PROVE  /\ \A i \in Registered \ {r} : Participates(i)
                    /\ registered = Cardinality(Registered)
                    /\ noReload = {}
  BY Zenon DEF ReloadIsAlone
<1>1. \A i \in Registered \ {r} : Participates(i)
  BY Zenon DEF IInv, OthersTakePart
<1>2. reloading_thread = r
  BY Zenon DEF IInv, OneRequester
<1>3. registered = Cardinality(Registered)
  BY Zenon, <1>2 DEF IInv, OneRequester, CountersExact
<1>4. ASSUME NEW i \in noReload PROVE FALSE
  BY Zenon, <1>1, <1>4 DEF IInv, TypeOK, Places, Registered
<1> QED
  BY Zenon, <1>1, <1>3, <1>4

(* The first isolate is registered and outside. *)
LEMMA InitHolds == Init => IInv
<1> SUFFICES ASSUME Init PROVE IInv
  BY Zenon
<1>1. Registered = {Main} /\ CheckedIn = {} /\ Entered = {}
  BY Zenon DEF Init, Registered, CheckedIn, Entered
<1>2. Cardinality({Main}) = 1 /\ Cardinality({}) = 0
  BY Zenon, FS_Singleton, FS_EmptySet
<1>3. CountersExact /\ SlotsExact
  BY <1>1, <1>2 DEF Init, CountersExact, SlotsExact
<1>4. TypeOK /\ Places /\ OneRequester /\ OthersTakePart
  BY DEF Init, TypeOK, Places, OneRequester, OthersTakePart
<1> QED
  BY Zenon, <1>3, <1>4 DEF IInv

-----------------------------------------------------------------------------
(* A new isolate is not registered yet. *)
LEMMA SpawnStep ==
  ASSUME IInv, NEW i \in Isolate, Spawn(i) PROVE IInv'
<1>1. /\ Registered' = Registered
      /\ CheckedIn' = CheckedIn
      /\ Entered' = Entered
  BY Zenon DEF IInv, Spawn, TypeOK, Places, Registered, CheckedIn, Entered
<1>2. CountersExact' /\ SlotsExact'
  BY Zenon, <1>1, CountedSets, Counting DEF IInv, Spawn, TypeOK, CountersExact,
      SlotsExact
<1>3. TypeOK' /\ Places'
  BY Zenon, <1>2, CountedSets, Counting DEF IInv, Spawn, TypeOK, Places,
      CountersExact, SlotsExact
<1>4. OneRequester' /\ OthersTakePart'
  BY <1>1 DEF IInv, Spawn, TypeOK, Places, OneRequester, OthersTakePart,
      Registered
<1> QED
  BY Zenon, <1>2, <1>3, <1>4 DEF IInv

(* The isolate is in the list and calls the handler. *)
LEMMA AppendStep ==
  ASSUME IInv, NEW i \in Isolate, Append(i) PROVE IInv'
<1>1. /\ Registered' = Registered
      /\ CheckedIn' = CheckedIn
      /\ Entered' = Entered
  BY Zenon DEF IInv, Append, TypeOK, Places, Registered, CheckedIn, Entered
<1>2. CountersExact' /\ SlotsExact'
  BY Zenon, <1>1, CountedSets, Counting DEF IInv, Append, TypeOK, CountersExact,
      SlotsExact
<1>3. TypeOK' /\ Places'
  BY Zenon, <1>2, CountedSets, Counting DEF IInv, Append, TypeOK, Places,
      CountersExact, SlotsExact
<1>4. OneRequester' /\ OthersTakePart'
  BY <1>1 DEF IInv, Append, TypeOK, Places, OneRequester, OthersTakePart,
      Registered
<1> QED
  BY Zenon, <1>2, <1>3, <1>4 DEF IInv

(* A task is started for an idle isolate. *)
LEMMA StartTaskStep ==
  ASSUME IInv, NEW i \in Isolate, StartTask(i) PROVE IInv'
<1>1. /\ Registered' = Registered
      /\ CheckedIn' = CheckedIn
      /\ Entered' = Entered
  BY Zenon
     DEF IInv, StartTask, PoolHasRoom, TypeOK, Places, Registered, CheckedIn,
      Entered
<1>2. CountersExact' /\ SlotsExact'
  BY Zenon, <1>1, CountedSets, Counting
     DEF IInv, StartTask, PoolHasRoom, TypeOK,
      CountersExact, SlotsExact
<1>3. TypeOK' /\ Places'
  BY Zenon, <1>2, CountedSets, Counting
     DEF IInv, StartTask, PoolHasRoom, TypeOK,
      Places, CountersExact, SlotsExact
<1>4. OneRequester' /\ OthersTakePart'
  BY <1>1 DEF IInv, StartTask, PoolHasRoom, TypeOK, Places, OneRequester,
      OthersTakePart, Registered
<1> QED
  BY Zenon, <1>2, <1>3, <1>4 DEF IInv

(* The thread leaves its isolate and gives back the slot. *)
LEMMA LeaveStep ==
  ASSUME IInv, NEW i \in Isolate, Leave(i) PROVE IInv'
<1>1. /\ Registered' = Registered
      /\ CheckedIn' = CheckedIn
      /\ Entered' = Entered \ {i} /\ i \in Entered
  BY Zenon DEF IInv, Leave, DecreaseMutatorCount, OneLess, TypeOK, Places,
      Registered, CheckedIn, Entered
<1>2. CountersExact' /\ SlotsExact'
  BY <1>1, CountedSets, Counting DEF IInv, Leave, DecreaseMutatorCount,
      OneLess, TypeOK, CountersExact, SlotsExact
<1>3. TypeOK' /\ Places'
  BY <1>2, CountedSets, Counting DEF IInv, Leave, DecreaseMutatorCount,
      OneLess, TypeOK, Places, CountersExact, SlotsExact
<1>4. OneRequester' /\ OthersTakePart'
  BY <1>1 DEF IInv, Leave, DecreaseMutatorCount, OneLess, TypeOK, Places,
      OneRequester, OthersTakePart, Registered
<1> QED
  BY Zenon, <1>2, <1>3, <1>4 DEF IInv

(* A NoReloadScope begins in running code. *)
LEMMA EnterNoReloadScopeStep ==
  ASSUME IInv, NEW i \in Isolate, EnterNoReloadScope(i) PROVE IInv'
<1>1. /\ Registered' = Registered
      /\ CheckedIn' = CheckedIn
      /\ Entered' = Entered
  BY Zenon DEF IInv, EnterNoReloadScope, TypeOK, Places, Registered, CheckedIn,
      Entered
<1>2. CountersExact' /\ SlotsExact'
  BY Zenon, <1>1, CountedSets, Counting DEF IInv, EnterNoReloadScope, TypeOK,
      CountersExact, SlotsExact
<1>3. TypeOK' /\ Places'
  BY Zenon, <1>2, CountedSets, Counting DEF IInv, EnterNoReloadScope, TypeOK,
      Places, CountersExact, SlotsExact
<1>4. OneRequester' /\ OthersTakePart'
  BY Zenon, <1>1 DEF IInv, EnterNoReloadScope, TypeOK, Places, OneRequester,
      OthersTakePart, Registered
<1> QED
  BY Zenon, <1>2, <1>3, <1>4 DEF IInv

(* A NoReloadScope ends. *)
LEMMA LeaveNoReloadScopeStep ==
  ASSUME IInv, NEW i \in Isolate, LeaveNoReloadScope(i) PROVE IInv'
<1>1. /\ Registered' = Registered
      /\ CheckedIn' = CheckedIn
      /\ Entered' = Entered
  BY Zenon DEF IInv, LeaveNoReloadScope, TypeOK, Places, Registered, CheckedIn,
      Entered
<1>2. CountersExact' /\ SlotsExact'
  BY Zenon, <1>1, CountedSets, Counting DEF IInv, LeaveNoReloadScope, TypeOK,
      CountersExact, SlotsExact
<1>3. TypeOK' /\ Places'
  BY Zenon, <1>2, CountedSets, Counting DEF IInv, LeaveNoReloadScope, TypeOK,
      Places, CountersExact, SlotsExact
<1>4. OneRequester' /\ OthersTakePart'
  BY Zenon, <1>1 DEF IInv, LeaveNoReloadScope, TypeOK, Places, OneRequester,
      OthersTakePart, Registered
<1> QED
  BY Zenon, <1>2, <1>3, <1>4 DEF IInv

(* The task ends the isolate, which has to be entered again. *)
LEMMA EndTaskStep ==
  ASSUME IInv, NEW i \in Isolate, EndTask(i) PROVE IInv'
<1>1. /\ Registered' = Registered
      /\ CheckedIn' = CheckedIn
      /\ Entered' = Entered \ {i} /\ i \in Entered
  BY Zenon DEF IInv, EndTask, DecreaseMutatorCount, OneLess, TypeOK, Places,
      Registered, CheckedIn, Entered
<1>2. CountersExact' /\ SlotsExact'
  BY <1>1, CountedSets, Counting DEF IInv, EndTask, DecreaseMutatorCount,
      OneLess, TypeOK, CountersExact, SlotsExact
<1>3. TypeOK' /\ Places'
  BY <1>2, CountedSets, Counting DEF IInv, EndTask, DecreaseMutatorCount,
      OneLess, TypeOK, Places, CountersExact, SlotsExact
<1>4. OneRequester' /\ OthersTakePart'
  BY <1>1 DEF IInv, EndTask, DecreaseMutatorCount, OneLess, TypeOK, Places,
      OneRequester, OthersTakePart, Registered
<1> QED
  BY Zenon, <1>2, <1>3, <1>4 DEF IInv

(* The isolate unregisters itself. *)
LEMMA ClosePortsStep ==
  ASSUME IInv, NEW i \in Isolate, ClosePorts(i) PROVE IInv'
<1>1. /\ Registered' = Registered
      /\ CheckedIn' = CheckedIn
      /\ Entered' = Entered
  BY Zenon DEF IInv, ClosePorts, TypeOK, Places, Registered, CheckedIn, Entered
<1>2. CountersExact' /\ SlotsExact'
  BY Zenon, <1>1, CountedSets, Counting
     DEF IInv, ClosePorts, TypeOK, CountersExact,
      SlotsExact
<1>3. TypeOK' /\ Places'
  BY Zenon, <1>2, CountedSets, Counting DEF IInv, ClosePorts, TypeOK, Places,
      CountersExact, SlotsExact
<1>4. OneRequester' /\ OthersTakePart'
  BY <1>1 DEF IInv, ClosePorts, TypeOK, Places, OneRequester, OthersTakePart,
      Registered
<1> QED
  BY Zenon, <1>2, <1>3, <1>4 DEF IInv

(* The isolate is gone. *)
LEMMA GoneStep ==
  ASSUME IInv, NEW i \in Isolate, Gone(i) PROVE IInv'
<1>1. /\ Registered' = Registered
      /\ CheckedIn' = CheckedIn
      /\ Entered' = Entered \ {i} /\ i \in Entered
  BY Zenon DEF IInv, Gone, DecreaseMutatorCount, OneLess, TypeOK, Places,
      Registered, CheckedIn, Entered
<1>2. CountersExact' /\ SlotsExact'
  BY <1>1, CountedSets, Counting DEF IInv, Gone, DecreaseMutatorCount,
      OneLess, TypeOK, CountersExact, SlotsExact
<1>3. TypeOK' /\ Places'
  BY <1>2, CountedSets, Counting DEF IInv, Gone, DecreaseMutatorCount,
      OneLess, TypeOK, Places, CountersExact, SlotsExact
<1>4. OneRequester' /\ OthersTakePart'
  BY <1>1 DEF IInv, Gone, DecreaseMutatorCount, OneLess, TypeOK, Places,
      OneRequester, OthersTakePart, Registered
<1> QED
  BY Zenon, <1>2, <1>3, <1>4 DEF IInv

(* A message makes the isolate look for a reload. *)
LEMMA CheckForReloadStep ==
  ASSUME IInv, NEW i \in Isolate, CheckForReload(i) PROVE IInv'
<1>1. /\ Registered' = Registered
      /\ CheckedIn' = CheckedIn
      /\ Entered' = Entered
  BY Zenon
     DEF IInv, CheckForReload, TypeOK, Places, Registered, CheckedIn, Entered
<1>2. CountersExact' /\ SlotsExact'
  BY Zenon, <1>1, CountedSets, Counting DEF IInv, CheckForReload, TypeOK,
      CountersExact, SlotsExact
<1>3. TypeOK' /\ Places'
  BY <1>2, CountedSets, Counting DEF IInv, CheckForReload, TypeOK, Places,
      CountersExact, SlotsExact
<1>4. OneRequester' /\ OthersTakePart'
  BY <1>1 DEF IInv, CheckForReload, TypeOK, Places, OneRequester,
      OthersTakePart, Registered
<1> QED
  BY Zenon, <1>2, <1>3, <1>4 DEF IInv

(* The isolate goes on with its code. *)
LEMMA OOBMessagesHandledStep ==
  ASSUME IInv, NEW i \in Isolate, OOBMessagesHandled(i) PROVE IInv'
<1>1. /\ Registered' = Registered
      /\ CheckedIn' = CheckedIn
      /\ Entered' = Entered
  BY Zenon DEF IInv, OOBMessagesHandled, TypeOK, Places, Registered, CheckedIn,
      Entered
<1>2. CountersExact' /\ SlotsExact'
  BY Zenon, <1>1, CountedSets, Counting DEF IInv, OOBMessagesHandled, TypeOK,
      CountersExact, SlotsExact
<1>3. TypeOK' /\ Places'
  BY Zenon, <1>2, CountedSets, Counting DEF IInv, OOBMessagesHandled, TypeOK,
      Places, CountersExact, SlotsExact
<1>4. OneRequester' /\ OthersTakePart'
  BY <1>1 DEF IInv, OOBMessagesHandled, TypeOK, Places, OneRequester,
      OthersTakePart, Registered
<1> QED
  BY Zenon, <1>2, <1>3, <1>4 DEF IInv

(* The isolate asks for a reload. *)
LEMMA ReloadSourcesStep ==
  ASSUME IInv, NEW i \in Isolate, ReloadSources(i) PROVE IInv'
<1>1. /\ Registered' = Registered
      /\ CheckedIn' = CheckedIn
      /\ Entered' = Entered
  BY Zenon
     DEF IInv, ReloadSources, TypeOK, Places, Registered, CheckedIn, Entered
<1>2. CountersExact' /\ SlotsExact'
  BY Zenon, <1>1, CountedSets, Counting DEF IInv, ReloadSources, TypeOK,
      CountersExact, SlotsExact
<1>3. TypeOK' /\ Places'
  BY Zenon, <1>2, CountedSets, Counting DEF IInv, ReloadSources, TypeOK, Places,
      CountersExact, SlotsExact
<1>4. OneRequester' /\ OthersTakePart'
  BY <1>1 DEF IInv, ReloadSources, TypeOK, Places, OneRequester,
      OthersTakePart, Registered
<1> QED
  BY Zenon, <1>2, <1>3, <1>4 DEF IInv

(* A thread that takes part gives back its slot. *)
LEMMA ExitIsolateStep ==
  ASSUME IInv, NEW i \in Isolate, ExitIsolate(i) PROVE IInv'
<1>1. /\ Registered' = Registered
      /\ CheckedIn' = CheckedIn
      /\ Entered' = Entered \ {i} /\ i \in Entered
  BY Zenon DEF IInv, ExitIsolate, DecreaseMutatorCount, OneLess, TypeOK, Places,
      Registered, CheckedIn, Entered
<1>2. CountersExact' /\ SlotsExact'
  BY <1>1, CountedSets, Counting DEF IInv, ExitIsolate, DecreaseMutatorCount,
      OneLess, TypeOK, CountersExact, SlotsExact
<1>3. TypeOK' /\ Places'
  BY <1>2, CountedSets, Counting DEF IInv, ExitIsolate, DecreaseMutatorCount,
      OneLess, TypeOK, Places, CountersExact, SlotsExact
<1>4. OneRequester' /\ OthersTakePart'
  BY <1>1 DEF IInv, ExitIsolate, DecreaseMutatorCount, OneLess, TypeOK,
      Places, OneRequester, OthersTakePart, Registered
<1> QED
  BY Zenon, <1>2, <1>3, <1>4 DEF IInv

(* A thread that takes part waits or goes on. *)
LEMMA WaitForReloadStep ==
  ASSUME IInv, NEW i \in Isolate, WaitForReload(i) PROVE IInv'
<1>1. /\ Registered' = Registered
      /\ CheckedIn' = CheckedIn
      /\ Entered' = Entered
  BY DEF IInv, WaitForReload, TypeOK, Places, Registered, CheckedIn, Entered
<1>2. CountersExact' /\ SlotsExact'
  BY Zenon, <1>1, CountedSets, Counting DEF IInv, WaitForReload, TypeOK,
      CountersExact, SlotsExact
<1>3. TypeOK' /\ Places'
  BY <1>2, CountedSets, Counting DEF IInv, WaitForReload, TypeOK, Places,
      CountersExact, SlotsExact
<1>4. OneRequester' /\ OthersTakePart'
  BY <1>1 DEF IInv, WaitForReload, TypeOK, Places, OneRequester,
      OthersTakePart, Registered
<1> QED
  BY Zenon, <1>2, <1>3, <1>4 DEF IInv

(* The requester tells the others. *)
LEMMA SendCheckForReloadStep ==
  ASSUME IInv, NEW i \in Isolate, SendCheckForReload(i) PROVE IInv'
<1>1. /\ Registered' = Registered
      /\ CheckedIn' = CheckedIn
      /\ Entered' = Entered
  BY Zenon DEF IInv, SendCheckForReload, TypeOK, Places, Registered, CheckedIn,
      Entered
<1>2. CountersExact' /\ SlotsExact'
  BY Zenon, <1>1, CountedSets, Counting DEF IInv, SendCheckForReload, TypeOK,
      CountersExact, SlotsExact
<1>3. TypeOK' /\ Places'
  BY <1>2, CountedSets, Counting DEF IInv, SendCheckForReload, TypeOK,
      Places, CountersExact, SlotsExact
<1>4. OneRequester' /\ OthersTakePart'
  BY <1>1 DEF IInv, SendCheckForReload, TypeOK, Places, OneRequester,
      OthersTakePart, Registered
<1> QED
  BY Zenon, <1>2, <1>3, <1>4 DEF IInv

(* A thread wakes up for no reason. *)
LEMMA SpuriousWakeupStep ==
  ASSUME IInv, NEW i \in Isolate, SpuriousWakeup(i) PROVE IInv'
<1>1. /\ Registered' = Registered
      /\ CheckedIn' = CheckedIn
      /\ Entered' = Entered
  BY Zenon
     DEF IInv, SpuriousWakeup, TypeOK, Places, Registered, CheckedIn, Entered
<1>2. CountersExact' /\ SlotsExact'
  BY Zenon, <1>1, CountedSets, Counting DEF IInv, SpuriousWakeup, TypeOK,
      CountersExact, SlotsExact
<1>3. TypeOK' /\ Places'
  BY Zenon, <1>2, CountedSets, Counting
     DEF IInv, SpuriousWakeup, TypeOK, Places,
      CountersExact, SlotsExact
<1>4. OneRequester' /\ OthersTakePart'
  BY Zenon, <1>1 DEF IInv, SpuriousWakeup, TypeOK, Places, OneRequester,
      OthersTakePart, Registered
<1> QED
  BY Zenon, <1>2, <1>3, <1>4 DEF IInv

(* The requester ends the reload. *)
LEMMA ResumeIsolatesStep ==
  ASSUME IInv, NEW i \in Isolate, ResumeIsolates(i) PROVE IInv'
<1>1. /\ Registered' = Registered
      /\ CheckedIn' = CheckedIn
      /\ Entered' = Entered
  BY Zenon DEF IInv, ResumeIsolates, NotifyWaiters, TypeOK, Places, Registered,
      CheckedIn, Entered
<1>2. CountersExact' /\ SlotsExact'
  BY Zenon, <1>1, CountedSets, Counting DEF IInv, ResumeIsolates, NotifyWaiters,
      TypeOK, CountersExact, SlotsExact
<1>3. TypeOK' /\ Places'
  BY Zenon, <1>2, CountedSets, Counting DEF IInv, ResumeIsolates, NotifyWaiters,
      TypeOK, Places, CountersExact, SlotsExact
<1>4. OneRequester' /\ OthersTakePart'
  BY <1>1 DEF IInv, ResumeIsolates, NotifyWaiters, TypeOK, Places,
      OneRequester, OthersTakePart, Registered
<1> QED
  BY Zenon, <1>2, <1>3, <1>4 DEF IInv

(* A thread gets a slot, if there is one. *)
LEMMA IncreaseMutatorCountStep ==
  ASSUME IInv, NEW i \in Isolate, IncreaseMutatorCount(i) PROVE IInv'
<1>1. CASE active_mutators = MaxMutators
  <2>1. /\ Registered' = Registered /\ CheckedIn' = CheckedIn
        /\ Entered' = Entered
    BY Zenon, <1>1 DEF IncreaseMutatorCount, Registered, CheckedIn, Entered
  <2>2. CountersExact' /\ SlotsExact'
    BY Zenon, <1>1, <2>1
       DEF IInv, IncreaseMutatorCount, CountersExact, SlotsExact
  <2>3. TypeOK' /\ Places' /\ OneRequester' /\ OthersTakePart'
    BY <1>1, <2>1 DEF IInv, IncreaseMutatorCount, TypeOK, Places,
                      OneRequester, OthersTakePart
  <2> QED
    BY Zenon, <2>2, <2>3 DEF IInv
<1>2. CASE active_mutators # MaxMutators
  <2>0. /\ pc' = [pc EXCEPT ![i] = Inside(i)] /\ pc[i] = "enter"
        /\ op' = op
        /\ op[i] = "task" => Inside(i) = "run"
        /\ op[i] = "spawn" => Inside(i) = "append"
        /\ op[i] = "shutdown" => Inside(i) = "close"
        /\ op[i] \in HandlerOps => Inside(i) = "recheck"
        /\ op[i] \in HandlerOps \cup {"task", "spawn", "shutdown"}
    BY Zenon, <1>2 DEF IInv, IncreaseMutatorCount, TypeOK, Places, Inside
  <2>1. /\ Registered' = Registered /\ CheckedIn' = CheckedIn
        /\ Entered' = Entered \cup {i} /\ i \notin Entered
    BY <2>0 DEF IInv, TypeOK, Registered, CheckedIn, Entered
  <2>2. CountersExact' /\ SlotsExact'
    BY <1>2, <2>1, CountedSets, Counting
    DEF IInv, IncreaseMutatorCount, TypeOK, CountersExact, SlotsExact
  <2>3. TypeOK' /\ Places'
    BY <1>2, <2>0, <2>2 DEF IInv, IncreaseMutatorCount, TypeOK, Places,
                            SlotsExact
  <2>4. OneRequester' /\ OthersTakePart'
    BY <1>2, <2>0, <2>1 DEF IInv, IncreaseMutatorCount, TypeOK, Places,
                            OneRequester, OthersTakePart
  <2> QED
    BY Zenon, <2>2, <2>3, <2>4 DEF IInv
<1> QED
  BY Zenon, <1>1, <1>2

(* What the callers of ParticipateIfReloadRequested do keeps the number of *)
(* registered isolates right, whether or not the isolate had checked in.   *)
LEMMA ProceedStep ==
  ASSUME IInv, NEW i \in Isolate, Proceed(i), reloading_thread = NoIsolate,
         pc[i] \in {"call", "recheck"},
         pc[i] = "call" => UNCHANGED isolates_checked_in,
         pc[i] = "recheck" => CheckOut(i),
         UNCHANGED <<sleeping, oob, active_mutators, world, reloads>>
  PROVE  IInv'
<1>1. /\ op[i] = "register" => /\ Registered' = Registered \cup {i}
                               /\ i \notin Registered
      /\ op[i] = "unregister" => /\ Registered' = Registered \ {i}
                                 /\ i \in Registered
      /\ op[i] \in {"check", "pause"} => Registered' = Registered
  BY DEF IInv, Proceed, TypeOK, Places, Registered
<1>2. /\ pc[i] = "recheck" /\ op[i] # "register" =>
           CheckedIn' = CheckedIn \ {i} /\ i \in CheckedIn
      /\ pc[i] = "call" \/ op[i] = "register" => CheckedIn' = CheckedIn
      /\ Entered' = Entered
  BY DEF IInv, Proceed, TypeOK, Places, CheckedIn, Entered
<1>3. CountersExact' /\ SlotsExact'
  BY <1>1, <1>2, CountedSets, Counting
  DEF IInv, Proceed, CheckOut, TypeOK, Places, CountersExact, SlotsExact
<1>4. TypeOK' /\ Places'
  <2>1. registered_isolate_count' \in Nat /\ isolates_checked_in' \in Nat
    BY Zenon, <1>3, CountedSets, Counting DEF CountersExact
  <2>2. /\ pc' \in [Isolate -> {"none", "idle", "run", "append", "close",
                                "left", "gone", "call", "oob", "request",
                                "await", "reload"} \cup Participation]
        /\ op' \in [Isolate -> Ops]
        /\ sleeping' \subseteq
             {j \in Isolate : pc'[j] \in {"enter", "wait", "await"}}
        /\ registered' \in Nat
        /\ reloading_thread' \in Isolate \cup {NoIsolate}
    BY Zenon DEF IInv, Proceed, TypeOK
  <2>3. TypeOK'
    BY Zenon, <2>1, <2>2 DEF IInv, TypeOK
  <2>4. Places'
    BY DEF IInv, Proceed, TypeOK, Places
  <2> QED
    BY Zenon, <2>3, <2>4
<1>5. OneRequester'
  BY DEF IInv, Proceed, TypeOK, Places, OneRequester
<1>6. \A r \in Isolate : pc'[r] # "reload"
  BY Zenon DEF IInv, Proceed, TypeOK, OneRequester
<1>7. OthersTakePart'
  BY Zenon, <1>6 DEF OthersTakePart
<1> QED
  BY Zenon, <1>3, <1>4, <1>5, <1>7 DEF IInv

(* An isolate calls the handler: it goes on, sends itself the message, or  *)
(* checks in.                                                              *)
LEMMA ParticipateStep ==
  ASSUME IInv, NEW i \in Isolate, ParticipateIfReloadRequested(i)
  PROVE  IInv'
<1>1. CASE reloading_thread = NoIsolate
  BY Zenon, <1>1, ProceedStep DEF ParticipateIfReloadRequested
<1>2. CASE reloading_thread # NoIsolate /\ i \in noReload
  <2>1. /\ Registered' = Registered /\ CheckedIn' = CheckedIn
        /\ Entered' = Entered
    BY Zenon, <1>2 DEF IInv, ParticipateIfReloadRequested, TypeOK, Places,
                Registered, CheckedIn, Entered
  <2>2. CountersExact' /\ SlotsExact'
    BY Zenon, <1>2, <2>1
    DEF IInv, ParticipateIfReloadRequested, CountersExact, SlotsExact
  <2>3. TypeOK' /\ Places' /\ OneRequester' /\ OthersTakePart'
    BY <1>2, <2>1 DEF IInv, ParticipateIfReloadRequested, TypeOK, Places,
                      OneRequester, OthersTakePart, Registered
  <2> QED
    BY Zenon, <2>2, <2>3 DEF IInv
<1>3. CASE reloading_thread # NoIsolate /\ i \notin noReload
  <2>0. /\ pc[i] = "call" /\ CheckIn(i) /\ pc' = [pc EXCEPT ![i] = "exit"]
        /\ op' = op
        /\ UNCHANGED <<oob, registered_isolate_count, reloading_thread,
                       registered, active_mutators, world>>
    BY Zenon, <1>3 DEF IInv, ParticipateIfReloadRequested, TypeOK
  <2>1. /\ Registered' = Registered /\ Entered' = Entered
        /\ op[i] = "register" => CheckedIn' = CheckedIn
        /\ op[i] # "register" => /\ CheckedIn' = CheckedIn \cup {i}
                                 /\ i \notin CheckedIn
    BY <2>0 DEF IInv, TypeOK, Places, Registered, CheckedIn, Entered
  <2>2. CountersExact' /\ SlotsExact'
    BY Zenon, <2>0, <2>1, CountedSets, Counting
    DEF IInv, CheckIn, TypeOK, CountersExact, SlotsExact
  <2>3. TypeOK' /\ Places' /\ OneRequester' /\ OthersTakePart'
    BY <1>3, <2>0, <2>1 DEF IInv, CheckIn, NotifyRequester, TypeOK, Places,
                            OneRequester, OthersTakePart, Registered
  <2> QED
    BY Zenon, <2>2, <2>3 DEF IInv
<1> QED
  BY Zenon, <1>1, <1>2, <1>3

(* An isolate that took part finds another reload, or goes on. *)
LEMMA RecheckStep ==
  ASSUME IInv, NEW i \in Isolate, Recheck(i) PROVE IInv'
<1>1. CASE ~Again
  BY Zenon, <1>1, ProceedStep DEF Recheck, Again
<1>2. CASE Again
  <2>1. /\ Registered' = Registered /\ CheckedIn' = CheckedIn
        /\ Entered' = Entered
    BY <1>2 DEF IInv, Recheck, TypeOK, Places, Registered, CheckedIn, Entered
  <2>2. CountersExact' /\ SlotsExact'
    BY Zenon, <1>2, <2>1 DEF IInv, Recheck, CountersExact, SlotsExact
  <2>3. /\ pc[i] = "recheck" /\ pc' = [pc EXCEPT ![i] = "exit"] /\ op' = op
        /\ UNCHANGED <<sleeping, oob, active_mutators, handler, world>>
    BY Zenon, <1>2 DEF IInv, Recheck, Again, TypeOK
  <2>4. TypeOK' /\ Places'
    BY Zenon, <2>3 DEF IInv, TypeOK, Places
  <2>5. OneRequester'
    BY Zenon, <2>3 DEF IInv, TypeOK, OneRequester
  <2>6. OthersTakePart'
    BY <2>1, <2>3 DEF IInv, TypeOK, Places, OthersTakePart
  <2> QED
    BY Zenon, <2>2, <2>4, <2>5, <2>6 DEF IInv
<1> QED
  BY Zenon, <1>1, <1>2

(* The requester goes on when as many have checked in as there are others: *)
(* these are the others.                                                   *)
LEMMA AwaitCheckInsStep ==
  ASSUME IInv, NEW i \in Isolate, AwaitCheckIns(i) PROVE IInv'
<1>1. /\ Registered' = Registered /\ CheckedIn' = CheckedIn
      /\ Entered' = Entered
  BY DEF IInv, AwaitCheckIns, TypeOK, Places, Registered, CheckedIn, Entered
<1>2. CountersExact' /\ SlotsExact'
  BY Zenon, <1>1 DEF IInv, AwaitCheckIns, CountersExact, SlotsExact
<1>3. TypeOK' /\ Places' /\ OneRequester'
  BY DEF IInv, AwaitCheckIns, TypeOK, Places, OneRequester
<1>4. AllCheckedIn => \A j \in Registered \ {i} : Participates(j)
  <2> SUFFICES ASSUME AllCheckedIn PROVE CheckedIn = Registered \ {i}
    BY Zenon DEF CheckedIn
  <2>1. i \in Registered /\ CheckedIn \subseteq Registered \ {i}
    BY Zenon DEF IInv, AwaitCheckIns, TypeOK, Places, Registered, CheckedIn
  <2>2. Cardinality(CheckedIn) >= Cardinality(Registered) - 1
    BY Zenon DEF IInv, AwaitCheckIns, AllCheckedIn, OneRequester, CountersExact
  <2>3. Cardinality(Registered \ {i}) = Cardinality(Registered) - 1
    BY Zenon, <2>1, CountedSets, Counting
  <2>4. Cardinality(CheckedIn) >= Cardinality(Registered \ {i})
    BY Zenon, <2>2, <2>3
  <2> QED
    BY Zenon, <2>1, <2>4, CountedSets, SameSize
<1>5. OthersTakePart'
  <2>1. ASSUME NEW r \in Isolate, pc'[r] = "reload"
        PROVE  r = i /\ AllCheckedIn
    BY Zenon, <2>1 DEF IInv, AwaitCheckIns, TypeOK, OneRequester
  <2>2. \A j \in Isolate \ {i} : pc'[j] = pc[j] /\ op'[j] = op[j]
    BY Zenon DEF IInv, AwaitCheckIns, TypeOK
  <2> QED
    BY Zenon, <1>1, <1>4, <2>1, <2>2, CountedSets DEF OthersTakePart
<1> QED
  BY Zenon, <1>2, <1>3, <1>5 DEF IInv

-----------------------------------------------------------------------------
(* Every step of the specification preserves the invariant. *)
LEMMA NextPreserves ==
  ASSUME IInv, [Next]_vars PROVE IInv'
<1>1. CASE UNCHANGED vars
  BY <1>1 DEF vars, IInv, TypeOK, Places, CountersExact, SlotsExact,
              OneRequester, OthersTakePart, Registered, CheckedIn, Entered
<1>2. CASE AtRest
  BY Zenon, <1>1, <1>2 DEF AtRest
<1>3. ASSUME NEW i \in Isolate, Step(i) PROVE IInv'
  BY Zenon, <1>3, IncreaseMutatorCountStep, AppendStep, ClosePortsStep,
     GoneStep,
     ParticipateStep, ExitIsolateStep, WaitForReloadStep, RecheckStep,
     SendCheckForReloadStep, AwaitCheckInsStep, ResumeIsolatesStep,
     OOBMessagesHandledStep DEF Step
<1> QED
  BY Zenon, <1>1, <1>2, <1>3, SpawnStep, StartTaskStep, LeaveStep, EndTaskStep,
     EnterNoReloadScopeStep, LeaveNoReloadScopeStep, CheckForReloadStep,
     ReloadSourcesStep, SpuriousWakeupStep DEF Next

-----------------------------------------------------------------------------
(* The inductive invariant of the rendezvous, for any finite set of        *)
(* isolates, any number of slots and any number of reloads.                *)
THEOREM Invariant == Spec => []IInv
BY InitHolds, NextPreserves, PTL DEF Spec

(* Type correctness: the counters never underflow, and only threads in a   *)
(* wait sleep.                                                             *)
THEOREM TypeCorrect == Spec => []TypeOK
<1>1. IInv => TypeOK
  BY Zenon DEF IInv
<1> QED
  BY <1>1, Invariant, PTL

(* isolates_checked_in_ and registered_isolate_count_ are exact, whatever  *)
(* registers, unregisters and participates at the same time.               *)
THEOREM CountersCorrect == Spec => []CountersExact
<1>1. IInv => CountersExact
  BY Zenon DEF IInv
<1> QED
  BY <1>1, Invariant, PTL

(* active_mutators_ is the number of threads inside their isolates and     *)
(* within the limit, although waits of the rendezvous give slots back.     *)
THEOREM SlotsCorrect == Spec => []SlotsExact
<1>1. IInv => SlotsExact
  BY Zenon DEF IInv
<1> QED
  BY <1>1, Invariant, PTL

(* ReloadHandler's purpose: while the program is reloaded, every other     *)
(* isolate waits in ParticipateIfReloadRequested.                          *)
THEOREM ReloadAlone == Spec => []ReloadIsAlone
BY Invariant, InvariantImplies, PTL

=============================================================================
