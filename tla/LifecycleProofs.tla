--------------------------- MODULE LifecycleProofs ---------------------------
(***************************************************************************)
(* Proofs about Lifecycle, for any finite set of application isolates.     *)
(* The inductive invariant IInv ties every list and counter of the code to *)
(* where the threads of the isolates are.                                  *)
(***************************************************************************)
EXTENDS Lifecycle, FiniteSetTheorems, TLAPS

(* Places of a thread: between TryMarkIsolateReady and UnMarkIsolateReady, *)
(* with an open main port, in the list, counted, and so on.                *)
Ready == {"ready", "created", "running", "ending"}
Open == Ready \cup {"listed", "unready"}
Listed == Open \cup {"closed"}
Counted == Listed \cup {"unlisted"}
Alive == {"running", "ending"}
Starting == {"queued", "grouped", "listed", "ready"}

(* The isolates that count as being in a group. *)
Members(g) == {i \in Isolate : group[i] = g /\ pc[i] \in Counted}

(* The lists are exactly what the places of the threads say. *)
ListsExact ==
  \A i \in Isolate :
    /\ i \in accepts <=> pc[i] \in Ready
    /\ i \in ports <=> pc[i] \in Open
    /\ i \in isolates <=> pc[i] \in Listed
    /\ i \in groups <=> shutdown[i] \in {"live", "requested"}

(* isolate_count_ is the number of members. *)
CountsExact ==
  \A g \in Isolate : isolate_count[g] = Cardinality(Members(g))

(* A group lives while an isolate is in it; it begins with the isolate it  *)
(* is named after.                                                         *)
GroupsLive ==
  \A i \in Isolate :
    /\ pc[i] \in Counted \cup {"grouped"} =>
         group[i] \in Isolate /\ shutdown[group[i]] = "live"
    /\ pc[i] = "grouped" => group[i] = i
    /\ i \in App /\ pc[i] # "none" => group[i] \in App
    /\ i \in System => group[i] = i
    /\ pc[i] \in {"none", "queued", "grouped"} =>
         \A j \in Isolate : group[j] = i => j = i

(* A child that is being created has a parent that waits for it. *)
ParentsWait ==
  \A i \in Isolate :
    /\ parent[i] # None =>
         /\ i \in App /\ pc[parent[i]] \in Alive
         /\ pc[i] \notin {"none", "created", "running", "gone"}
    /\ i \in App /\ pc[i] \in Starting => parent[i] # None
    /\ pc[i] = "queued" /\ group[i] # i => group[i] = group[parent[i]]

(* Workers of a group's pool keep the pool. *)
WorkersHavePool ==
  \A i \in onGroupPool :
    /\ pc[i] \notin Starting \cup {"none", "created", "inline"}
    /\ parent[i] = None
    /\ pc[i] # "gone" => shutdown[group[i]] \in {"live", "requested"}

(* Whoever has not got the kill message yet is still to be visited. *)
KillReaches ==
  /\ creation_enabled <=> cleanup = "up"
  /\ \A i \in App : i \in accepts =>
       /\ cleanup = "kill" =>
            i \in killed \/ i \in visiting \/ group[i] \in toVisit
       /\ cleanup \notin {"up", "disabled", "kill"} => i \in killed

(* The states of the system isolates, and who waits for the kernel. *)
SystemStates ==
  /\ \A i \in Isolate : request[i] \in {"port", "answer"} =>
       i \in App /\ pc[i] \in {"queued", "ready", "running"}
  /\ pc[Service] # "none"
  /\ pc[Kernel] = "none" => state[Kernel] = "notStarted"
  /\ state[Kernel] = "notStarted" => pc[Kernel] = "none"
  /\ \A s \in System :
       /\ pc[s] \in Starting \cup {"created"} => state[s] = "starting"
       /\ pc[s] \in Starting \cup {"none"} => s \notin load
  /\ pc[Kernel] \in Starting => \E p \in App : request[p] = "port"
  /\ cleanup \in {"serviceCheck", "serviceStop", "serviceExit",
                  "serviceKill", "serviceKillSend", "serviceWait", "all",
                  "pool", "down"} => state[Service] # "starting"

(* Dart_Cleanup goes on only when what it waited for is gone. *)
CleanupOrder ==
  /\ cleanup \in {"pool", "down"} => groups = {}
  /\ cleanup = "down" => /\ \A i \in Isolate : pc[i] \in {"none", "gone"}
                         /\ \A g \in Isolate : shutdown[g] \in {"none",
                                                               "deleted"}

(* The inductive invariant. *)
IInv ==
  /\ TypeOK /\ ListsExact /\ CountsExact /\ GroupsLive /\ ParentsWait
  /\ WorkersHavePool /\ KillReaches /\ SystemStates /\ CleanupOrder

-----------------------------------------------------------------------------
(* The sets of isolates, from the assumption on the constants. *)
LEMMA Sets ==
  /\ App \subseteq Isolate /\ System \subseteq Isolate
  /\ System = {Kernel, Service} /\ Kernel # Service
  /\ \A i \in Isolate : i \in App <=> i \notin System
  /\ None \notin Isolate /\ Main \in App /\ Source \subseteq App
BY Zenon, LifecycleAssumption DEF Isolate, System

(* There are finitely many isolates, so the members of a group can be      *)
(* counted.                                                                *)
LEMMA IsolatesFinite == IsFiniteSet(Isolate)
<1>1. IsFiniteSet(App \cup {Kernel})
  BY Zenon, LifecycleAssumption, FS_AddElement
<1>2. IsFiniteSet((App \cup {Kernel}) \cup {Service})
  BY Zenon, <1>1, FS_AddElement
<1>3. Isolate = (App \cup {Kernel}) \cup {Service}
  BY Zenon DEF Isolate
<1> QED
  BY Zenon, <1>2, <1>3

USE Sets DEF At, Goto, Leave, Then, Steps, Phases, Ready, Open, Listed, Counted, Alive,
             Starting, threads, lists, messages, killer, system

(* A set of isolates, like the members of a group, is finite. *)
LEMMA CountInRange ==
  ASSUME NEW S, S \subseteq Isolate
  PROVE  IsFiniteSet(S) /\ Cardinality(S) \in 0..Cardinality(Isolate)
<1>1. IsFiniteSet(S) /\ Cardinality(S) <= Cardinality(Isolate)
  BY Zenon, IsolatesFinite, FS_Subset
<1>2. Cardinality(S) \in Nat /\ Cardinality(Isolate) \in Nat
  BY Zenon, <1>1, IsolatesFinite, FS_CardinalityType
<1> QED
  BY <1>1, <1>2

(* A step in which no isolate joins or leaves a group keeps the counts. *)
LEMMA SameMembers ==
  ASSUME CountsExact, isolate_count' = isolate_count,
         \A i \in Isolate : pc'[i] \in Counted <=> pc[i] \in Counted,
         \A i \in Isolate : pc[i] \in Counted => group'[i] = group[i]
  PROVE  CountsExact'
<1>1. \A g \in Isolate : Members(g)' = Members(g)
  BY Zenon DEF Members
<1> QED
  BY Zenon, <1>1 DEF CountsExact

(* Once no group is left, no isolate is left or being created: whoever is  *)
(* being created has a parent, or somebody who waits for the kernel.       *)
LEMMA NoGroupNoIsolate ==
  ASSUME IInv, groups = {}, state[Service] # "starting"
  PROVE  /\ isolates = {}
         /\ \A i \in Isolate : pc[i] \notin Counted \cup Starting
<1>1. \A i \in Isolate : shutdown[i] # "live"
  BY Zenon DEF IInv, TypeOK, ListsExact
<1>2. \A i \in Isolate : pc[i] \notin Counted \cup {"grouped"}
  BY Zenon, <1>1 DEF IInv, GroupsLive
<1>3. \A i \in App : pc[i] # "queued"
  BY <1>2 DEF IInv, TypeOK, ParentsWait
<1>4. \A i \in System : pc[i] # "queued"
  BY Zenon, <1>2, <1>3 DEF IInv, TypeOK, SystemStates
<1> QED
  BY Zenon, <1>2, <1>3, <1>4 DEF IInv, TypeOK, ListsExact

(* What the runs check follows from the invariant. *)
LEMMA InvariantImplies ==
  ASSUME IInv
  PROVE  /\ KillIsPosted /\ NoneEscapesTheKill /\ SpawnerOutlivesTask
         /\ GroupOutlivesIsolates /\ NothingRunsAfterCleanup
<1>1. KillIsPosted
  BY Zenon DEF IInv, TypeOK, ListsExact, KillIsPosted
<1>2. NoneEscapesTheKill
  BY Zenon DEF IInv, TypeOK, KillReaches, NoneEscapesTheKill
<1>3. SpawnerOutlivesTask
  BY DEF IInv, TypeOK, ParentsWait, GroupsLive, SpawnerOutlivesTask
<1>4. GroupOutlivesIsolates
  BY DEF IInv, TypeOK, GroupsLive, WorkersHavePool, GroupOutlivesIsolates
<1>5. VMIsolateIsAlone
  BY Zenon, NoGroupNoIsolate
     DEF IInv, SystemStates, CleanupOrder, VMIsolateIsAlone
<1> QED
  BY Zenon, <1>1, <1>2, <1>3, <1>4, <1>5
  DEF IInv, CleanupOrder, NothingRunsAfterCleanup

-----------------------------------------------------------------------------
(* The invariant holds at the start: there is one isolate, the only one in *)
(* its group.                                                              *)
LEMMA InitHolds == Init => IInv
<1> SUFFICES ASSUME Init PROVE IInv
  BY Zenon
<1>1. CountsExact
  <2>1. Members(Main) = {Main} /\ \A g \in Isolate \ {Main} : Members(g) = {}
    BY Zenon DEF Init, Members
  <2>2. Cardinality({Main}) = 1 /\ Cardinality({}) = 0
    BY Zenon, FS_Singleton, FS_EmptySet
  <2> QED
    BY Zenon, <2>1, <2>2 DEF Init, CountsExact
<1>2. \A g \in Isolate : isolate_count[g] \in 0..Cardinality(Isolate)
  <2>1. \A g \in Isolate : Members(g) \subseteq Isolate
    BY Zenon DEF Members
  <2> QED
    BY Zenon, <1>1, <2>1, CountInRange DEF CountsExact
<1>3. TypeOK
  BY Zenon, <1>2 DEF Init, TypeOK
<1>4. ListsExact /\ GroupsLive /\ ParentsWait /\ WorkersHavePool
  BY Zenon DEF Init, ListsExact, GroupsLive, ParentsWait, WorkersHavePool
<1>5. KillReaches /\ SystemStates /\ CleanupOrder
  BY Zenon DEF Init, KillReaches, SystemStates, CleanupOrder
<1> QED
  BY Zenon, <1>1, <1>3, <1>4, <1>5 DEF IInv

(* Creation. *)

(* A child gets a running parent, and the parent's group or its own. *)
LEMMA SpawnStep ==
  ASSUME IInv, NEW p \in App, NEW i \in App, Spawn(p, i) PROVE IInv'
<1>1. TypeOK' /\ ListsExact'
  BY DEF IInv, Spawn, TypeOK, ListsExact
<1>2. CountsExact'
  BY SameMembers DEF IInv, Spawn, TypeOK
<1>3. GroupsLive' /\ ParentsWait' /\ WorkersHavePool'
  BY DEF IInv, Spawn, TypeOK, GroupsLive, ParentsWait, WorkersHavePool
<1>4. KillReaches' /\ SystemStates' /\ CleanupOrder'
  BY DEF IInv, Spawn, TypeOK, KillReaches, SystemStates, CleanupOrder,
      ListsExact
<1> QED
  BY Zenon, <1>1, <1>2, <1>3, <1>4 DEF IInv

(* A group begins: not after the cleanup has found that none is left. *)
LEMMA RegisterIsolateGroupStep ==
  ASSUME IInv, NEW i \in Isolate, RegisterIsolateGroup(i) PROVE IInv'
<1>1. TypeOK' /\ ListsExact'
  BY DEF IInv, RegisterIsolateGroup, TypeOK, ListsExact
<1>2. CountsExact'
  BY Zenon, SameMembers DEF IInv, RegisterIsolateGroup, TypeOK
<1>3. GroupsLive' /\ ParentsWait' /\ WorkersHavePool'
  BY DEF IInv, RegisterIsolateGroup, TypeOK, GroupsLive, ParentsWait,
      WorkersHavePool
<1>4. KillReaches' /\ SystemStates' /\ CleanupOrder'
  BY NoGroupNoIsolate DEF IInv, RegisterIsolateGroup, TypeOK, KillReaches,
      SystemStates, CleanupOrder
<1> QED
  BY Zenon, <1>1, <1>2, <1>3, <1>4 DEF IInv

(* A creation fails before it has entered anything into a list. *)
LEMMA CallbackFailsStep ==
  ASSUME IInv, NEW i \in Isolate, CallbackFails(i) PROVE IInv'
<1>1. TypeOK' /\ ListsExact'
  BY DEF IInv, CallbackFails, TypeOK, ListsExact
<1>2. CountsExact'
  BY Zenon, SameMembers DEF IInv, CallbackFails, TypeOK
<1>3. GroupsLive' /\ ParentsWait' /\ WorkersHavePool'
  BY DEF IInv, CallbackFails, TypeOK, GroupsLive, ParentsWait,
      WorkersHavePool
<1>4. KillReaches' /\ SystemStates' /\ CleanupOrder'
  BY Zenon
     DEF IInv, CallbackFails, TypeOK, KillReaches, SystemStates, CleanupOrder
<1> QED
  BY Zenon, <1>1, <1>2, <1>3, <1>4 DEF IInv

(* An isolate is entered into its group's list and counted.  Its group is   *)
(* alive: it is new, or it is the group of a parent that waits.            *)
LEMMA RegisterIsolateStep ==
  ASSUME IInv, NEW i \in Isolate, RegisterIsolate(i) PROVE IInv'
<1>0. /\ group[i] \in Isolate /\ shutdown[group[i]] = "live"
      /\ pc[i] \notin Counted
  BY DEF IInv, RegisterIsolate, TypeOK, GroupsLive, ParentsWait
<1>1. CountsExact'
  <2>1. group[i] \in Isolate /\ pc[i] \notin Counted
    BY Zenon, <1>0
  <2>2. Members(group[i])' = Members(group[i]) \cup {i}
    BY <2>1 DEF IInv, RegisterIsolate, TypeOK, Members
  <2>3. \A g \in Isolate \ {group[i]} : Members(g)' = Members(g)
    BY <2>1 DEF IInv, RegisterIsolate, TypeOK, Members
  <2>4. i \notin Members(group[i]) /\ IsFiniteSet(Members(group[i]))
    BY Zenon, <2>1, CountInRange DEF Members
  <2>5. Cardinality(Members(group[i])') = Cardinality(Members(group[i])) + 1
    BY Zenon, <2>2, <2>4, FS_AddElement
  <2> QED
    BY Zenon, <2>1, <2>3, <2>5 DEF IInv, RegisterIsolate, TypeOK, CountsExact
<1>2. TypeOK' /\ ListsExact'
  <2>1. \A g \in Isolate : isolate_count'[g] \in 0..Cardinality(Isolate)
    <3>1. \A g \in Isolate : Members(g)' \subseteq Isolate
      BY Zenon DEF Members
    <3> QED
      BY Zenon, <1>1, <3>1, CountInRange DEF CountsExact
  <2>2. isolate_count' \in [Isolate -> 0..Cardinality(Isolate)]
    BY Zenon, <2>1 DEF IInv, RegisterIsolate, TypeOK
  <2> QED
    BY <2>2 DEF IInv, RegisterIsolate, TypeOK, ListsExact
<1>3. GroupsLive' /\ ParentsWait' /\ WorkersHavePool'
  BY <1>0 DEF IInv, RegisterIsolate, TypeOK, GroupsLive, ParentsWait,
              WorkersHavePool
<1>4. KillReaches' /\ SystemStates' /\ CleanupOrder'
  BY DEF IInv, RegisterIsolate, TypeOK, KillReaches, SystemStates,
         CleanupOrder
<1> QED
  BY Zenon, <1>1, <1>2, <1>3, <1>4 DEF IInv

(* An isolate becomes ready only before the kill has begun. *)
LEMMA TryMarkIsolateReadyStep ==
  ASSUME IInv, NEW i \in Isolate, TryMarkIsolateReady(i) PROVE IInv'
<1>1. TypeOK' /\ ListsExact'
  BY DEF IInv, TryMarkIsolateReady, TypeOK, ListsExact
<1>2. CountsExact'
  BY SameMembers DEF IInv, TryMarkIsolateReady, TypeOK
<1>3. GroupsLive' /\ ParentsWait' /\ WorkersHavePool'
  BY DEF IInv, TryMarkIsolateReady, TypeOK, GroupsLive, ParentsWait,
      WorkersHavePool
<1>4. KillReaches' /\ SystemStates' /\ CleanupOrder'
  BY DEF IInv, TryMarkIsolateReady, TypeOK, KillReaches, SystemStates,
      CleanupOrder, MayBecomeReady
<1> QED
  BY Zenon, <1>1, <1>2, <1>3, <1>4 DEF IInv

(* A creation fails after the isolate has become ready. *)
LEMMA InitializeFailsStep ==
  ASSUME IInv, NEW i \in Isolate, InitializeFails(i) PROVE IInv'
<1>1. TypeOK' /\ ListsExact'
  BY DEF IInv, InitializeFails, TypeOK, ListsExact
<1>2. CountsExact'
  BY Zenon, SameMembers DEF IInv, InitializeFails, TypeOK
<1>3. GroupsLive' /\ ParentsWait' /\ WorkersHavePool'
  BY DEF IInv, InitializeFails, TypeOK, GroupsLive, ParentsWait,
      WorkersHavePool
<1>4. KillReaches' /\ SystemStates' /\ CleanupOrder'
  BY Zenon DEF IInv, InitializeFails, TypeOK, KillReaches, SystemStates,
      CleanupOrder
<1> QED
  BY Zenon, <1>1, <1>2, <1>3, <1>4 DEF IInv

(* The parent is no longer needed, and the isolate becomes a worker of its *)
(* group's pool.                                                           *)
LEMMA DecrementSpawnCountStep ==
  ASSUME IInv, NEW i \in Isolate, DecrementSpawnCount(i) PROVE IInv'
<1>1. TypeOK' /\ ListsExact'
  BY DEF IInv, DecrementSpawnCount, TypeOK, ListsExact, ParentsWait
<1>2. CountsExact'
  BY SameMembers DEF IInv, DecrementSpawnCount, TypeOK
<1>3. GroupsLive' /\ ParentsWait' /\ WorkersHavePool'
  BY DEF IInv, DecrementSpawnCount, TypeOK, GroupsLive, ParentsWait,
      WorkersHavePool
<1>4. KillReaches' /\ SystemStates' /\ CleanupOrder'
  BY DEF IInv, DecrementSpawnCount, TypeOK, KillReaches, SystemStates,
      CleanupOrder
<1> QED
  BY Zenon, <1>1, <1>2, <1>3, <1>4 DEF IInv

(* A system isolate sets its port or not. *)
LEMMA RunMainStep ==
  ASSUME IInv, NEW i \in Isolate, RunMain(i) PROVE IInv'
<1>1. TypeOK' /\ ListsExact'
  BY DEF IInv, RunMain, TypeOK, ListsExact
<1>2. CountsExact'
  BY Zenon, SameMembers DEF IInv, RunMain, TypeOK
<1>3. GroupsLive' /\ ParentsWait' /\ WorkersHavePool'
  BY DEF IInv, RunMain, TypeOK, GroupsLive, ParentsWait, WorkersHavePool
<1>4. KillReaches' /\ SystemStates' /\ CleanupOrder'
  BY DEF IInv, RunMain, TypeOK, KillReaches, SystemStates, CleanupOrder
<1> QED
  BY Zenon, <1>1, <1>2, <1>3, <1>4 DEF IInv

(* A system isolate has started. *)
LEMMA FinishedInitializingStep ==
  ASSUME IInv, NEW i \in Isolate, FinishedInitializing(i) PROVE IInv'
<1>1. TypeOK' /\ ListsExact'
  BY DEF IInv, FinishedInitializing, TypeOK, ListsExact
<1>2. CountsExact'
  BY Zenon, SameMembers DEF IInv, FinishedInitializing, TypeOK
<1>3. GroupsLive' /\ ParentsWait' /\ WorkersHavePool'
  BY DEF IInv, FinishedInitializing, TypeOK, GroupsLive, ParentsWait,
      WorkersHavePool
<1>4. KillReaches' /\ SystemStates' /\ CleanupOrder'
  BY Zenon DEF IInv, FinishedInitializing, TypeOK, KillReaches, SystemStates,
      CleanupOrder
<1> QED
  BY Zenon, <1>1, <1>2, <1>3, <1>4 DEF IInv

(* Nobody stops waiting while the kernel isolate is on its way. *)
LEMMA WaitForKernelPortStep ==
  ASSUME IInv, NEW i \in Isolate, WaitForKernelPort(i) PROVE IInv'
<1>1. TypeOK' /\ ListsExact'
  BY DEF IInv, WaitForKernelPort, Answered, TypeOK, ListsExact
<1>2. CountsExact'
  BY SameMembers DEF IInv, WaitForKernelPort, Answered, TypeOK
<1>3. GroupsLive' /\ ParentsWait' /\ WorkersHavePool'
  BY DEF IInv, WaitForKernelPort, Answered, TypeOK, GroupsLive, ParentsWait,
      WorkersHavePool
<1>4. KillReaches' /\ SystemStates' /\ CleanupOrder'
  BY DEF IInv, WaitForKernelPort, Answered, TypeOK, KillReaches, SystemStates,
      CleanupOrder
<1> QED
  BY Zenon, <1>1, <1>2, <1>3, <1>4 DEF IInv

(* The kernel isolate answers a request. *)
LEMMA KernelAnswersStep ==
  ASSUME IInv, NEW i \in Isolate, KernelAnswers(i) PROVE IInv'
<1>1. TypeOK' /\ ListsExact'
  BY Zenon DEF IInv, KernelAnswers, Answered, TypeOK, ListsExact
<1>2. CountsExact'
  BY Zenon, SameMembers DEF IInv, KernelAnswers, Answered, TypeOK
<1>3. GroupsLive' /\ ParentsWait' /\ WorkersHavePool'
  BY DEF IInv, KernelAnswers, Answered, TypeOK, GroupsLive, ParentsWait,
      WorkersHavePool
<1>4. KillReaches' /\ SystemStates' /\ CleanupOrder'
  BY Zenon
     DEF IInv, KernelAnswers, Answered, TypeOK, KillReaches, SystemStates, CleanupOrder
<1> QED
  BY Zenon, <1>1, <1>2, <1>3, <1>4 DEF IInv

(* An isolate begins to end. *)
LEMMA EndCallbackStep ==
  ASSUME IInv, NEW i \in Isolate, EndCallback(i) PROVE IInv'
<1>1. TypeOK' /\ ListsExact'
  BY DEF IInv, EndCallback, TypeOK, ListsExact
<1>2. CountsExact'
  BY Zenon, SameMembers DEF IInv, EndCallback, TypeOK
<1>3. GroupsLive' /\ ParentsWait' /\ WorkersHavePool'
  BY DEF IInv, EndCallback, TypeOK, GroupsLive, ParentsWait, WorkersHavePool
<1>4. KillReaches' /\ SystemStates' /\ CleanupOrder'
  BY Zenon
     DEF IInv, EndCallback, TypeOK, KillReaches, SystemStates, CleanupOrder
<1> QED
  BY Zenon, <1>1, <1>2, <1>3, <1>4 DEF IInv

(* The first request starts the kernel isolate, whose thread was nowhere. *)
LEMMA StartKernelStep ==
  ASSUME IInv, NEW i \in Isolate, StartKernel(i) PROVE IInv'
<1>0. /\ i \in App /\ pc[i] \in {"queued", "ready", "running"}
      /\ state[Kernel] = "notStarted" => pc[Kernel] = "none"
  BY Zenon DEF IInv, StartKernel, MayAsk, SystemStates
<1>1. TypeOK' /\ ListsExact'
  BY <1>0 DEF IInv, StartKernel, TypeOK, ListsExact
<1>2. CountsExact'
  BY <1>0, SameMembers DEF IInv, StartKernel, TypeOK
<1>3. GroupsLive' /\ ParentsWait' /\ WorkersHavePool'
  BY <1>0 DEF IInv, StartKernel, TypeOK, GroupsLive, ParentsWait,
              WorkersHavePool
<1>4. KillReaches' /\ SystemStates' /\ CleanupOrder'
  BY <1>0 DEF IInv, StartKernel, TypeOK, KillReaches, SystemStates,
              CleanupOrder
<1> QED
  BY Zenon, <1>1, <1>2, <1>3, <1>4 DEF IInv

(* The end of isolates and groups. *)

(* No child has the isolate as its parent any more. *)
LEMMA UnMarkIsolateReadyStep ==
  ASSUME IInv, NEW i \in Isolate, UnMarkIsolateReady(i) PROVE IInv'
<1>1. TypeOK' /\ ListsExact'
  BY Zenon DEF IInv, UnMarkIsolateReady, TypeOK, ListsExact
<1>2. CountsExact'
  BY Zenon, SameMembers DEF IInv, UnMarkIsolateReady, TypeOK
<1>3. GroupsLive' /\ ParentsWait' /\ WorkersHavePool'
  BY DEF IInv, UnMarkIsolateReady, TypeOK, GroupsLive, ParentsWait,
      WorkersHavePool, NoOutstandingSpawns
<1>4. KillReaches' /\ SystemStates' /\ CleanupOrder'
  BY DEF IInv, UnMarkIsolateReady, TypeOK, KillReaches, SystemStates,
      CleanupOrder, ListsExact
<1> QED
  BY Zenon, <1>1, <1>2, <1>3, <1>4 DEF IInv

(* The port is closed and takes its messages with it. *)
LEMMA LowLevelShutdownStep ==
  ASSUME IInv, NEW i \in Isolate, LowLevelShutdown(i) PROVE IInv'
<1>1. TypeOK' /\ ListsExact'
  BY DEF IInv, LowLevelShutdown, TypeOK, ListsExact
<1>2. CountsExact'
  BY Zenon, SameMembers DEF IInv, LowLevelShutdown, TypeOK
<1>3. GroupsLive' /\ ParentsWait' /\ WorkersHavePool'
  BY DEF IInv, LowLevelShutdown, TypeOK, GroupsLive, ParentsWait,
      WorkersHavePool
<1>4. KillReaches' /\ SystemStates' /\ CleanupOrder'
  BY DEF IInv, LowLevelShutdown, TypeOK, KillReaches, SystemStates,
      CleanupOrder, ListsExact
<1> QED
  BY Zenon, <1>1, <1>2, <1>3, <1>4 DEF IInv

(* An isolate leaves the list and is still counted. *)
LEMMA UnregisterIsolateStep ==
  ASSUME IInv, NEW i \in Isolate, UnregisterIsolate(i) PROVE IInv'
<1>1. TypeOK' /\ ListsExact'
  BY DEF IInv, UnregisterIsolate, TypeOK, ListsExact
<1>2. CountsExact'
  BY Zenon, SameMembers DEF IInv, UnregisterIsolate, TypeOK
<1>3. GroupsLive' /\ ParentsWait' /\ WorkersHavePool'
  BY DEF IInv, UnregisterIsolate, TypeOK, GroupsLive, ParentsWait,
      WorkersHavePool
<1>4. KillReaches' /\ SystemStates' /\ CleanupOrder'
  BY Zenon DEF IInv, UnregisterIsolate, TypeOK, KillReaches, SystemStates,
      CleanupOrder
<1> QED
  BY Zenon, <1>1, <1>2, <1>3, <1>4 DEF IInv

(* An isolate is counted off.  If it is the last, nobody else is in the    *)
(* group, and so nobody minds that its shutdown begins.                    *)
LEMMA DecrementCountStep ==
  ASSUME IInv, NEW i \in Isolate, UnregisterIsolateDecrementCount(i)
  PROVE  IInv'
<1> DEFINE g == group[i]
<1>0. /\ g \in Isolate /\ shutdown[g] = "live" /\ i \in Members(g)
      /\ IsFiniteSet(Members(g))
  BY Zenon, CountInRange
  DEF IInv, UnregisterIsolateDecrementCount, GroupsLive, Members
<1>1. CountsExact'
  <2>1. Members(g)' = Members(g) \ {i}
    BY DEF IInv, UnregisterIsolateDecrementCount, TypeOK, Members
  <2>2. \A h \in Isolate \ {g} : Members(h)' = Members(h)
    BY DEF IInv, UnregisterIsolateDecrementCount, TypeOK, Members
  <2>3. Cardinality(Members(g)') = Cardinality(Members(g)) - 1
    BY Zenon, <1>0, <2>1, FS_RemoveElement
  <2> QED
    BY Zenon, <1>0, <2>2, <2>3
    DEF IInv, UnregisterIsolateDecrementCount, TypeOK, CountsExact
<1>2. TypeOK' /\ ListsExact'
  <2>1. \A h \in Isolate : isolate_count'[h] \in 0..Cardinality(Isolate)
    <3>1. \A h \in Isolate : Members(h)' \subseteq Isolate
      BY Zenon DEF Members
    <3> QED
      BY Zenon, <1>1, <3>1, CountInRange DEF CountsExact
  <2>2. isolate_count' \in [Isolate -> 0..Cardinality(Isolate)]
    BY Zenon, <2>1 DEF IInv, UnregisterIsolateDecrementCount, TypeOK
  <2> QED
    BY <1>0, <2>2
    DEF IInv, UnregisterIsolateDecrementCount, TypeOK, ListsExact
<1>3. GroupsLive' /\ ParentsWait' /\ WorkersHavePool'
  <2>1. ASSUME LastOfGroup(i), NEW j \in Isolate \ {i}, group[j] = g
        PROVE  pc[j] \notin Counted \cup {"grouped"}
    <3>1. Cardinality(Members(g)) = 1
      BY Zenon, <1>0, <2>1 DEF IInv, CountsExact, LastOfGroup
    <3>2. Members(g) = {i}
      BY <1>0, <3>1, FS_Singleton
    <3> QED
      BY <1>0, <2>1, <3>2
      DEF IInv, UnregisterIsolateDecrementCount, GroupsLive, Members
  <2> QED
    BY <1>0, <2>1 DEF IInv, UnregisterIsolateDecrementCount, TypeOK,
                      GroupsLive, ParentsWait, WorkersHavePool
<1>4. KillReaches' /\ SystemStates' /\ CleanupOrder'
  BY <1>0 DEF IInv, UnregisterIsolateDecrementCount, TypeOK, KillReaches,
              SystemStates, CleanupOrder
<1> QED
  BY Zenon, <1>1, <1>2, <1>3, <1>4 DEF IInv

(* A system isolate has ended. *)
LEMMA FinishedStep ==
  ASSUME IInv, NEW i \in Isolate, Finished(i) PROVE IInv'
<1>1. TypeOK' /\ ListsExact'
  BY DEF IInv, Finished, TypeOK, ListsExact
<1>2. CountsExact'
  BY Zenon, SameMembers DEF IInv, Finished, TypeOK
<1>3. GroupsLive' /\ ParentsWait' /\ WorkersHavePool'
  BY DEF IInv, Finished, TypeOK, GroupsLive, ParentsWait, WorkersHavePool
<1>4. KillReaches' /\ SystemStates' /\ CleanupOrder'
  BY Zenon DEF IInv, Finished, TypeOK, KillReaches, SystemStates, CleanupOrder
<1> QED
  BY Zenon, <1>1, <1>2, <1>3, <1>4 DEF IInv

(* The last thread of an isolate returns. *)
LEMMA ThreadReturnsStep ==
  ASSUME IInv, NEW i \in Isolate, ThreadReturns(i) PROVE IInv'
<1>1. TypeOK' /\ ListsExact'
  BY DEF IInv, ThreadReturns, TypeOK, ListsExact
<1>2. CountsExact'
  BY Zenon, SameMembers DEF IInv, ThreadReturns, TypeOK
<1>3. GroupsLive' /\ ParentsWait' /\ WorkersHavePool'
  BY DEF IInv, ThreadReturns, TypeOK, GroupsLive, ParentsWait,
      WorkersHavePool
<1>4. KillReaches' /\ SystemStates' /\ CleanupOrder'
  BY Zenon
     DEF IInv, ThreadReturns, TypeOK, KillReaches, SystemStates, CleanupOrder
<1> QED
  BY Zenon, <1>1, <1>2, <1>3, <1>4 DEF IInv

(* A group whose pool has no worker left leaves the list. *)
LEMMA UnregisterIsolateGroupStep ==
  ASSUME IInv, NEW i \in Isolate, UnregisterIsolateGroup(i) PROVE IInv'
<1>1. TypeOK' /\ ListsExact'
  BY Zenon DEF IInv, UnregisterIsolateGroup, TypeOK, ListsExact
<1>2. CountsExact'
  BY Zenon, SameMembers DEF IInv, UnregisterIsolateGroup, TypeOK
<1>3. GroupsLive' /\ ParentsWait' /\ WorkersHavePool'
  BY DEF IInv, UnregisterIsolateGroup, TypeOK, GroupsLive, ParentsWait,
      WorkersHavePool, PoolWorkers
<1>4. KillReaches' /\ SystemStates' /\ CleanupOrder'
  BY Zenon DEF IInv, UnregisterIsolateGroup, TypeOK, KillReaches, SystemStates,
      CleanupOrder
<1> QED
  BY Zenon, <1>1, <1>2, <1>3, <1>4 DEF IInv

(* A group is deleted, and the thread that has shut it down goes on. *)
LEMMA DeleteGroupStep ==
  ASSUME IInv, NEW i \in Isolate, DeleteGroup(i) PROVE IInv'
<1>1. TypeOK' /\ ListsExact'
  BY Zenon DEF IInv, DeleteGroup, TypeOK, ListsExact
<1>2. CountsExact'
  BY Zenon, SameMembers DEF IInv, DeleteGroup, TypeOK
<1>3. GroupsLive' /\ ParentsWait' /\ WorkersHavePool'
  BY DEF IInv, DeleteGroup, TypeOK, GroupsLive, ParentsWait, WorkersHavePool
<1>4. KillReaches' /\ SystemStates' /\ CleanupOrder'
  BY Zenon
     DEF IInv, DeleteGroup, TypeOK, KillReaches, SystemStates, CleanupOrder
<1> QED
  BY Zenon, <1>1, <1>2, <1>3, <1>4 DEF IInv

(* Dart_Cleanup. *)

(* What Dart_Cleanup does by itself leaves threads and lists alone. *)
LEMMA CleanupFrame ==
  ASSUME IInv, UNCHANGED <<threads, lists, accepts, ports>>, TypeOK',
         KillReaches', SystemStates', CleanupOrder'
  PROVE  IInv'
<1>1. ListsExact' /\ GroupsLive'
  BY DEF IInv, ListsExact, GroupsLive
<1>2. CountsExact'
  BY Zenon, SameMembers DEF IInv
<1>3. ParentsWait' /\ WorkersHavePool'
  BY Zenon DEF IInv, ParentsWait, WorkersHavePool
<1> QED
  BY Zenon, <1>1, <1>2, <1>3 DEF IInv

(* From here on no isolate becomes ready. *)
LEMMA DisableIsolateCreationStep ==
  ASSUME IInv, DisableIsolateCreation PROVE IInv'
<1>1. TypeOK'
  BY Zenon DEF IInv, DisableIsolateCreation, TypeOK
<1>2. KillReaches' /\ SystemStates' /\ CleanupOrder'
  BY Zenon DEF IInv, DisableIsolateCreation, TypeOK, KillReaches, SystemStates,
      CleanupOrder
<1> QED
  BY Zenon, <1>1, <1>2, CleanupFrame DEF DisableIsolateCreation

(* Every ready isolate of the application is in a group to be visited. *)
LEMMA KillAllIsolatesStep ==
  ASSUME IInv, KillAllIsolates PROVE IInv'
<1>1. TypeOK'
  BY Zenon DEF IInv, KillAllIsolates, TypeOK
<1>2. KillReaches' /\ SystemStates' /\ CleanupOrder'
  BY DEF IInv, KillAllIsolates, TypeOK, KillReaches, SystemStates,
      CleanupOrder, ListsExact, GroupsLive
<1> QED
  BY Zenon, <1>1, <1>2, CleanupFrame DEF KillAllIsolates

(* Every ready isolate of the group is in its list, and the first one gets *)
(* the kill message.                                                       *)
LEMMA ForEachIsolateStep ==
  ASSUME IInv, NEW i \in Isolate, ForEachIsolate(i) PROVE IInv'
<1>1. TypeOK'
  BY Zenon DEF IInv, ForEachIsolate, TypeOK, ListsExact, ToKill
<1>2. KillReaches' /\ SystemStates' /\ CleanupOrder'
  BY Zenon DEF IInv, ForEachIsolate, TypeOK, KillReaches, SystemStates,
      CleanupOrder, ListsExact, ToKill
<1> QED
  BY Zenon, <1>1, <1>2, CleanupFrame DEF ForEachIsolate

(* A ready isolate gets the kill message. *)
LEMMA VisitIsolateStep ==
  ASSUME IInv, NEW i \in Isolate, VisitIsolate(i) PROVE IInv'
<1>1. TypeOK'
  BY Zenon DEF IInv, VisitIsolate, TypeOK, ListsExact, ToKill
<1>2. KillReaches' /\ SystemStates' /\ CleanupOrder'
  BY Zenon
     DEF IInv, VisitIsolate, TypeOK, KillReaches, SystemStates, CleanupOrder,
      ToKill
<1> QED
  BY Zenon, <1>1, <1>2, CleanupFrame DEF VisitIsolate

(* Waits of Dart_Cleanup that change nothing else. *)
LEMMA WaitsOfCleanupStep ==
  ASSUME IInv,
         CheckSystemIsolates \/ WaitForApplicationIsolateShutdown
           \/ KernelStopped
  PROVE  IInv'
<1>1. TypeOK'
  BY Zenon DEF IInv, CheckSystemIsolates,
      WaitForApplicationIsolateShutdown, KernelStopped, TypeOK
<1>2. KillReaches' /\ SystemStates' /\ CleanupOrder'
  BY DEF IInv, CheckSystemIsolates,
      WaitForApplicationIsolateShutdown, KernelStopped, TypeOK, KillReaches,
      SystemStates, CleanupOrder
<1> QED
  BY Zenon, <1>1, <1>2, CleanupFrame
  DEF CheckSystemIsolates, WaitForApplicationIsolateShutdown, KernelStopped

(* The kernel isolate is told to stop once it has started. *)
LEMMA ShutdownKernelStep ==
  ASSUME IInv, ShutdownKernel PROVE IInv'
<1>1. TypeOK'
  BY DEF IInv, ShutdownKernel, TypeOK, ListsExact, ToKill
<1>2. KillReaches' /\ SystemStates' /\ CleanupOrder'
  BY DEF IInv, ShutdownKernel, TypeOK, KillReaches, SystemStates,
      CleanupOrder, ToKill
<1> QED
  BY Zenon, <1>1, <1>2, CleanupFrame DEF ShutdownKernel

(* The service isolate has started when its shutdown goes on. *)
LEMMA ShutdownServiceStep ==
  ASSUME IInv, ShutdownService PROVE IInv'
<1>1. TypeOK'
  BY Zenon DEF IInv, ShutdownService, TypeOK
<1>2. KillReaches' /\ SystemStates' /\ CleanupOrder'
  BY Zenon DEF IInv, ShutdownService, TypeOK, KillReaches, SystemStates,
      CleanupOrder
<1> QED
  BY Zenon, <1>1, <1>2, CleanupFrame DEF ShutdownService

(* The service isolate is marked as stopping. *)
LEMMA StopServiceStep ==
  ASSUME IInv, StopService PROVE IInv'
<1>1. TypeOK'
  BY Zenon DEF IInv, StopService, TypeOK
<1>2. KillReaches' /\ SystemStates' /\ CleanupOrder'
  BY Zenon
     DEF IInv, StopService, TypeOK, KillReaches, SystemStates, CleanupOrder
<1> QED
  BY Zenon, <1>1, <1>2, CleanupFrame DEF StopService

(* The service isolate gets a message if its port is open. *)
LEMMA TellServiceStep ==
  ASSUME IInv, TellService PROVE IInv'
<1>1. TypeOK'
  BY Zenon DEF IInv, TellService, TypeOK, ListsExact, ToKill
<1>2. KillReaches' /\ SystemStates' /\ CleanupOrder'
  BY Zenon
     DEF IInv, TellService, TypeOK, KillReaches, SystemStates, CleanupOrder,
      ToKill
<1> QED
  BY Zenon, <1>1, <1>2, CleanupFrame DEF TellService

(* The list of groups is empty. *)
LEMMA WaitForIsolateShutdownStep ==
  ASSUME IInv, WaitForIsolateShutdown PROVE IInv'
<1>1. TypeOK'
  BY Zenon DEF IInv, WaitForIsolateShutdown, TypeOK
<1>2. KillReaches' /\ SystemStates' /\ CleanupOrder'
  BY Zenon DEF IInv, WaitForIsolateShutdown, TypeOK, KillReaches, SystemStates,
      CleanupOrder
<1> QED
  BY Zenon, <1>1, <1>2, CleanupFrame DEF WaitForIsolateShutdown

(* The pool has no task left, and no group has a pool. *)
LEMMA DeleteThreadPoolStep ==
  ASSUME IInv, DeleteThreadPool PROVE IInv'
<1>1. TypeOK'
  BY Zenon DEF IInv, DeleteThreadPool, TypeOK
<1>2. KillReaches' /\ SystemStates' /\ CleanupOrder'
  BY DEF IInv, DeleteThreadPool, TypeOK, KillReaches, SystemStates,
      CleanupOrder, VMPoolIsIdle, VMPoolTasks, ListsExact, GroupsLive,
      WorkersHavePool
<1> QED
  BY Zenon, <1>1, <1>2, CleanupFrame DEF DeleteThreadPool

-----------------------------------------------------------------------------
(* Every step of the specification preserves the invariant. *)
LEMMA NextPreserves ==
  ASSUME IInv, [Next]_vars PROVE IInv'
<1>1. CASE UNCHANGED vars
  <2>1. TypeOK' /\ KillReaches' /\ SystemStates' /\ CleanupOrder'
    BY Zenon, <1>1
       DEF vars, IInv, TypeOK, KillReaches, SystemStates, CleanupOrder
  <2> QED
    BY Zenon, <1>1, <2>1, CleanupFrame DEF vars
<1>2. ASSUME NEW i \in Isolate, Create(i) PROVE IInv'
  BY Zenon, <1>2, RegisterIsolateGroupStep, CallbackFailsStep,
     RegisterIsolateStep, TryMarkIsolateReadyStep, InitializeFailsStep,
     DecrementSpawnCountStep, RunMainStep, FinishedInitializingStep
  DEF Create
<1>3. ASSUME NEW i \in Isolate, Request(i) \/ End(i) PROVE IInv'
  BY Zenon, <1>3, WaitForKernelPortStep, KernelAnswersStep,
     UnMarkIsolateReadyStep, LowLevelShutdownStep, UnregisterIsolateStep,
     DecrementCountStep, FinishedStep, ThreadReturnsStep DEF Request, End
<1>4. ASSUME NEW g \in Isolate, Shutdown(g) PROVE IInv'
  BY Zenon, <1>4, UnregisterIsolateGroupStep, DeleteGroupStep DEF Shutdown
<1>5. ASSUME CleanupSteps PROVE IInv'
  BY Zenon, <1>5, KillAllIsolatesStep, ForEachIsolateStep, VisitIsolateStep,
     WaitsOfCleanupStep, ShutdownKernelStep, ShutdownServiceStep,
     StopServiceStep, TellServiceStep, WaitForIsolateShutdownStep,
     DeleteThreadPoolStep
  DEF CleanupSteps
<1> QED
  BY Zenon, <1>1, <1>2, <1>3, <1>4, <1>5, EndCallbackStep, SpawnStep,
     StartKernelStep, DisableIsolateCreationStep DEF Next

-----------------------------------------------------------------------------
(* The inductive invariant, for any finite set of application isolates:    *)
(* lists, counters, groups, parents and pools agree with where the threads *)
(* of isolate.cc are.                                                      *)
THEOREM Invariant == Spec => []IInv
BY InitHolds, NextPreserves, PTL DEF Spec

(* Type correctness; the counters of isolates do not underflow, and a kill *)
(* message is only in the queue of an open port.                           *)
THEOREM TypeCorrect == Spec => []TypeOK
<1>1. IInv => TypeOK
  BY Zenon DEF IInv
<1> QED
  BY <1>1, Invariant, PTL

(* An isolate that accepts messages has its main port open: the assertion *)
(* of KillLocked holds.                                                    *)
THEOREM KillAlwaysPosted == Spec => []KillIsPosted
<1>1. IInv => KillIsPosted
  BY Zenon, InvariantImplies
<1> QED
  BY <1>1, Invariant, PTL

(* The single pass of Dart_Cleanup's KillAllIsolates misses no isolate of  *)
(* the application, however many are being spawned meanwhile.              *)
THEOREM KillReachesAll == Spec => []NoneEscapesTheKill
<1>1. IInv => NoneEscapesTheKill
  BY Zenon, InvariantImplies
<1> QED
  BY <1>1, Invariant, PTL

(* An isolate that has spawned others (IncrementSpawnCount) stays until    *)
(* the tasks of its spawns are done with it and with its group.            *)
THEOREM SpawnersWait == Spec => []SpawnerOutlivesTask
<1>1. IInv => SpawnerOutlivesTask
  BY Zenon, InvariantImplies
<1> QED
  BY <1>1, Invariant, PTL

(* A group is not destroyed while an isolate is in it or a worker of its   *)
(* pool has not returned (UnregisterIsolateDecrementCount, Shutdown).      *)
THEOREM GroupsEndLast == Spec => []GroupOutlivesIsolates
<1>1. IInv => GroupOutlivesIsolates
  BY Zenon, InvariantImplies
<1> QED
  BY <1>1, Invariant, PTL

(* Dart_Cleanup enters the VM isolate when no other isolate is left, and   *)
(* what it deletes after the thread pool is used by no thread.             *)
THEOREM CleanupIsLast == Spec => []NothingRunsAfterCleanup
<1>1. IInv => NothingRunsAfterCleanup
  BY Zenon, InvariantImplies
<1> QED
  BY <1>1, Invariant, PTL

=============================================================================
