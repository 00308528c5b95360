------------------------------ MODULE Lifecycle ------------------------------
(***************************************************************************)
(* How isolates and isolate groups come and go, and Dart_Cleanup, which    *)
(* ends them all (runtime/vm/isolate.cc, dart.cc, lib/isolate.cc,          *)
(* kernel_isolate.cc, service_isolate.cc).                                 *)
(*                                                                         *)
(* An isolate is created by a task on the VM's thread pool, then runs on   *)
(* the pool of its group (the kernel and the service isolate stay on the   *)
(* VM's pool), and is shut down by the thread that ran it last.  The last  *)
(* isolate of a group ends the group.  A group is named after the isolate  *)
(* it was created for.  Steps are critical sections: of                    *)
(* isolate_creation_monitor_, isolates_lock_, isolate_groups_rwlock_,      *)
(* spawn_count_monitor_ or the monitors of the two system isolates.  The   *)
(* waits of Dart_Cleanup for groups have a timeout and look again by       *)
(* themselves, so their notifications are left out.                        *)
(***************************************************************************)
EXTENDS Integers, FiniteSets

CONSTANTS
  App,             \* isolates of the application
  Main,            \* the one that runs at the start
  Kernel, Service, \* the system isolates
  None,
  Source,          \* isolates of the application that use the compiler
  MayFail          \* system isolates that may end by an error

Isolate == App \cup {Kernel, Service}
System == {Kernel, Service}

ASSUME LifecycleAssumption ==
  /\ IsFiniteSet(App) /\ Main \in App
  /\ Kernel # Service /\ System \cap App = {} /\ None \notin Isolate
  /\ Source \subseteq App /\ MayFail \subseteq System

VARIABLES
  pc,         \* where the thread of each isolate is
  onGroupPool,\* isolates whose thread is a worker of their group's pool
  parent,     \* parent_isolate_ of the task that creates the isolate
  group,
  request,    \* how far the thread is with a request to the kernel isolate
  accepts,    \* accepts_messages_
  ports,      \* isolates whose main port is open
  killed,     \* isolates with the kill or exit message in their queue
  isolates,   \* isolates_ of all groups
  isolate_count,
  groups,     \* isolate_groups_
  shutdown,   \* progress of IsolateGroup::Shutdown
  creation_enabled,
  cleanup,    \* where Dart_Cleanup is
  toVisit, visiting, \* groups and isolates that KillAllIsolates has to visit
  state,      \* state_ of the system isolates
  isolate,    \* system isolates that isolate_ points to
  load        \* system isolates whose kernel_port_ or port_ is set

threads == <<pc, onGroupPool, parent, group, request>>
lists == <<isolates, isolate_count, groups, shutdown>>
messages == <<accepts, ports, killed>>
killer == <<cleanup, toVisit, visiting, creation_enabled>>
system == <<state, isolate, load>>
vars == <<threads, lists, messages, killer, system>>

Steps == {"none", "queued", "grouped", "listed", "ready", "created",
          "running", "ending", "unready", "closed", "unlisted", "inline",
          "done", "gone"}
Phases == {"up", "disabled", "kill", "noService", "apps", "kernel",
           "kernelWait", "early", "earlyWait", "service", "serviceCheck",
           "serviceStop", "serviceExit", "serviceKill", "serviceKillSend",
           "serviceWait", "all", "pool", "down"}

TypeOK ==
  /\ pc \in [Isolate -> Steps]
  /\ onGroupPool \subseteq App
  /\ parent \in [Isolate -> App \cup {None}]
  /\ group \in [Isolate -> Isolate \cup {None}]
  /\ request \in [Isolate -> {"none", "port", "answer", "done"}]
  /\ accepts \subseteq Isolate /\ ports \subseteq Isolate
  /\ killed \subseteq ports
  /\ isolates \subseteq Isolate /\ groups \subseteq Isolate
  /\ isolate_count \in [Isolate -> 0..Cardinality(Isolate)]
  /\ shutdown \in [Isolate -> {"none", "live", "requested", "unregistered",
                               "deleted"}]
  /\ creation_enabled \in BOOLEAN /\ cleanup \in Phases
  /\ toVisit \subseteq Isolate /\ visiting \subseteq Isolate
  /\ state \in [System -> {"notStarted", "starting", "started", "stopping",
                           "stopped"}]
  /\ isolate \subseteq System /\ load \subseteq System

\* Dart_Initialize has started the service isolate, and the embedder its
\* first isolate.
Init ==
  /\ pc = [i \in Isolate |-> IF i = Main THEN "running"
                             ELSE IF i = Service THEN "queued" ELSE "none"]
  /\ onGroupPool = {Main}
  /\ parent = [i \in Isolate |-> None]
  /\ group = [i \in Isolate |-> IF i = Main THEN Main
                                ELSE IF i \in System THEN i ELSE None]
  /\ request = [i \in Isolate |-> "none"]
  /\ accepts = {Main} /\ ports = {Main} /\ killed = {}
  /\ isolates = {Main} /\ groups = {Main}
  /\ isolate_count = [g \in Isolate |-> IF g = Main THEN 1 ELSE 0]
  /\ shutdown = [g \in Isolate |-> IF g = Main THEN "live" ELSE "none"]
  /\ creation_enabled = TRUE
  /\ cleanup = "up" /\ toVisit = {} /\ visiting = {}
  /\ state = [s \in System |-> IF s = Service THEN "starting"
                               ELSE "notStarted"]
  /\ isolate = {} /\ load = {}

Goto(i, step) == pc' = [pc EXCEPT ![i] = step]

\* A thread with a request under way takes no other step.
At(i, step) == pc[i] = step /\ request[i] \in {"none", "done"}
Leave(i, step) == Goto(i, step) /\ request' = [request EXCEPT ![i] = "none"]

IsRunning(s) == s \in load /\ s \in isolate

\* isolate_groups_rwlock_ and isolates_lock_ are held by the visitor.
GroupsLocked == cleanup = "kill"
IsolatesLocked(g) == \E i \in visiting : group[i] = g

-----------------------------------------------------------------------------
(* Creation.                                                               *)

\* Isolate.spawn and spawnUri: IncrementSpawnCount, and a task on the VM's
\* pool.  The child joins the group of its parent or gets one of its own.
Spawn(p, i) ==
  /\ At(p, "running") /\ p \in App /\ i \in App /\ pc[i] = "none"
  /\ parent' = [parent EXCEPT ![i] = p]
  /\ \E g \in {group[p], i} : group' = [group EXCEPT ![i] = g]
  /\ Goto(i, "queued")
  /\ UNCHANGED <<onGroupPool, request, lists, messages, killer, system>>

\* Who asks the kernel isolate: an isolate that evaluates an expression or
\* reloads its sources (a service request behind the kill message is never
\* handled), and the callback that creates a group from source, once to detect
\* null safety, before it creates the isolate, and once to compile the script.
MayAsk(p) ==
  /\ p \in Source /\ request[p] = "none"
  /\ \/ pc[p] = "running" /\ p \notin killed
     \/ pc[p] \in {"queued", "ready"} /\ parent[p] # None /\ group[p] = p

\* KernelIsolate::Start, called by CompileExpression, CompileToKernel and
\* DetectNullSafety.
StartKernel(p) ==
  /\ MayAsk(p)
  /\ request' = [request EXCEPT ![p] = "port"]
  /\ IF state[Kernel] = "notStarted"
     THEN /\ state' = [state EXCEPT ![Kernel] = "starting"]
          /\ Goto(Kernel, "queued")
     ELSE UNCHANGED <<pc, state>>
  /\ UNCHANGED <<onGroupPool, parent, group, lists, messages, killer, isolate,
                 load>>

Answered(p) ==
  request' = [request EXCEPT ![p] = IF pc[p] = "running" THEN "none"
                                    ELSE "done"]

\* WaitForKernelPort.  The request is posted, and whether a port took it is
\* not looked at.  A script that cannot be compiled ends its isolate
\* (IsolateSetupHelper); null safety is then off, and other requests fail.
WaitForKernelPort(p) ==
  /\ request[p] = "port"
  /\ state[Kernel] # "starting" \/ Kernel \in load
  /\ IF Kernel \in load
     THEN request' = [request EXCEPT ![p] = "answer"] /\ UNCHANGED pc
     ELSE IF pc[p] = "ready" THEN Leave(p, "ending")
     ELSE Answered(p) /\ UNCHANGED pc
  /\ UNCHANGED <<onGroupPool, parent, group, lists, messages, killer, system>>

\* SendAndWaitForResponse returns when the kernel isolate has answered.
KernelAnswers(p) ==
  /\ request[p] = "answer" /\ pc[Kernel] = "running"
  /\ Answered(p)
  /\ UNCHANGED <<pc, onGroupPool, parent, group, lists, messages, killer,
                 system>>

\* Dart_CreateIsolateGroup, up to CreateIsolate.
RegisterIsolateGroup(i) ==
  /\ At(i, "queued") /\ group[i] = i
  /\ ~GroupsLocked
  /\ groups' = groups \cup {i}
  /\ shutdown' = [shutdown EXCEPT ![i] = "live"]
  /\ Leave(i, "grouped")
  /\ UNCHANGED <<onGroupPool, parent, group, isolates, isolate_count, messages,
                 killer, system>>

\* The embedder's callback fails before it creates anything.
CallbackFails(i) ==
  /\ At(i, "queued")
  /\ Leave(i, "done")
  /\ UNCHANGED <<onGroupPool, parent, group, lists, messages, killer, system>>

\* InitIsolate: the main port, RegisterIsolate, SetKernelIsolate.
RegisterIsolate(i) ==
  LET g == group[i] IN
  /\ \/ pc[i] = "grouped"
     \/ At(i, "queued") /\ g # i
  /\ ~IsolatesLocked(g)
  /\ ports' = ports \cup {i}
  /\ isolates' = isolates \cup {i}
  /\ isolate_count' = [isolate_count EXCEPT ![g] = @ + 1]
  /\ isolate' = isolate \cup ({i} \cap System)
  /\ Goto(i, "listed")
  /\ UNCHANGED <<onGroupPool, parent, group, request, groups, shutdown, accepts,
                 killed, killer, state, load>>

\* Wrong variant: creation is tested when it is requested, not here.
MayBecomeReady_Always == TRUE

MayBecomeReady == creation_enabled

\* TryMarkIsolateReady; on failure InitIsolate goes on to LowLevelShutdown.
TryMarkIsolateReady(i) ==
  /\ pc[i] = "listed"
  /\ IF MayBecomeReady
     THEN accepts' = accepts \cup {i} /\ Goto(i, "ready")
     ELSE Goto(i, "unready") /\ UNCHANGED accepts
  /\ UNCHANGED <<onGroupPool, parent, group, request, lists, ports, killed,
                 killer, system>>

\* InitializeIsolate reports an error, or the rest of the embedder's callback
\* does: the isolate is shut down.
InitializeFails(i) ==
  /\ At(i, "ready")
  /\ Leave(i, "ending")
  /\ UNCHANGED <<onGroupPool, parent, group, lists, messages, killer, system>>

\* The callback of a spawn returned: DecrementSpawnCount.  Then SpawnIsolateTask
\* calls Dart_RunLoopAsync, or Dart_ShutdownIsolate when the child cannot be
\* made runnable or its entry point is not found.
DecrementSpawnCount(i) ==
  /\ parent[i] # None
  /\ parent' = [parent EXCEPT ![i] = None]
  /\ \/ At(i, "ready") /\ Leave(i, "running")
        /\ onGroupPool' = onGroupPool \cup {i}
     \/ At(i, "ready") /\ Leave(i, "ending") /\ UNCHANGED onGroupPool
     \/ pc[i] = "done" /\ Leave(i, "gone") /\ UNCHANGED onGroupPool
  /\ UNCHANGED <<group, lists, messages, killer, system>>

\* RunMain of a system isolate sets the port, unless the embedder gave it no
\* script or main() failed.
RunMain(s) ==
  /\ pc[s] = "ready" /\ s \in System
  /\ \E loaded \in SUBSET {s} : load' = load \cup loaded
  /\ Goto(s, "created")
  /\ UNCHANGED <<onGroupPool, parent, group, request, lists, messages, killer,
                 state, isolate>>

\* FinishedInitializing, and MessageHandler::Run on the VM's pool.
FinishedInitializing(s) ==
  /\ pc[s] = "created" /\ s \in System
  /\ state' = [state EXCEPT ![s] = "started"]
  /\ Goto(s, "running")
  /\ UNCHANGED <<onGroupPool, parent, group, request, lists, messages, killer,
                 isolate, load>>

-----------------------------------------------------------------------------
(* The end of an isolate.                                                  *)

\* The message handler ends: it took the kill or exit message, or has no
\* live port (like a system isolate without a script), or an error.  The
\* kernel isolate's end callback first resets the load port.
EndCallback(i) ==
  /\ At(i, "running")
  /\ \/ i \in App \cup killed \cup (System \ load)
     \/ i \in MayFail
  /\ load' = load \ ({i} \cap {Kernel})
  /\ Goto(i, "ending")
  /\ UNCHANGED <<onGroupPool, parent, group, request, lists, messages, killer,
                 state, isolate>>

\* Wrong variant: outstanding spawns are not waited for.
NoOutstandingSpawns_Always(i) == TRUE

NoOutstandingSpawns(i) == \A j \in Isolate : parent[j] # i

\* Dart_ShutdownIsolate: WaitForOutstandingSpawns, UnMarkIsolateReady.
UnMarkIsolateReady(i) ==
  /\ pc[i] = "ending"
  /\ NoOutstandingSpawns(i)
  /\ accepts' = accepts \ {i}
  /\ Goto(i, "unready")
  /\ UNCHANGED <<onGroupPool, parent, group, request, lists, ports, killed,
                 killer, system>>

\* LowLevelShutdown: the ports are closed and the queue is deleted.
LowLevelShutdown(i) ==
  /\ pc[i] = "unready"
  /\ ports' = ports \ {i}
  /\ killed' = killed \ {i}
  /\ Goto(i, "closed")
  /\ UNCHANGED <<onGroupPool, parent, group, request, lists, accepts, killer,
                 system>>

\* LowLevelCleanup, up to the deletion of the isolate.
UnregisterIsolate(i) ==
  /\ pc[i] = "closed"
  /\ ~IsolatesLocked(group[i])
  /\ isolate' = isolate \ {i}
  /\ isolates' = isolates \ {i}
  /\ Goto(i, "unlisted")
  /\ UNCHANGED <<onGroupPool, parent, group, request, isolate_count, groups,
                 shutdown, messages, killer, state, load>>

\* Wrong variant: the isolate is taken for the last when the list is empty.
LastOfGroup_Listed(i) ==
  {j \in isolates : group[j] = group[i]} = {}

LastOfGroup(i) == isolate_count[group[i]] = 1

\* A worker of the group's pool cannot wait for itself: it leaves the group
\* to a ShutdownGroupTask on the VM's pool.  Other threads shut it down.
UnregisterIsolateDecrementCount(i) ==
  /\ pc[i] = "unlisted"
  /\ ~IsolatesLocked(group[i])
  /\ isolate_count' = [isolate_count EXCEPT ![group[i]] = @ - 1]
  /\ IF LastOfGroup(i)
     THEN /\ shutdown' = [shutdown EXCEPT ![group[i]] = "requested"]
          /\ Goto(i, IF i \in onGroupPool THEN "done" ELSE "inline")
     ELSE Goto(i, "done") /\ UNCHANGED shutdown
  /\ UNCHANGED <<onGroupPool, parent, group, request, isolates, groups,
                 messages, killer, system>>

\* FinishedExiting and InitializingFailed of the system isolates.
Finished(s) ==
  /\ pc[s] = "done" /\ s \in System
  /\ state' = [state EXCEPT ![s] = "stopped"]
  /\ Goto(s, "gone")
  /\ UNCHANGED <<onGroupPool, parent, group, request, lists, messages, killer,
                 isolate, load>>

ThreadReturns(i) ==
  /\ pc[i] = "done" /\ i \in App /\ parent[i] = None
  /\ Goto(i, "gone")
  /\ onGroupPool' = onGroupPool \ {i}
  /\ UNCHANGED <<parent, group, request, lists, messages, killer, system>>

-----------------------------------------------------------------------------
(* IsolateGroup::Shutdown.                                                 *)

PoolWorkers(g) ==
  {i \in onGroupPool : group[i] = g /\ pc[i] \notin {"none", "gone"}}

\* thread_pool_->Shutdown(), the wait for the collector's tasks, and
\* UnregisterIsolateGroup.
UnregisterIsolateGroup(g) ==
  /\ shutdown[g] = "requested"
  /\ PoolWorkers(g) = {}
  /\ ~GroupsLocked
  /\ groups' = groups \ {g}
  /\ shutdown' = [shutdown EXCEPT ![g] = "unregistered"]
  /\ UNCHANGED <<threads, isolates, isolate_count, messages, killer, system>>

\* The group is deleted, and whoever has called Shutdown goes on.
DeleteGroup(g) ==
  /\ shutdown[g] = "unregistered"
  /\ shutdown' = [shutdown EXCEPT ![g] = "deleted"]
  /\ pc' = [i \in Isolate |-> IF pc[i] = "inline" /\ group[i] = g THEN "done"
                             ELSE pc[i]]
  /\ UNCHANGED <<onGroupPool, parent, group, request, isolates, isolate_count,
                 groups, messages, killer, system>>

-----------------------------------------------------------------------------
(* Dart_Cleanup.                                                           *)

Then(phase) == cleanup' = phase

DisableIsolateCreation ==
  /\ cleanup = "up" /\ Then("disabled")
  /\ creation_enabled' = FALSE
  /\ UNCHANGED <<threads, lists, messages, toVisit, visiting, system>>

\* The visits to system isolates do nothing and are left out.
KillAllIsolates ==
  /\ cleanup = "disabled" /\ Then("kill")
  /\ toVisit' = groups \cap App
  /\ UNCHANGED <<threads, lists, messages, visiting, creation_enabled, system>>

\* IsolateKillerVisitor: a target, or all isolates of the application.
ToKill(targets) == IF targets = {} THEN accepts \cap App
                   ELSE accepts \cap targets

\* The lock of the group is taken for the visits to its isolates.
ForEachIsolate(g) ==
  LET members == {i \in isolates : group[i] = g} IN
  /\ cleanup = "kill" /\ visiting = {} /\ g \in toVisit
  /\ toVisit' = toVisit \ {g}
  /\ \/ members = {} /\ UNCHANGED <<visiting, killed>>
     \/ \E i \in members : /\ visiting' = members \ {i}
                           /\ killed' = killed \cup (ToKill({}) \cap {i})
  /\ UNCHANGED <<threads, lists, accepts, ports, cleanup, creation_enabled,
                 system>>

VisitIsolate(i) ==
  /\ cleanup = "kill" /\ i \in visiting
  /\ visiting' = visiting \ {i}
  /\ killed' = killed \cup (ToKill({}) \cap {i})
  /\ UNCHANGED <<threads, lists, accepts, ports, cleanup, toVisit,
                 creation_enabled, system>>

\* The locks are released when all have been visited.  Each IsRunning takes
\* its monitor for itself.
CheckSystemIsolates ==
  /\ \/ /\ cleanup = "kill" /\ visiting = {} /\ toVisit = {}
        /\ Then(IF IsRunning(Service) THEN "apps" ELSE "noService")
     \/ /\ cleanup = "noService"
        /\ Then(IF IsRunning(Kernel) THEN "apps" ELSE "early")
  /\ UNCHANGED <<threads, lists, messages, toVisit, visiting,
                 creation_enabled, system>>

\* Wrong variant: the kernel isolate is stopped without waiting.
ApplicationIsGone_Always == TRUE

ApplicationIsGone == groups \cap App = {}

WaitForApplicationIsolateShutdown ==
  /\ cleanup = "apps" /\ ApplicationIsGone
  /\ Then("kernel")
  /\ UNCHANGED <<threads, lists, messages, toVisit, visiting,
                 creation_enabled, system>>

\* KernelIsolate::Shutdown holds its monitor until it waits.
ShutdownKernel ==
  /\ cleanup \in {"kernel", "early"} /\ state[Kernel] # "starting"
  /\ IF state[Kernel] \in {"stopped", "notStarted"}
     THEN Then("service") /\ UNCHANGED <<state, killed>>
     ELSE /\ Then(IF cleanup = "kernel" THEN "kernelWait" ELSE "earlyWait")
          /\ state' = [state EXCEPT ![Kernel] = "stopping"]
          /\ killed' = killed \cup ToKill(isolate \cap {Kernel})
  /\ UNCHANGED <<threads, lists, accepts, ports, toVisit, visiting,
                 creation_enabled, isolate, load>>

KernelStopped ==
  /\ cleanup \in {"kernelWait", "earlyWait"} /\ state[Kernel] = "stopped"
  /\ Then("service")
  /\ UNCHANGED <<threads, lists, messages, toVisit, visiting,
                 creation_enabled, system>>

\* ServiceIsolate::Shutdown takes its monitor anew for each of these steps.
ShutdownService ==
  /\ \/ /\ cleanup = "service" /\ state[Service] # "starting"
        /\ Then("serviceCheck")
     \/ /\ cleanup = "serviceCheck"
        /\ Then(IF IsRunning(Service) THEN "serviceStop"
                ELSE IF Service \in isolate THEN "serviceKill" ELSE "all")
     \/ /\ cleanup = "serviceKill" /\ state[Service] = "stopped"
        /\ Then("all")
     \/ /\ cleanup = "serviceWait" /\ state[Service] # "stopping"
        /\ Then("all")
  /\ UNCHANGED <<threads, lists, messages, toVisit, visiting,
                 creation_enabled, system>>

StopService ==
  /\ \/ cleanup = "serviceStop" /\ Then("serviceExit")
     \/ /\ cleanup = "serviceKill" /\ state[Service] # "stopped"
        /\ Then("serviceKillSend")
  /\ state' = [state EXCEPT ![Service] = "stopping"]
  /\ UNCHANGED <<threads, lists, messages, toVisit, visiting,
                 creation_enabled, isolate, load>>

\* SendServiceExitMessage to the service port, or KillIfExists.
TellService ==
  /\ \/ /\ cleanup = "serviceExit"
        /\ killed' = IF IsRunning(Service) THEN killed \cup (ports \cap {Service})
                     ELSE killed
     \/ /\ cleanup = "serviceKillSend"
        /\ killed' = killed \cup ToKill(isolate \cap {Service})
  /\ Then("serviceWait")
  /\ UNCHANGED <<threads, lists, accepts, ports, toVisit, visiting,
                 creation_enabled, system>>

WaitForIsolateShutdown ==
  /\ cleanup = "all" /\ groups = {}
  /\ Then("pool")
  /\ UNCHANGED <<threads, lists, messages, toVisit, visiting,
                 creation_enabled, system>>

VMPoolTasks ==
  {i \in Isolate \ onGroupPool : pc[i] \notin {"none", "gone"}}
    \cup {g \in Isolate : shutdown[g] \in {"requested", "unregistered"}}

\* Wrong variant: the VM's pool is deleted without waiting for its tasks.
VMPoolIsIdle_Always == TRUE

VMPoolIsIdle == VMPoolTasks = {}

\* thread_pool_->Shutdown(), then the VM isolate and the tables go.
DeleteThreadPool ==
  /\ cleanup = "pool" /\ VMPoolIsIdle
  /\ Then("down")
  /\ UNCHANGED <<threads, lists, messages, toVisit, visiting,
                 creation_enabled, system>>

-----------------------------------------------------------------------------
Create(i) ==
  /\ pc[i] \in {"queued", "grouped", "listed", "ready", "created", "done"}
  /\ \/ RegisterIsolateGroup(i) \/ CallbackFails(i) \/ RegisterIsolate(i)
     \/ TryMarkIsolateReady(i) \/ InitializeFails(i) \/ DecrementSpawnCount(i)
     \/ RunMain(i) \/ FinishedInitializing(i)

Request(i) ==
  /\ request[i] \in {"port", "answer"}
  /\ WaitForKernelPort(i) \/ KernelAnswers(i)

End(i) ==
  /\ pc[i] \in {"ending", "unready", "closed", "unlisted", "done"}
  /\ \/ UnMarkIsolateReady(i) \/ LowLevelShutdown(i) \/ UnregisterIsolate(i)
     \/ UnregisterIsolateDecrementCount(i) \/ Finished(i) \/ ThreadReturns(i)

Shutdown(g) == UnregisterIsolateGroup(g) \/ DeleteGroup(g)

CleanupSteps ==
  \/ KillAllIsolates \/ (\E g \in Isolate : ForEachIsolate(g))
  \/ (\E i \in Isolate : VisitIsolate(i)) \/ CheckSystemIsolates
  \/ WaitForApplicationIsolateShutdown \/ ShutdownKernel \/ KernelStopped
  \/ ShutdownService \/ StopService \/ TellService \/ WaitForIsolateShutdown
  \/ DeleteThreadPool

Next ==
  \/ \E i \in Isolate : Create(i) \/ Request(i) \/ EndCallback(i) \/ End(i)
                        \/ Shutdown(i)
  \/ \E p, i \in App : Spawn(p, i)
  \/ \E p \in App : StartKernel(p)
  \/ DisableIsolateCreation \/ CleanupSteps

Spec == Init /\ [][Next]_vars

\* Steps that nobody can put off forever: also an isolate gets to the message
\* that ends it.
Progress ==
  \/ \E i \in Isolate : \/ Create(i) \/ End(i) \/ Shutdown(i)
                        \/ i \in killed /\ EndCallback(i)
  \/ CleanupSteps

\* As long as some thread can go on, one does; and as long as some request
\* can, one does.
Fairness == WF_vars(Progress) /\ WF_vars(\E i \in Isolate : Request(i))

FairSpec == Spec /\ Fairness

-----------------------------------------------------------------------------
\* KillLocked's ASSERT(success): an isolate that accepts messages has its
\* main port open, so the kill message of Dart_Cleanup or of the kernel
\* isolate's shutdown can always be posted.
KillIsPosted == accepts \subseteq ports

\* Dart_Cleanup's single pass over the isolates misses none: after it, every
\* isolate of the application that became ready has the kill message or is
\* already on its way out, also one that was created during the pass.
NoneEscapesTheKill ==
  cleanup \notin {"up", "disabled", "kill"} =>
    accepts \cap App \subseteq killed

\* A task that creates an isolate uses its parent (parent_isolate_) and the
\* parent's group until DecrementSpawnCount; both are alive until then.
SpawnerOutlivesTask ==
  \A i \in Isolate : parent[i] # None =>
    /\ pc[parent[i]] \in {"running", "ending"}
    /\ shutdown[group[parent[i]]] = "live"

\* A group is shut down once, by its last isolate: while an isolate is in
\* it, or a worker of its pool has not returned, the group is not destroyed.
GroupOutlivesIsolates ==
  \A i \in Isolate :
    /\ pc[i] \notin {"none", "queued", "inline", "done", "gone"}
         => shutdown[group[i]] = "live"
    /\ i \in onGroupPool /\ pc[i] # "gone"
         => shutdown[group[i]] \in {"live", "requested"}

\* The VM isolate is entered by Dart_Cleanup only when no other isolate is
\* left or being created (the comment "We *must* wait for all other isolate
\* to shutdown before entering VM isolate", and ASSERT(OnlyVmIsolateLeft())).
VMIsolateIsAlone ==
  cleanup \in {"pool", "down"} =>
    /\ isolates = {}
    /\ \A i \in Isolate : pc[i] \notin {"queued", "grouped", "listed", "ready"}

\* What Dart_Cleanup uses alone or destroys is used by nobody else: the VM
\* isolate when it enters it, and after the pool has been deleted the VM
\* isolate, the port map and the list of groups.
NothingRunsAfterCleanup ==
  /\ VMIsolateIsAlone
  /\ cleanup = "down" => /\ \A i \in Isolate : pc[i] \in {"none", "gone"}
                         /\ \A g \in Isolate : shutdown[g] \in {"none",
                                                               "deleted"}

\* A thread waits for an answer of the kernel isolate, which has ended: by
\* itself, or stopped by Dart_Cleanup, which did not wait for the application
\* because neither system isolate was running yet.
AnswerLost ==
  /\ cleanup \in {"disabled", "kill", "noService", "apps", "early",
                  "earlyWait"}
  /\ \E i \in App : request[i] = "answer"
  /\ pc[Kernel] \in {"ending", "unready", "closed", "unlisted", "inline",
                     "done", "gone"}

\* Dart_Cleanup waits for a service isolate that had ended by itself when it
\* was told to stop.
StopLost ==
  /\ cleanup = "serviceWait" /\ state[Service] = "stopping"
  /\ pc[Service] = "gone"

\* Dart_Cleanup returns, whatever was being created, spawned, compiled, shut
\* down or started when it was called, but in two cases: a request to the
\* kernel isolate got lost, which cannot happen any more once Dart_Cleanup has
\* waited for the application; or the service isolate ended by itself between
\* the steps of ServiceIsolate::Shutdown.
CleanupReturns ==
  cleanup = "disabled" ~> cleanup = "down" \/ AnswerLost \/ StopLost

=============================================================================
