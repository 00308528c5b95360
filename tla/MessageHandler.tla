---------------------------- MODULE MessageHandler ----------------------------
(***************************************************************************)
(* One MessageHandler (runtime/vm/message_handler.cc), its two queues      *)
(* (message.cc) and the operations of PortMap (port.cc) on it.             *)
(*                                                                         *)
(* A handler is run in one of three ways, its kind:                        *)
(*   "native"    Dart_NewNativePort: tasks of the VM's pool, deleted when  *)
(*               its port is closed;                                       *)
(*   "pool"      Isolate::Run: tasks of the group's pool, the end callback *)
(*               shuts the isolate down;                                   *)
(*   "embedder"  the embedder calls Dart_HandleMessage once for every call *)
(*               of its message notify callback.                           *)
(*                                                                         *)
(* A step is a stretch of code with monitor_ held, or without it.  The     *)
(* steps of the thread that handles messages are found in task (where      *)
(* TaskCallback is) and frames (the calls of HandleMessages, which nest).  *)
(***************************************************************************)
EXTENDS Integers, Sequences, FiniteSets

CONSTANTS
  Kinds,          \* the kinds of handlers that are looked at
  Events,         \* messages of normal priority for a port
  OOBs,           \* out-of-band messages
  Controls,       \* delayed isolate library messages, for kIllegalPort
  Port,           \* the ports the handler may own
  MainPort,       \* the one it is created with
  PauseKinds,     \* those that receive Isolate.pause messages
  WaitInOOB,      \* whether an out-of-band message may run Dart_WaitForEvent
  MaxDepth,       \* bound: nested calls of HandleMessages
  Free            \* no message is being posted

Message == Events \cup OOBs \cup Controls

ASSUME HandlerAssumption ==
  /\ Kinds \subseteq {"native", "pool", "embedder"}
  /\ MainPort \in Port /\ IsFiniteSet(Port)
  /\ Free \notin Message
  /\ Events \cap OOBs = {} /\ Controls \cap (Events \cup OOBs) = {}
  /\ PauseKinds \subseteq Kinds \ {"native"}
  /\ WaitInOOB \in BOOLEAN
  /\ MaxDepth \in Nat \ {0}

VARIABLES
  mutex,         \* PortMap::mutex_, held from Enqueue to MessageNotify
  port_state,    \* the state of each port in PortMap::ports_
  queue,         \* queue_
  oob_queue,     \* oob_queue_
  h,             \* the other fields of the handler, and its kind
  launched,      \* tasks of this handler that the pool has not started
  task,          \* where TaskCallback and the end callback are
  frames,        \* the calls of HandleMessages, the innermost last
  closer,        \* where Dart_CloseNativePort is
  notifications, \* calls of the notify callback not yet answered
  deleted,       \* how often the handler was deleted
  posted,        \* history: the events and out-of-band messages accepted, in order
  sent,          \* history: the messages sent
  taken,         \* history: the messages dequeued, in order
  failed         \* history: TaskCallback has seen an error

history == <<posted, sent, taken, failed>>
vars == <<mutex, port_state, queue, oob_queue, h, launched, task, frames,
          closer, notifications, deleted, history>>

Live == {p \in Port : port_state[p] = "live"}
Kind == h.kind

\* A native port receives events only.
Receives(m) == m \in Events \/ (m \in OOBs /\ Kind # "native")

Status == {"kOK", "kError", "kShutdown"}
Open == {"new", "live", "inactive"}
Sites == {"PausedOnStart", "PausedOnExit", "Main", "Exiting", "OOB", "Wait",
          "WaitDone", "Next"}

Frame == [site : Sites, allow : BOOLEAN, multiple : BOOLEAN, status : Status,
          phase : {"enter", "handling", "waiting", "notified"},
          message : Message \cup {Free}, unwinds : Status]

TypeOK ==
  /\ mutex \in Message \cup {Free}
  /\ port_state \in [Port -> Open \cup {"none", "closed"}]
  /\ queue \in Seq(Events \cup Controls)
  /\ oob_queue \in Seq(OOBs)
  /\ h \in [kind : Kinds, live_ports : Nat, paused : Nat,
            should_pause_on_start : BOOLEAN, should_pause_on_exit : BOOLEAN,
            is_paused_on_start : BOOLEAN, is_paused_on_exit : BOOLEAN,
            paused_for_messages : BOOLEAN, task_running : BOOLEAN,
            delete_me : BOOLEAN, pool : BOOLEAN]
  /\ launched \in Nat
  /\ task \in {"new", "none", "NotifyPauseOnStart", "HandleMessages",
               "NotifyPauseOnExit", "EndCallback", "CloseAllPorts", "Delete"}
  /\ frames \in Seq(Frame)
  /\ closer \in {"none", "ClosePort", "RequestDeletion", "Delete"}
  /\ notifications \in Nat
  /\ deleted \in Nat
  /\ posted \in Seq(Events \cup OOBs)
  /\ sent \in SUBSET Message
  /\ taken \in Seq(Message)
  /\ failed \in BOOLEAN

-----------------------------------------------------------------------------
(* The start.  A native handler is run before its port is known to anyone; *)
(* an isolate has its main port, which never becomes live, and perhaps     *)
(* others before Run.                                                      *)

Init ==
  /\ mutex = Free
  /\ queue = <<>>
  /\ oob_queue = <<>>
  /\ \E kind \in Kinds, on_start, on_exit \in BOOLEAN,
        used \in SUBSET (Port \ {MainPort}) :
       /\ kind # "pool" => ~ on_start /\ ~ on_exit
       /\ kind = "native" => used = {}
       /\ port_state = [p \in Port |->
            IF p \in used \/ (p = MainPort /\ kind = "native") THEN "live"
            ELSE IF p = MainPort THEN "new" ELSE "none"]
       /\ h = [kind |-> kind, live_ports |-> Cardinality(Live), paused |-> 0,
               should_pause_on_start |-> on_start,
               should_pause_on_exit |-> on_exit,
               is_paused_on_start |-> FALSE, is_paused_on_exit |-> FALSE,
               paused_for_messages |-> FALSE, task_running |-> kind = "native",
               delete_me |-> FALSE, pool |-> kind = "native"]
       /\ launched = IF kind = "native" THEN 1 ELSE 0
       /\ task = IF kind = "pool" THEN "new" ELSE "none"
  /\ frames = <<>>
  /\ closer = "none"
  /\ notifications = 0
  /\ deleted = 0
  /\ posted = <<>>
  /\ sent = {}
  /\ taken = <<>>
  /\ failed = FALSE

\* MessageHandler::Run, called by Isolate::Run.
Run ==
  /\ task = "new"
  /\ h' = [h EXCEPT !.pool = TRUE, !.task_running = TRUE]
  /\ launched' = launched + 1
  /\ task' = "none"
  /\ UNCHANGED <<mutex, port_state, queue, oob_queue, frames, closer,
                 notifications, deleted, history>>

-----------------------------------------------------------------------------
(* Posting.                                                                *)

Top == frames[Len(frames)]
Below == SubSeq(frames, 1, Len(frames) - 1)

\* MessageQueue::Enqueue: before_events puts m behind the leading control
\* messages, in front of the first event.
Enqueue(q, m, before_events) ==
  LET events == {i \in 1 .. Len(q) : q[i] \notin Controls}
      first == CHOOSE i \in events : \A j \in events : i <= j
  IN IF ~ before_events \/ events = {}
     THEN Append(q, m)
     ELSE SubSeq(q, 1, first - 1) \o <<m>> \o SubSeq(q, first, Len(q))

\* ml.Notify() for the thread in PauseAndHandleAllMessages.
NotifyWaiter ==
  frames' = [i \in DOMAIN frames |->
               IF frames[i].phase = "waiting" /\ h.paused_for_messages
               THEN [frames[i] EXCEPT !.phase = "notified"] ELSE frames[i]]

\* Wrong variant: a task is started whether or not one is running.
LaunchTask_Always ==
  /\ h' = IF h.pool THEN [h EXCEPT !.task_running = TRUE] ELSE h
  /\ launched' = IF h.pool THEN launched + 1 ELSE launched

\* Wrong variant: only a message for an empty queue starts a task.
LaunchTask_FirstOnly ==
  IF h.pool /\ ~ h.task_running /\ queue = <<>>
  THEN /\ h' = [h EXCEPT !.task_running = TRUE]
       /\ launched' = launched + 1
  ELSE UNCHANGED <<h, launched>>

LaunchTask ==
  IF h.pool /\ ~ h.task_running
  THEN /\ h' = [h EXCEPT !.task_running = TRUE]
       /\ launched' = launched + 1
  ELSE UNCHANGED <<h, launched>>

\* MessageHandler::PostMessage up to the release of monitor_.
Post(m, before_events) ==
  /\ oob_queue' = IF m \in OOBs THEN Append(oob_queue, m) ELSE oob_queue
  /\ queue' = IF m \in OOBs THEN queue ELSE Enqueue(queue, m, before_events)
  /\ posted' = IF m \in Controls THEN posted ELSE Append(posted, m)
  /\ sent' = sent \cup {m}
  /\ NotifyWaiter
  /\ LaunchTask

\* PortMap::PostMessage to an open port.
PostMessage(m, p) ==
  /\ m \notin sent /\ Receives(m)
  /\ mutex = Free
  /\ port_state[p] \in Open
  /\ Post(m, FALSE)
  /\ mutex' = m
  /\ UNCHANGED <<port_state, task, closer, notifications, deleted, taken,
                 failed>>

\* PortMap::PostMessage to a port that is not open returns false.
PostRefused(m, p) ==
  /\ m \notin sent /\ Receives(m)
  /\ mutex = Free
  /\ port_state[p] = "closed"
  /\ sent' = sent \cup {m}
  /\ UNCHANGED <<mutex, port_state, queue, oob_queue, h, launched, task,
                 frames, closer, notifications, deleted, posted, taken,
                 failed>>

Notified == IF Kind = "embedder" THEN notifications + 1 ELSE notifications

\* MessageNotify, after the release of monitor_; then mutex_ is released.
MessageNotify ==
  /\ mutex # Free
  /\ mutex' = Free
  /\ notifications' = Notified
  /\ UNCHANGED <<port_state, queue, oob_queue, h, launched, task, frames,
                 closer, deleted, history>>

-----------------------------------------------------------------------------
(* TaskCallback.  These operators follow its code from one release of      *)
(* monitor_ to the next; g is the value of h so far.                       *)

Allowed(status) == Kind # "native" /\ status # "kShutdown"
ShouldPauseOnStart(status, g) == Allowed(status) /\ g.should_pause_on_start
ShouldPauseOnExit(status, g) == Allowed(status) /\ g.should_pause_on_exit

NewFrame(site, allow, multiple) ==
  [site |-> site, allow |-> allow, multiple |-> multiple, status |-> "kOK",
   phase |-> "enter", message |-> Free, unwinds |-> "kOK"]

CallHandleMessages(site, allow, multiple, g) ==
  /\ frames' = <<NewFrame(site, allow, multiple)>>
  /\ task' = "HandleMessages"
  /\ h' = g

CallOut(where, g) ==
  /\ frames' = <<>>
  /\ task' = where
  /\ h' = g

\* Still paused, or nothing left to do: no task in the pool.
TaskReturns(g) == CallOut("none", [g EXCEPT !.task_running = FALSE])

\* Wrong variant: delete_me_ is ignored.
Stop_NoDelete(g) ==
  CallOut(IF Kind = "pool" THEN "EndCallback" ELSE "none",
          [g EXCEPT !.pool = FALSE, !.task_running = FALSE])

\* The handler stops: pool_ = NULL, then the end callback or delete this.
Stop(g) ==
  CallOut(IF Kind = "pool" THEN "EndCallback"
          ELSE IF g.delete_me THEN "Delete" ELSE "none",
          [g EXCEPT !.pool = FALSE, !.task_running = FALSE])

Finish(status, g) ==
  IF status = "kOK" /\ g.live_ports > 0 THEN TaskReturns(g)
  ELSE IF ShouldPauseOnExit(status, g) THEN CallOut("NotifyPauseOnExit", g)
  ELSE Stop(g)

HandlePending(status, g) ==
  IF status = "kOK" THEN CallHandleMessages("Main", TRUE, TRUE, g)
  ELSE Finish(status, g)

CheckPausedOnExit(status, g) ==
  IF g.is_paused_on_exit
  THEN CallHandleMessages("PausedOnExit", FALSE, FALSE, g)
  ELSE HandlePending(status, g)

TaskCallback ==
  /\ launched > 0
  /\ task = "none"
  /\ launched' = launched - 1
  /\ IF ShouldPauseOnStart("kOK", h)
     THEN IF h.is_paused_on_start
          THEN CallHandleMessages("PausedOnStart", FALSE, FALSE, h)
          ELSE CallOut("NotifyPauseOnStart", h)
     ELSE CheckPausedOnExit("kOK", h)
  /\ UNCHANGED <<mutex, port_state, queue, oob_queue, closer, notifications,
                 deleted, history>>

\* Wrong variant: a message that came in meanwhile is not looked for.
PauseNotified_NoRecheck ==
  /\ \/ /\ task = "NotifyPauseOnStart"
        /\ TaskReturns([h EXCEPT !.is_paused_on_start = TRUE])
     \/ /\ task = "NotifyPauseOnExit"
        /\ TaskReturns([h EXCEPT !.is_paused_on_exit = TRUE])
  /\ UNCHANGED <<mutex, port_state, queue, oob_queue, launched, closer,
                 notifications, deleted, history>>

\* NotifyPauseOnStart or NotifyPauseOnExit returns and monitor_ is reacquired.
PauseNotified ==
  /\ \/ /\ task = "NotifyPauseOnStart"
        /\ CallHandleMessages("PausedOnStart", FALSE, FALSE,
                              [h EXCEPT !.is_paused_on_start = TRUE])
     \/ /\ task = "NotifyPauseOnExit"
        /\ CallHandleMessages("Exiting", FALSE, FALSE,
                              [h EXCEPT !.is_paused_on_exit = TRUE])
  /\ UNCHANGED <<mutex, port_state, queue, oob_queue, launched, closer,
                 notifications, deleted, history>>

\* What TaskCallback does when HandleMessages returns status to site.
AfterHandleMessages(site, status, g) ==
  LET started == [g EXCEPT !.is_paused_on_start = FALSE]
      resumed == [g EXCEPT !.is_paused_on_exit = FALSE]
  IN CASE site = "PausedOnStart" ->
            IF ShouldPauseOnStart(status, g) THEN TaskReturns(g)
            ELSE CheckPausedOnExit(status, started)
       [] site = "PausedOnExit" ->
            IF ShouldPauseOnExit(status, g) THEN TaskReturns(g)
            ELSE HandlePending(status, resumed)
       [] site = "Main" -> Finish(status, g)
       [] site = "Exiting" ->
            IF ShouldPauseOnExit(status, g) THEN TaskReturns(g)
            ELSE Stop(resumed)

-----------------------------------------------------------------------------
(* HandleMessages.                                                         *)

\* The stack once an inner call has returned.  An error unwinds the message
\* that is being handled below, which will return the same status.
Unwound(status) ==
  [Below EXCEPT ![Len(Below)].unwinds = status]

\* The loop of PauseAndHandleAllMessages is left.
WaitEnds(g) ==
  /\ frames' = Append(Below, NewFrame("WaitDone", TRUE, TRUE))
  /\ h' = [g EXCEPT !.paused_for_messages = FALSE]

WaitsAgain(g) ==
  /\ frames' = Append(Below, [NewFrame("Wait", FALSE, FALSE)
                                EXCEPT !.phase = "waiting"])
  /\ h' = g

\* The innermost HandleMessages returns status.
Return(status, g) ==
  LET site == Top.site
  IN /\ failed' = (failed \/ (site = "Main" /\ status = "kError"))
     /\ CASE site \in {"OOB", "WaitDone"} ->
               frames' = Unwound(status) /\ h' = g /\ UNCHANGED task
          [] site = "Next" ->
               frames' = <<>> /\ h' = g /\ UNCHANGED task
          [] site = "Wait" ->
               /\ IF status # "kOK"
                  THEN /\ frames' = Unwound(status)
                       /\ h' = [g EXCEPT !.paused_for_messages = FALSE]
                  ELSE IF queue = <<>> /\ oob_queue = <<>>
                       THEN WaitsAgain(g) ELSE WaitEnds(g)
               /\ UNCHANGED task
          [] OTHER -> AfterHandleMessages(site, status, g)

\* DequeueMessage: the next message, or nothing.
DequeueMessage(normal) ==
  IF oob_queue # <<>> THEN <<Head(oob_queue)>>
  ELSE IF normal /\ queue # <<>> THEN <<Head(queue)>>
  ELSE <<>>

\* The head of the loop of HandleMessages, in frame f.
NextMessage(f, g) ==
  LET normal == f.status = "kOK" /\ f.allow /\ g.paused = 0
      next == DequeueMessage(normal)
  IN IF next = <<>>
     THEN /\ Return(f.status, g)
          /\ UNCHANGED <<queue, oob_queue, taken>>
     ELSE /\ frames' = Append(Below, [f EXCEPT !.phase = "handling",
                                               !.message = next[1]])
          /\ h' = g
          /\ taken' = Append(taken, next[1])
          /\ IF next[1] \in OOBs
             THEN oob_queue' = Tail(oob_queue) /\ UNCHANGED queue
             ELSE queue' = Tail(queue) /\ UNCHANGED oob_queue
          /\ UNCHANGED <<task, failed>>

\* monitor_ is reacquired after StartIsolateScope.
EnterHandleMessages ==
  /\ frames # <<>>
  /\ Top.phase = "enter"
  /\ NextMessage(Top, h)
  /\ UNCHANGED <<mutex, port_state, launched, closer, notifications, deleted,
                 posted, sent>>

Handling == frames # <<>> /\ Top.phase = "handling"

\* The status that HandleMessage may return for the message of frame f.
\* Only an unwind error, of an out-of-band or control message, shuts down.
Outcomes(f) ==
  IF Kind = "native" THEN {"kOK"}
  ELSE IF f.unwinds # "kOK" THEN {f.unwinds}
  ELSE IF f.message \in Events THEN {"kOK", "kError"}
  ELSE Status

\* What an out-of-band message may do to the handler: Isolate.pause and
\* resume, and the resume request of the service.
Effects(f) ==
  LET pauses == [h EXCEPT !.paused = @ + 1]
      resumes == [h EXCEPT !.paused = @ - 1]
      continues == IF h.is_paused_on_start \/ h.should_pause_on_start
                   THEN [h EXCEPT !.should_pause_on_start = FALSE]
                   ELSE IF h.is_paused_on_exit
                   THEN [h EXCEPT !.should_pause_on_exit = FALSE] ELSE h
  IN IF f.message \in OOBs /\ f.unwinds = "kOK"
     THEN {h, continues} \cup (IF Kind \in PauseKinds THEN {pauses} ELSE {})
                         \cup (IF h.paused > 0 THEN {resumes} ELSE {})
     ELSE {h}

\* HandleMessage returns and monitor_ is reacquired.
MessageHandled ==
  /\ Handling
  /\ \E status \in Outcomes(Top), g \in Effects(Top) :
       LET worst == IF "kShutdown" \in {status, Top.status} THEN "kShutdown"
                    ELSE IF "kError" \in {status, Top.status} THEN "kError"
                    ELSE "kOK"
           once == Top.message \notin OOBs /\ ~ Top.multiple
       IN IF status = "kShutdown"
          THEN /\ oob_queue' = <<>>
               /\ Return(worst, g)
               /\ UNCHANGED <<queue, taken>>
          ELSE NextMessage([Top EXCEPT !.status = worst,
                                       !.allow = @ /\ ~ once,
                                       !.unwinds = "kOK"], g)
  /\ UNCHANGED <<mutex, port_state, launched, closer, notifications, deleted,
                 posted, sent>>

-----------------------------------------------------------------------------
(* What the isolate does while it handles a message.                       *)

Busy == Kind # "native" /\ Handling /\ Top.unwinds = "kOK"

\* HandleOOBMessages, from an interrupt check.
HandleOOBMessages ==
  /\ Busy
  /\ Len(frames) < MaxDepth
  /\ frames' = Append(frames, NewFrame("OOB", FALSE, FALSE))
  /\ UNCHANGED <<mutex, port_state, queue, oob_queue, h, launched, task,
                 closer, notifications, deleted, history>>

\* PauseAndHandleAllMessages, from Dart_WaitForEvent.
PauseAndHandleAllMessages ==
  /\ Busy
  /\ Kind = "pool"
  /\ Top.message \in OOBs => WaitInOOB
  /\ Len(frames) < MaxDepth
  /\ IF queue = <<>> /\ oob_queue = <<>>
     THEN /\ frames' = Append(frames, [NewFrame("Wait", FALSE, FALSE)
                                         EXCEPT !.phase = "waiting"])
          /\ h' = [h EXCEPT !.paused_for_messages = TRUE]
     ELSE /\ frames' = Append(frames, NewFrame("WaitDone", TRUE, TRUE))
          /\ h' = [h EXCEPT !.paused_for_messages = FALSE]
  /\ UNCHANGED <<mutex, port_state, queue, oob_queue, launched, task, closer,
                 notifications, deleted, history>>

WaitFrame == frames # <<>> /\ Top.phase \in {"waiting", "notified"}

\* ml.Wait returns kNotified (also spuriously).
WaitNotified ==
  /\ WaitFrame
  /\ IF queue = <<>>
     THEN /\ frames' = Append(Below, NewFrame("Wait", FALSE, FALSE))
          /\ UNCHANGED h
     ELSE WaitEnds(h)
  /\ UNCHANGED <<mutex, port_state, queue, oob_queue, launched, task, closer,
                 notifications, deleted, history>>

\* ml.Wait returns kTimedOut.
WaitTimedOut ==
  /\ WaitFrame
  /\ WaitEnds(h)
  /\ UNCHANGED <<mutex, port_state, queue, oob_queue, launched, task, closer,
                 notifications, deleted, history>>

\* HandleLibMessage posts a control message to its own handler.
PostDelayed(m, before_events) ==
  /\ Busy
  /\ Top.message \in OOBs
  /\ m \notin sent
  /\ Post(m, before_events)
  /\ notifications' = Notified
  /\ UNCHANGED <<mutex, port_state, task, closer, deleted, taken, failed>>

\* PortMap::CreatePort.
CreatePort(p) ==
  /\ Busy
  /\ mutex = Free
  /\ port_state[p] = "none"
  /\ port_state' = [port_state EXCEPT ![p] = "new"]
  /\ UNCHANGED <<mutex, queue, oob_queue, h, launched, task, frames, closer,
                 notifications, deleted, history>>

\* What the callers ask for: ReceivePort::New, and the timers, which activate
\* their port once but make it inactive whenever they end with no timer left
\* (_shutdownTimerHandler), so also when it already is.
PortSteps == {<<"new", "live">>, <<"inactive", "live">>,
              <<"live", "inactive">>, <<"inactive", "inactive">>}

\* Wrong variant: the state the port had is not looked at.
LiveChange_NoOldState(p, state) == IF state = "live" THEN 1 ELSE -1

LiveChange(p, state) ==
  IF state = "live" THEN 1 ELSE IF port_state[p] = "live" THEN -1 ELSE 0

\* PortMap::SetPortState.
SetPortState(p, state) ==
  /\ Busy
  /\ mutex = Free
  /\ p # MainPort
  /\ <<port_state[p], state>> \in PortSteps
  /\ port_state' = [port_state EXCEPT ![p] = state]
  /\ h' = [h EXCEPT !.live_ports = @ + LiveChange(p, state)]
  /\ UNCHANGED <<mutex, queue, oob_queue, launched, task, frames, closer,
                 notifications, deleted, history>>

\* PortMap::ClosePort: the section under mutex_.  An isolate closes its own
\* ports; any thread may close a native port, the handler's own included.
ClosePort(p) ==
  /\ Kind = "native" \/ (Busy /\ p # MainPort)
  /\ mutex = Free
  /\ port_state[p] \in Open
  /\ port_state' = [port_state EXCEPT ![p] = "closed"]
  /\ h' = IF port_state[p] = "live"
          THEN [h EXCEPT !.live_ports = @ - 1] ELSE h
  /\ closer' = IF Kind = "native" THEN "ClosePort" ELSE closer
  /\ UNCHANGED <<mutex, queue, oob_queue, launched, task, frames,
                 notifications, deleted, history>>

-----------------------------------------------------------------------------
(* The end of a handler.                                                   *)

\* PortMap::ClosePort calls handler->ClosePort, which locks monitor_.
CloserLocksHandler ==
  /\ closer = "ClosePort"
  /\ closer' = IF h.live_ports = 0 THEN "RequestDeletion" ELSE "none"
  /\ UNCHANGED <<mutex, port_state, queue, oob_queue, h, launched, task,
                 frames, notifications, deleted, history>>

\* Wrong variant: the handler is deleted although its task still runs.
RequestDeletion_Now ==
  /\ closer = "RequestDeletion"
  /\ closer' = "Delete"
  /\ UNCHANGED <<mutex, port_state, queue, oob_queue, h, launched, task,
                 frames, notifications, deleted, history>>

RequestDeletion ==
  /\ closer = "RequestDeletion"
  /\ IF h.task_running
     THEN h' = [h EXCEPT !.delete_me = TRUE] /\ closer' = "none"
     ELSE closer' = "Delete" /\ UNCHANGED h
  /\ UNCHANGED <<mutex, port_state, queue, oob_queue, launched, task, frames,
                 notifications, deleted, history>>

CloserDeletes ==
  /\ closer = "Delete"
  /\ closer' = "none"
  /\ deleted' = deleted + 1
  /\ queue' = <<>>
  /\ oob_queue' = <<>>
  /\ UNCHANGED <<mutex, port_state, h, launched, task, frames, notifications,
                 history>>

\* Dart_HandleMessage: HandleNextMessage, once for a notification.
HandleNextMessage ==
  /\ Kind = "embedder"
  /\ task = "none"
  /\ frames = <<>>
  /\ deleted = 0
  /\ notifications > 0
  /\ notifications' = notifications - 1
  /\ frames' = <<NewFrame("Next", TRUE, FALSE)>>
  /\ UNCHANGED <<mutex, port_state, queue, oob_queue, h, launched, task,
                 closer, deleted, history>>

\* The embedder calls Dart_ShutdownIsolate.
ShutdownIsolate ==
  /\ Kind = "embedder"
  /\ task = "none"
  /\ frames = <<>>
  /\ deleted = 0
  /\ task' = "EndCallback"
  /\ UNCHANGED <<mutex, port_state, queue, oob_queue, h, launched, frames,
                 closer, notifications, deleted, history>>

\* Isolate::LowLevelShutdown: PortMap::ClosePorts, the section under mutex_.
ClosePorts ==
  /\ task = "EndCallback"
  /\ mutex = Free
  /\ port_state' = [p \in Port |-> "closed"]
  /\ h' = [h EXCEPT !.live_ports = @ - Cardinality(Live)]
  /\ task' = "CloseAllPorts"
  /\ UNCHANGED <<mutex, queue, oob_queue, launched, frames, closer,
                 notifications, deleted, history>>

CloseAllPorts ==
  /\ task = "CloseAllPorts"
  /\ queue' = <<>>
  /\ oob_queue' = <<>>
  /\ task' = "Delete"
  /\ UNCHANGED <<mutex, port_state, h, launched, frames, closer,
                 notifications, deleted, history>>

\* delete message_handler(), or delete this at the end of TaskCallback.
DeleteHandler ==
  /\ task = "Delete"
  /\ task' = "none"
  /\ deleted' = deleted + 1
  /\ queue' = <<>>
  /\ oob_queue' = <<>>
  /\ UNCHANGED <<mutex, port_state, h, launched, frames, closer,
                 notifications, history>>

-----------------------------------------------------------------------------
Next ==
  \/ Run
  \/ \E m \in Events \cup OOBs, p \in Port :
       PostMessage(m, p) \/ PostRefused(m, p)
  \/ MessageNotify
  \/ TaskCallback
  \/ PauseNotified
  \/ EnterHandleMessages
  \/ MessageHandled
  \/ HandleOOBMessages
  \/ PauseAndHandleAllMessages
  \/ WaitNotified
  \/ WaitTimedOut
  \/ \E m \in Controls, before_events \in BOOLEAN :
       PostDelayed(m, before_events)
  \/ \E p \in Port : CreatePort(p) \/ ClosePort(p)
  \/ \E p \in Port, state \in {"live", "inactive"} : SetPortState(p, state)
  \/ CloserLocksHandler
  \/ RequestDeletion
  \/ CloserDeletes
  \/ HandleNextMessage
  \/ ShutdownIsolate
  \/ ClosePorts
  \/ CloseAllPorts
  \/ DeleteHandler

Spec == Init /\ [][Next]_vars

\* A notified thread wakes up.
WakeUp == WaitFrame /\ Top.phase = "notified" /\ WaitNotified

\* Threads run, the pool starts its tasks, the embedder answers notifications,
\* and a message is handled to its end, however often it is interrupted.
Fairness ==
  /\ WF_vars(Run)
  /\ WF_vars(MessageNotify)
  /\ WF_vars(TaskCallback)
  /\ WF_vars(PauseNotified)
  /\ WF_vars(EnterHandleMessages)
  /\ SF_vars(MessageHandled)
  /\ WF_vars(WakeUp)
  /\ WF_vars(CloserLocksHandler)
  /\ WF_vars(RequestDeletion)
  /\ WF_vars(CloserDeletes)
  /\ WF_vars(HandleNextMessage)
  /\ SF_vars(ClosePorts)
  /\ WF_vars(CloseAllPorts)
  /\ WF_vars(DeleteHandler)

FairSpec == Spec /\ Fairness

-----------------------------------------------------------------------------
(* Properties.                                                             *)

InTask == task \in {"NotifyPauseOnStart", "HandleMessages",
                    "NotifyPauseOnExit"}

\* "No other message handler tasks will be started until this one sets
\* [task_running_] to false" (TaskCallback): at most one task exists, and
\* task_running_ says whether it does.
OneTask ==
  /\ launched + (IF InTask THEN 1 ELSE 0) <= 1
  /\ h.task_running <=> launched > 0 \/ InTask

\* A handler is deleted once, by the closer of its port or by its last task,
\* and nobody uses it afterwards: no poster that found it in the port map, no
\* closer, no task.
NoUseAfterDelete ==
  /\ deleted <= 1
  /\ deleted = 1 =>
       /\ mutex = Free
       /\ closer = "none"
       /\ launched = 0
       /\ task = "none"
       /\ frames = <<>>
       /\ \A p \in Port : port_state[p] \notin Open

\* live_ports_ is what keeps an isolate running: it counts the live ports.
LivePortsExact == h.live_ports = Cardinality(Live)

\* The thread in PauseAndHandleAllMessages is notified of every message:
\* "Blocks the thread on a condition variable until a message arrives".
WaiterHears ==
  WaitFrame /\ Top.phase = "waiting" => queue = <<>> /\ oob_queue = <<>>

\* An embedder that answers every notification with one Dart_HandleMessage
\* leaves no message behind: "It is the responsibility of the embedder to call
\* Dart_HandleMessage to process the message".
EmbedderHears ==
  /\ Kind = "embedder" /\ task = "none" /\ deleted = 0
  /\ mutex = Free /\ frames = <<>>
  /\ h.paused = 0
  => notifications > 0 \/ (queue = <<>> /\ oob_queue = <<>>)

\* Whenever monitor_ was released a message may have come in.  A handler on
\* the pool without a task has no out-of-band message, and no message at all
\* unless it is paused: nobody else would start a task for it.  Likewise no
\* message stays behind with a thread that waits or with an embedder.
NoStrandedMessage ==
  /\ h.pool /\ ~ h.task_running =>
       /\ oob_queue = <<>>
       /\ \/ queue = <<>>
          \/ h.paused > 0
          \/ h.is_paused_on_start
          \/ h.is_paused_on_exit
  /\ WaiterHears
  /\ EmbedderHears

\* "The isolate exits when it encounters an error or when it no longer has
\* live ports": after an error it takes no normal message any more.
ErrorEndsHandler ==
  [][failed /\ taken' # taken => taken'[Len(taken')] \in OOBs]_vars

Elements(s) == {s[i] : i \in DOMAIN s}

\* Every accepted message is dequeued or the handler ends; an event may also
\* meet a handler that is paused.
EveryMessageIsTaken ==
  \A m \in Events \cup OOBs :
    m \in Elements(posted) ~>
      \/ m \in Elements(taken)
      \/ deleted = 1
      \/ /\ m \in Events
         /\ h.paused > 0 \/ h.is_paused_on_start \/ h.is_paused_on_exit

\* A native handler whose port was closed is deleted.
ClosedHandlerIsDeleted ==
  Kind = "native" /\ port_state[MainPort] = "closed" ~> deleted = 1

=============================================================================
