-------------------------------- MODULE Timers --------------------------------
(***************************************************************************)
(* The timers of an isolate: class _Timer                                  *)
(* (sdk/lib/_internal/vm/lib/timer_impl.dart), which keeps timers of zero  *)
(* duration in a list, with one message to its port for each, and the      *)
(* others in a heap, with one wakeup scheduled at the event handler        *)
(* (runtime/bin/eventhandler.h, eventhandler_linux.cc), another thread.    *)
(* Callbacks and the microtasks after them may create and cancel timers    *)
(* and may throw; errors are not fatal to the isolate.                     *)
(***************************************************************************)
EXTENDS TimerHeap, FiniteSets

CONSTANTS
  NumTimers,  \* how many _Timer objects there may be
  Plans,      \* programs: what timers are created, in which order
  MaxTime,    \* bound: the clock
  MaxCancels, \* bound: calls of cancel()
  MaxRuns,    \* bound: a periodic timer's callback cancels it at this tick
  MaxThrows   \* bound: callbacks or microtasks that throw

_NO_TIMER == -1

ASSUME TimersAssumption ==
  /\ Plans \subseteq Seq([ms : Nat, repeating : BOOLEAN]) 
  /\ \A p \in Plans : Len(p) <= NumTimers
  /\ {NumTimers, MaxTime, MaxRuns} \subseteq Nat \ {0}
  /\ {MaxCancels, MaxThrows} \subseteq Nat

(* _Timer objects, in the order of their creation; no timer. *)
Timer == 1..NumTimers
NoTimer == 0

VARIABLES
  plan,      \* what the program is still to create
  cancels,   \* how often it has cancelled
  now,       \* timerMillisecondClock(), in milliseconds
  timer,     \* the fields of each _Timer object
  idCount,   \* _idCount
  q,         \* the static state of _Timer, see Queues
  pending,   \* pendingTimers of _runTimers, from i on
  current,   \* the timer whose callback or microtasks run
  pc,        \* "idle", or where _runTimers is
  timeout,   \* timeouts_ of the event handler: this port's, or _NO_TIMER
  throws,    \* how many have thrown
  order      \* history: the timers to be notified, as they were enqueued

program == <<plan, cancels>>
vars == <<program, now, timer, idCount, q, pending, current, pc, timeout,
          throws, order>>

(* heap: _heap; zero: the list from _firstZeroTimer on; queue: messages to *)
(* _receivePort; pipe: those to the event handler.  opened says that       *)
(* _receivePort is not null.                                               *)
Queues ==
  [heap : Seq(Timer), zero : Seq(Timer), queue : Seq({"ZERO", "TIMEOUT"}),
   pipe : Seq(Int), scheduled : Nat, active : BOOLEAN, opened : BOOLEAN,
   handling : BOOLEAN]

(* callback: _callback is not null; born: history, its creation. *)
Unborn == [callback |-> FALSE, wakeup |-> 0, ms |-> 0, repeating |-> FALSE,
           id |-> -1, tick |-> 0, born |-> 0]

Init ==
  /\ plan \in Plans /\ cancels = 0
  /\ now = 1 /\ timer = [t \in Timer |-> Unborn] /\ idCount = 0
  /\ q = [heap |-> <<>>, zero |-> <<>>, queue |-> <<>>, pipe |-> <<>>,
          scheduled |-> 0, active |-> FALSE, opened |-> FALSE,
          handling |-> FALSE]
  /\ pending = <<>> /\ current = NoTimer /\ pc = "idle"
  /\ timeout = _NO_TIMER /\ throws = 0 /\ order = <<>>

-----------------------------------------------------------------------------
(* What the static methods make of the state s, with the timers' fields tm.*)

Key(tm) == [t \in Timer |-> <<tm[t].wakeup, tm[t].id>>]
AddToHeap(s, tm, t) == [s EXCEPT !.heap = HeapAdd(Key(tm), @, t)]
RemoveFromHeap(s, tm, t) == [s EXCEPT !.heap = HeapRemove(Key(tm), @, t)]

CreateTimerHandler(s) == [s EXCEPT !.opened = TRUE, !.active = TRUE]

ScheduleWakeup(s, w) ==
  [CreateTimerHandler(s) EXCEPT !.pipe = Append(@, w), !.scheduled = w]

CancelWakeup(s) ==
  IF s.opened THEN [s EXCEPT !.pipe = Append(@, _NO_TIMER), !.scheduled = 0]
              ELSE s

ShutdownTimerHandler(s) == [s EXCEPT !.scheduled = 0, !.active = FALSE]

NotifyEventHandler(s, tm) ==
  IF s.handling THEN s
  ELSE IF s.heap = <<>> /\ s.zero = <<>>
  THEN IF s.opened THEN ShutdownTimerHandler(CancelWakeup(s)) ELSE s
  ELSE IF s.heap = <<>> THEN CancelWakeup(s)
  ELSE LET wakeup == tm[Head(s.heap)].wakeup
       IN IF s.scheduled = 0 \/ wakeup # s.scheduled
          THEN ScheduleWakeup(s, wakeup) ELSE s

(* _enqueue *)
Enqueue(s, tm, t) ==
  IF tm[t].ms = 0
  THEN [CreateTimerHandler(s) EXCEPT !.zero = Append(@, t),
                                     !.queue = Append(@, "ZERO")]
  ELSE LET added == AddToHeap(s, tm, t)
       IN IF Head(added.heap) = t THEN NotifyEventHandler(added, tm)
                                  ELSE added

RECURSIVE EnqueueAll(_, _, _)
EnqueueAll(s, tm, ts) ==
  IF ts = <<>> THEN s
  ELSE EnqueueAll(Enqueue(s, tm, Head(ts)), tm, Tail(ts))

RECURSIVE HeapPrefix(_, _, _)
(* The timers of list that are removed from the heap, one after the other, *)
(* as long as the first is in S.                                           *)
HeapPrefix(key, list, S) ==
  IF list # <<>> /\ Head(list) \in S
  THEN <<Head(list)>> \o HeapPrefix(key, HeapRemove(key, list, Head(list)), S)
  ELSE <<>>

BeforeTimer(t) == {u \in Timer : Before(Key(timer), u, t)}

RECURSIVE RemoveAll(_, _, _)
RemoveAll(s, tm, ts) ==
  IF ts = <<>> THEN s
  ELSE RemoveAll(RemoveFromHeap(s, tm, Head(ts)), tm, Tail(ts))

-----------------------------------------------------------------------------
(* Dart code: that of the isolate while no timer message is handled, that  *)
(* of a callback, and that of the microtasks after it.                     *)

InDartCode == pc \in {"idle", "callback", "microtask"}

CreateTimer(t) ==
  /\ InDartCode /\ plan # <<>> /\ timer[t] = Unborn
  /\ \A u \in 1..t - 1 : timer[u] # Unborn
  /\ LET ms == Head(plan).ms
         tm == [timer EXCEPT ![t] =
                  [callback |-> TRUE, ms |-> ms,
                   repeating |-> Head(plan).repeating,
                   wakeup |-> IF ms = 0 THEN now ELSE now + 1 + ms,
                   id |-> idCount, tick |-> 0, born |-> now]]
     IN /\ now + 1 + ms <= MaxTime
        /\ timer' = tm /\ q' = Enqueue(q, tm, t)
  /\ idCount' = idCount + 1
  /\ plan' = Tail(plan)
  /\ order' = Append(order, t)
  /\ UNCHANGED <<cancels, now, pending, current, pc, timeout, throws>>

CancelTimer(t) ==
  /\ InDartCode /\ timer[t].callback /\ cancels < MaxCancels
  /\ cancels' = cancels + 1
  /\ timer' = [timer EXCEPT ![t].callback = FALSE]
  /\ IF t \in ToSet(q.heap)
     THEN LET removed == RemoveFromHeap(q, timer, t)
          IN q' = IF Head(q.heap) = t THEN NotifyEventHandler(removed, timer)
                                      ELSE removed
     ELSE UNCHANGED q
  /\ UNCHANGED <<plan, now, idCount, pending, current, pc, timeout, throws,
                 order>>

-----------------------------------------------------------------------------
(* A message to the port.                                                  *)

(* _runTimers up to its loop, with the timers ts taken off the queues s. *)
RunTimers(s, ts) ==
  /\ idCount' = IF s.heap = <<>> /\ s.zero = <<>> THEN 0 ELSE idCount
  /\ IF ts = <<>>
     THEN /\ q' = NotifyEventHandler(s, timer)
          /\ UNCHANGED <<pending, pc>>
     ELSE /\ q' = [s EXCEPT !.handling = TRUE]
          /\ pending' = ts /\ pc' = "loop"

HandleZeroEvent ==
  /\ pc = "idle" /\ q.queue # <<>> /\ Head(q.queue) = "ZERO"
  /\ LET s == [q EXCEPT !.queue = Tail(@)]
         first == Head(q.zero)
         expired == HeapPrefix(Key(timer), s.heap, BeforeTimer(first))
     IN IF s.zero = <<>> THEN RunTimers(s, <<>>)
        ELSE RunTimers([RemoveAll(s, timer, expired) EXCEPT !.zero = Tail(@)],
                       Append(expired, first))
  /\ UNCHANGED <<program, now, timer, current, timeout, throws, order>>

(* Wrong variant: the wakeup that has just been consumed is remembered. *)
ConsumeWakeup_Not(s) == [s EXCEPT !.queue = Tail(@)]
ConsumeWakeup(s) == [s EXCEPT !.queue = Tail(@), !.scheduled = 0]

(* Wrong variant: a timer is taken a millisecond before its time. *)
Expired_Early(t) == timer[t].wakeup <= now + 1
Expired(t) == timer[t].wakeup <= now

HandleTimeoutEvent ==
  /\ pc = "idle" /\ q.queue # <<>> /\ Head(q.queue) = "TIMEOUT"
  /\ LET s == ConsumeWakeup(q)
         expired == HeapPrefix(Key(timer), s.heap,
                      IF s.zero = <<>> THEN {t \in Timer : Expired(t)}
                                       ELSE BeforeTimer(Head(s.zero)))
     IN RunTimers(RemoveAll(s, timer, expired), expired)
  /\ UNCHANGED <<program, now, timer, current, timeout, throws, order>>

(* Ticks that a periodic timer has missed. *)
MissedTicks(t) ==
  LET ms == timer[t].ms
      overdue == now - timer[t].wakeup
  IN IF timer[t].repeating /\ ms > 0 /\ overdue > ms THEN overdue \div ms
     ELSE 0

(* The loop of _runTimers reaches the next timer ... *)
RunNext ==
  /\ pc = "loop" /\ pending # <<>>
  /\ LET t == Head(pending)
     IN IF ~timer[t].callback
        THEN UNCHANGED <<timer, current, pc>>
        ELSE /\ timer' = [timer EXCEPT
                  ![t].callback = timer[t].repeating
                                    /\ timer[t].tick + 1 < MaxRuns,
                  ![t].wakeup = @ + MissedTicks(t) * timer[t].ms,
                  ![t].tick = @ + MissedTicks(t) + 1]
             /\ current' = t /\ pc' = "callback"
  /\ pending' = Tail(pending)
  /\ order' = SelectSeq(order, LAMBDA u : u # Head(pending))
  /\ UNCHANGED <<program, now, idCount, q, timeout, throws>>

(* ... its callback returns ... *)
CallbackReturns ==
  /\ pc = "callback"
  /\ pc' = "microtask"
  /\ LET t == current
         tm == [timer EXCEPT ![t].id = idCount,
                  ![t].wakeup = IF timer[t].ms > 0 THEN @ + timer[t].ms
                                                   ELSE now]
     IN IF timer[t].repeating /\ timer[t].callback
        THEN /\ timer' = tm /\ idCount' = idCount + 1
             /\ q' = Enqueue(q, tm, t)
             /\ order' = Append(order, t)
        ELSE UNCHANGED <<timer, idCount, q, order>>
  /\ UNCHANGED <<program, now, pending, current, timeout, throws>>

(* ... and so do the microtasks. *)
MicrotasksReturn ==
  /\ pc = "microtask"
  /\ pc' = "loop" /\ current' = NoTimer
  /\ UNCHANGED <<program, now, timer, idCount, q, pending, timeout, throws,
                 order>>

(* The end of the loop: the finally clause, and _notifyEventHandler() once *)
(* more in _handleMessage.                                                 *)
RunEnds ==
  /\ pc = "loop" /\ pending = <<>>
  /\ pc' = "idle"
  /\ LET s == NotifyEventHandler([q EXCEPT !.handling = FALSE], timer)
     IN q' = NotifyEventHandler(s, timer)
  /\ UNCHANGED <<program, now, timer, idCount, pending, current, timeout,
                 throws, order>>

(* Wrong variant: the timers the loop did not reach are forgotten. *)
Requeue_Not(s, ts) == s
Requeue(s, ts) == EnqueueAll(s, timer, ts)

(* A callback, or a microtask, throws: the finally clause. *)
Throw ==
  /\ pc \in {"callback", "microtask"} /\ throws < MaxThrows
  /\ throws' = throws + 1
  /\ pc' = "idle" /\ current' = NoTimer /\ pending' = <<>>
  /\ q' = NotifyEventHandler(Requeue([q EXCEPT !.handling = FALSE], pending),
                           timer)
  /\ UNCHANGED <<program, now, timer, idCount, timeout, order>>

-----------------------------------------------------------------------------
(* The event handler and the clock.                                        *)

(* HandleInterruptFd: UpdateTimeout. *)
HandleInterruptFd ==
  /\ q.pipe # <<>>
  /\ timeout' = Head(q.pipe)
  /\ q' = [q EXCEPT !.pipe = Tail(@)]
  /\ UNCHANGED <<program, now, timer, idCount, pending, current, pc, throws,
                 order>>

(* HandleEvents: the timer fd. *)
HandleTimerFd ==
  /\ timeout # _NO_TIMER /\ now >= timeout
  /\ timeout' = _NO_TIMER
  /\ q' = [q EXCEPT !.queue = Append(@, "TIMEOUT")]
  /\ UNCHANGED <<program, now, timer, idCount, pending, current, pc, throws,
                 order>>

Tick ==
  /\ now < MaxTime /\ now' = now + 1
  /\ UNCHANGED <<program, timer, idCount, q, pending, current, pc, timeout,
                 throws, order>>

Isolate == \/ HandleZeroEvent \/ HandleTimeoutEvent \/ RunNext \/ RunEnds
           \/ CallbackReturns \/ MicrotasksReturn
EventHandler == HandleInterruptFd \/ HandleTimerFd

Next ==
  \/ \E t \in Timer : CreateTimer(t) \/ CancelTimer(t)
  \/ Throw \/ Isolate \/ EventHandler \/ Tick

Spec == Init /\ [][Next]_vars /\ WF_vars(Isolate) /\ WF_vars(EventHandler)
             /\ WF_vars(Tick)
-----------------------------------------------------------------------------
(* Properties.                                                             *)

(* Types; a timer is in at most one place. *)
TypeOK ==
  /\ q \in Queues /\ now \in 1..MaxTime /\ timeout \in {_NO_TIMER} \cup Nat
  /\ IsInjective(q.heap \o q.zero \o pending)
  /\ q.handling <=> (pc # "idle")
  /\ \A t \in ToSet(q.zero) : timer[t].ms = 0
  /\ \A t \in ToSet(q.heap) : timer[t].ms > 0

(* No timer is forgotten.  Every zero timer in the list has its own ZERO   *)
(* message in the queue and there are no others, cancelled and re-queued   *)
(* ones included, so that _handleMessage's assert holds.  Between messages *)
(* a wakeup is on its way for the first timer of the heap: the event       *)
(* handler has it, will have it once it has read its pipe, or has just     *)
(* sent the message that makes _handleMessage look again; and the port     *)
(* keeps the isolate alive exactly as long as there are timers             *)
(* (_createTimerHandler, _shutdownTimerHandler).                           *)
NoLostWakeup ==
  /\ Len(SelectSeq(q.queue, LAMBDA m : m = "ZERO")) = Len(q.zero)
  /\ pc = "idle" =>
       /\ q.heap # <<>> =>
            \/ "TIMEOUT" \in ToSet(q.queue)
            \/ timer[Head(q.heap)].wakeup =
                 IF q.pipe = <<>> THEN timeout ELSE q.pipe[Len(q.pipe)]
       /\ q.active <=> (q.heap # <<>> \/ q.zero # <<>>)

(* No callback is early, and tick counts durations: when the callback of a *)
(* periodic timer sees tick n, n durations have passed since its creation, *)
(* and the tick it stands for is the last one in the past.                 *)
FiresOnTime ==
  [][(pc = "loop" /\ pc' = "callback") =>
       LET t == timer'[current']
       IN /\ now >= t.born + t.ms /\ t.wakeup <= now
          /\ t.repeating /\ t.ms > 0 =>
               /\ t.wakeup = t.born + 1 + t.ms * t.tick
               /\ now - t.wakeup <= t.ms]_vars

(* "Timers with the same wakeup time are enqueued in order and notified in *)
(* FIFO order", and those with an earlier one before.                      *)
FifoStep ==
  (pc = "loop" /\ pc' = "callback") =>
    LET i == CHOOSE i \in DOMAIN order : order[i] = current'
        w == timer[order[i]].wakeup
    IN \A j \in DOMAIN order :
         timer[order[j]].callback =>
           \/ timer[order[j]].wakeup > w
           \/ timer[order[j]].wakeup = w /\ j >= i

(* Callbacks run in that order as long as nothing has thrown: after a      *)
(* callback that throws, _runTimers queues the timers behind it again.     *)
FifoUnlessThrown == [][throws = 0 => FifoStep]_vars

(* The heap is a heap, here and under all operations on any heap of up to  *)
(* seven timers (see HeapCorrectUpTo); six are the fewest for which        *)
(* _TimerHeap.remove moves a timer up.                                     *)
SoundUpTo7 == HeapCorrectUpTo(7)
HeapCorrect == SoundUpTo7 /\ Ordered(Key(timer), q.heap)

(* Every timer that is not periodic fires, unless it is cancelled, even if *)
(* an earlier timer of the same batch throws: in the end none is waiting.  *)
TimersFire ==
  <>[](\A t \in Timer : ~(timer[t].callback /\ ~timer[t].repeating))

=============================================================================
