------------------------ MODULE MessageHandlerProofs ------------------------
(***************************************************************************)
(* Proofs about MessageHandler, for any messages, any finite set of ports  *)
(* and any nesting of HandleMessages: a handler has one task at a time,    *)
(* counts its live ports, is not used once it is deleted, and leaves no    *)
(* message behind.                                                         *)
(***************************************************************************)
EXTENDS MessageHandler, TLAPS

(* Where HandleMessages is called: by TaskCallback, or by the isolate while *)
(* it handles a message.                                                    *)
TaskSites == {"PausedOnStart", "PausedOnExit", "Main", "Exiting"}
InnerSites == {"OOB", "Wait", "WaitDone"}

(* Only PauseAndHandleAllMessages waits. *)
Waits(f) == f.phase \in {"waiting", "notified"} => f.site = "Wait"

(* The outermost call is TaskCallback's or the embedder's, the others are  *)
(* the isolate's.  No message fails in a native handler.                   *)
Stack ==
  /\ \A i \in DOMAIN frames :
       /\ i = 1 => frames[i].site \in (IF Kind = "embedder" THEN {"Next"}
                                       ELSE TaskSites)
       /\ i # 1 => frames[i].site \in InnerSites
       /\ Kind = "native" => frames[i].status = "kOK"
       /\ Waits(frames[i])
  /\ IF Kind = "embedder" THEN frames # <<>> => task = "none"
     ELSE frames # <<>> <=> task = "HandleMessages"

NoPortOpen == \A p \in Port : port_state[p] \notin Open

(* PortMap::mutex_ keeps the port of a message open until it is delivered. *)
MutexHeld == mutex # Free => ~NoPortOpen

(* The life of an isolate's handler: its ports are closed before it is     *)
(* deleted, and a pool runs it from Run to the end callback.               *)
IsolateLife ==
  Kind # "native" =>
    /\ closer = "none"
    /\ ~h.delete_me
    /\ deleted \in {0, 1}
    /\ task \in {"CloseAllPorts", "Delete"} \/ deleted = 1 => NoPortOpen
    /\ deleted = 1 => task = "none" /\ frames = <<>>
    /\ ~h.pool => ~h.task_running
    /\ Kind = "embedder" => ~h.pool /\ ~InTask /\ task # "new"
    /\ Kind = "pool" => (h.pool <=> (task = "none" \/ InTask) /\ deleted = 0)

(* The life of a native handler once its port is closed: the deletion is   *)
(* with the closer, with the task that runs, or done.                      *)
Undeleted == deleted = 0 /\ task # "Delete"

Closing ==
  \/ /\ closer \in {"ClosePort", "RequestDeletion"}
     /\ ~h.delete_me /\ Undeleted
  \/ closer = "none" /\ h.delete_me /\ h.task_running /\ Undeleted
  \/ closer = "Delete" /\ ~h.delete_me /\ ~h.task_running /\ Undeleted
  \/ closer = "none" /\ task = "Delete" /\ ~h.task_running /\ deleted = 0
  \/ closer = "none" /\ task = "none" /\ ~h.task_running /\ deleted = 1

NativeLife ==
  Kind = "native" =>
    /\ task \in {"none", "HandleMessages", "Delete"}
    /\ \A p \in Port \ {MainPort} : port_state[p] = "none"
    /\ \/ /\ port_state[MainPort] = "live"
          /\ closer = "none" /\ ~h.delete_me /\ Undeleted
       \/ port_state[MainPort] = "closed" /\ Closing

(* The inductive invariant. *)
IInv ==
  /\ TypeOK
  /\ OneTask
  /\ LivePortsExact
  /\ Stack
  /\ MutexHeld
  /\ IsolateLife
  /\ NativeLife

-----------------------------------------------------------------------------
(* TypeOK in two halves: what decides where the handler is, and the        *)
(* messages with the history.                                              *)
Handler ==
  [kind : Kinds, live_ports : Nat, paused : Nat,
   should_pause_on_start : BOOLEAN, should_pause_on_exit : BOOLEAN,
   is_paused_on_start : BOOLEAN, is_paused_on_exit : BOOLEAN,
   paused_for_messages : BOOLEAN, task_running : BOOLEAN,
   delete_me : BOOLEAN, pool : BOOLEAN]

ControlOK ==
  /\ mutex \in Message \cup {Free}
  /\ port_state \in [Port -> Open \cup {"none", "closed"}]
  /\ h \in Handler
  /\ launched \in Nat
  /\ task \in {"new", "none", "NotifyPauseOnStart", "HandleMessages",
               "NotifyPauseOnExit", "EndCallback", "CloseAllPorts", "Delete"}
  /\ frames \in Seq(Frame)
  /\ closer \in {"none", "ClosePort", "RequestDeletion", "Delete"}
  /\ deleted \in Nat

MessagesOK ==
  /\ queue \in Seq(Events \cup Controls)
  /\ oob_queue \in Seq(OOBs)
  /\ notifications \in Nat
  /\ posted \in Seq(Events \cup OOBs)
  /\ sent \in SUBSET Message
  /\ taken \in Seq(Message)
  /\ failed \in BOOLEAN

(* TypeOK is the conjunction of its halves. *)
LEMMA Halves ==
  TypeOK <=> ControlOK /\ MessagesOK
BY Zenon DEF TypeOK, ControlOK, MessagesOK, Handler

(* The same after a step. *)
LEMMA HalvesNext ==
  ASSUME ControlOK', MessagesOK'
  PROVE  TypeOK'
BY Zenon DEF TypeOK, ControlOK, MessagesOK, Handler

(* The fields of a handler that decide where it is are those of k. *)
Same(g, k) ==
  /\ g.kind = k.kind
  /\ g.live_ports = k.live_ports
  /\ g.task_running = k.task_running
  /\ g.delete_me = k.delete_me
  /\ g.pool = k.pool

(* The types of the fields. *)
LEMMA HandlerFields ==
  ASSUME NEW g \in Handler
  PROVE  /\ g.kind \in Kinds
         /\ g.kind \in {"native", "pool", "embedder"}
         /\ g.live_ports \in Nat
         /\ g.paused \in Nat
         /\ g.task_running \in BOOLEAN
         /\ g.delete_me \in BOOLEAN
         /\ g.pool \in BOOLEAN
<1>1. g.kind \in Kinds
  BY Zenon DEF Handler
<1>2. g.kind \in {"native", "pool", "embedder"}
  BY Zenon, <1>1, HandlerAssumption
<1>3. g.live_ports \in Nat /\ g.paused \in Nat
  BY Zenon DEF Handler
<1>4. g.task_running \in BOOLEAN /\ g.delete_me \in BOOLEAN
  BY Zenon DEF Handler
<1>5. g.pool \in BOOLEAN
  BY Zenon DEF Handler
<1> QED
  BY Zenon, <1>1, <1>2, <1>3, <1>4, <1>5

(* The pauses do not touch those fields. *)
LEMMA Pauses ==
  ASSUME NEW g \in Handler, NEW b \in BOOLEAN, NEW n \in Nat
  PROVE  /\ LET k == [g EXCEPT !.paused = n]
            IN k \in Handler /\ Same(k, g)
         /\ LET k == [g EXCEPT !.should_pause_on_start = b]
            IN k \in Handler /\ Same(k, g)
         /\ LET k == [g EXCEPT !.should_pause_on_exit = b]
            IN k \in Handler /\ Same(k, g)
         /\ LET k == [g EXCEPT !.is_paused_on_start = b]
            IN k \in Handler /\ Same(k, g)
         /\ LET k == [g EXCEPT !.is_paused_on_exit = b]
            IN k \in Handler /\ Same(k, g)
         /\ LET k == [g EXCEPT !.paused_for_messages = b]
            IN k \in Handler /\ Same(k, g)
<1>1. LET k == [g EXCEPT !.paused = n] IN k \in Handler /\ Same(k, g)
  BY Zenon DEF Handler, Same
<1>2. LET k == [g EXCEPT !.should_pause_on_start = b]
      IN k \in Handler /\ Same(k, g)
  BY Zenon DEF Handler, Same
<1>3. LET k == [g EXCEPT !.should_pause_on_exit = b]
      IN k \in Handler /\ Same(k, g)
  BY Zenon DEF Handler, Same
<1>4. LET k == [g EXCEPT !.is_paused_on_start = b]
      IN k \in Handler /\ Same(k, g)
  BY Zenon DEF Handler, Same
<1>5. LET k == [g EXCEPT !.is_paused_on_exit = b]
      IN k \in Handler /\ Same(k, g)
  BY Zenon DEF Handler, Same
<1>6. LET k == [g EXCEPT !.paused_for_messages = b]
      IN k \in Handler /\ Same(k, g)
  BY Zenon DEF Handler, Same
<1> QED
  BY Zenon, <1>1, <1>2, <1>3, <1>4, <1>5, <1>6

(* The steps of a task set these fields. *)
LEMMA Launches ==
  ASSUME NEW g \in Handler, NEW b \in BOOLEAN
  PROVE  LET k == [g EXCEPT !.task_running = b]
         IN /\ k \in Handler
            /\ k.kind = g.kind /\ k.live_ports = g.live_ports
            /\ k.task_running = b
            /\ k.delete_me = g.delete_me /\ k.pool = g.pool
BY Zenon DEF Handler

(* Run and the end of TaskCallback also set pool_. *)
LEMMA PoolSet ==
  ASSUME NEW g \in Handler, NEW b \in BOOLEAN
  PROVE  LET k == [g EXCEPT !.pool = b, !.task_running = b]
         IN /\ k \in Handler
            /\ k.kind = g.kind /\ k.live_ports = g.live_ports
            /\ k.task_running = b
            /\ k.delete_me = g.delete_me /\ k.pool = b
BY Zenon DEF Handler

(* A change of the number of live ports. *)
LEMMA PortsCounted ==
  ASSUME NEW g \in Handler, NEW n \in Nat
  PROVE  LET k == [g EXCEPT !.live_ports = n]
         IN /\ k \in Handler
            /\ k.kind = g.kind /\ k.live_ports = n
            /\ k.task_running = g.task_running
            /\ k.delete_me = g.delete_me /\ k.pool = g.pool
BY Zenon DEF Handler

(* RequestDeletion leaves the deletion to the task. *)
LEMMA DeletionLeft ==
  ASSUME NEW g \in Handler
  PROVE  LET k == [g EXCEPT !.delete_me = TRUE]
         IN /\ k \in Handler
            /\ k.kind = g.kind /\ k.live_ports = g.live_ports
            /\ k.task_running = g.task_running
            /\ k.delete_me /\ k.pool = g.pool
BY Zenon DEF Handler

(* What the proofs use of the library's theorems: sets of ports are counted *)
(* one by one, and a set of naturals has a least element.  The lemmas      *)
(* assume these facts, and Library derives them at the end of the module:  *)
(* the theorems are in scope from there on only, as each of them makes     *)
(* every proof step that follows it slower to check.                       *)
LibraryFacts ==
  /\ \A S \in SUBSET Port :
       /\ Cardinality(S) \in Nat
       /\ \A x : x \notin S => Cardinality(S \cup {x}) = Cardinality(S) + 1
       /\ \A x \in S : Cardinality(S \ {x}) = Cardinality(S) - 1
       /\ Cardinality(S) = 0 <=> S = {}
  /\ \A T \in SUBSET Nat : T # {} => \E i \in T : \A j \in T : i <= j

(* Sets of ports are counted one by one. *)
LEMMA Counting ==
  ASSUME LibraryFacts, NEW S, S \subseteq Port
  PROVE  /\ Cardinality(S) \in Nat
         /\ \A x : x \notin S => Cardinality(S \cup {x}) = Cardinality(S) + 1
         /\ \A x \in S : Cardinality(S \ {x}) = Cardinality(S) - 1
         /\ Cardinality(S) = 0 <=> S = {}
BY Zenon DEF LibraryFacts

-----------------------------------------------------------------------------
(* The queues.                                                             *)

(* A set of naturals has a least element. *)
LEMMA Least ==
  ASSUME LibraryFacts, NEW T, T \subseteq Nat, T # {}
  PROVE  \E i \in T : \A j \in T : i <= j
BY Zenon DEF LibraryFacts

(* A message put between two parts of a queue. *)
LEMMA Spliced ==
  ASSUME NEW S, NEW p \in Seq(S), NEW m \in S, NEW r \in Seq(S)
  PROVE  /\ p \o <<m>> \o r \in Seq(S)
         /\ Len(p \o <<m>> \o r) = Len(p) + 1 + Len(r)
<1>1. <<m>> \in Seq(S) /\ Len(<<m>>) = 1
  OBVIOUS
<1>2. p \o <<m>> \in Seq(S) /\ Len(p \o <<m>>) = Len(p) + 1
  BY <1>1
<1> DEFINE t == p \o <<m>>
<1> HIDE DEF t
<1>3. t \in Seq(S) /\ Len(t) = Len(p) + 1
  BY Zenon, <1>2 DEF t
<1>4. t \o r \in Seq(S) /\ Len(t \o r) = Len(p) + 1 + Len(r)
  BY <1>3
<1> QED
  BY Zenon, <1>4 DEF t

(* Enqueue keeps the type of the queue. *)
LEMMA EnqueueType ==
  ASSUME LibraryFacts,
         NEW q \in Seq(Events \cup Controls), NEW m \in Events \cup Controls,
         NEW before_events \in BOOLEAN
  PROVE  /\ Enqueue(q, m, before_events) \in Seq(Events \cup Controls)
         /\ Len(Enqueue(q, m, before_events)) = Len(q) + 1
<1> DEFINE events == {i \in 1 .. Len(q) : q[i] \notin Controls}
           first == CHOOSE i \in events : \A j \in events : i <= j
<1>1. CASE ~before_events \/ events = {}
  BY <1>1 DEF Enqueue
<1>2. CASE before_events /\ events # {}
  <2>1. events \subseteq Nat
    OBVIOUS
  <2>2. \E i \in events : \A j \in events : i <= j
    BY Zenon, <1>2, <2>1, Least
  <2> HIDE DEF events
  <2>3. first \in events
    BY Zenon, <2>2
  <2> USE DEF events
  <2>4. first \in 1 .. Len(q)
    BY Zenon, <2>3
  <2> HIDE DEF first, events
  <2> DEFINE left == SubSeq(q, 1, first - 1)
             right == SubSeq(q, first, Len(q))
  <2>5. left \in Seq(Events \cup Controls) /\ Len(left) = first - 1
    BY <2>4
  <2>6. right \in Seq(Events \cup Controls) /\ Len(right) = Len(q) - first + 1
    BY <2>4
  <2> HIDE DEF left, right
  <2>7. /\ left \o <<m>> \o right \in Seq(Events \cup Controls)
        /\ Len(left \o <<m>> \o right) = Len(left) + 1 + Len(right)
    BY Zenon, <2>5, <2>6, Spliced
  <2>8. Len(left) + 1 + Len(right) = Len(q) + 1
    BY <2>4, <2>5, <2>6
  <2> USE DEF first, events, left, right
  <2> QED
    BY Zenon, <1>2, <2>7, <2>8 DEF Enqueue
<1> QED
  BY Zenon, <1>1, <1>2
-----------------------------------------------------------------------------
(* The stack of HandleMessages.                                            *)

(* fs may follow the stack while the outermost call goes on. *)
SameBase(fs) ==
  /\ fs \in Seq(Frame)
  /\ fs # <<>>
  /\ fs[1].site = frames[1].site
  /\ \A i \in DOMAIN fs :
       /\ i # 1 => fs[i].site \in InnerSites
       /\ Kind = "native" => fs[i].status = "kOK"
       /\ Waits(fs[i])

(* A call is a frame that has not looked for a message. *)
LEMMA NewFrameType ==
  ASSUME NEW site \in Sites, NEW allow \in BOOLEAN, NEW multiple \in BOOLEAN
  PROVE  LET f == NewFrame(site, allow, multiple)
         IN f \in Frame /\ f.site = site /\ f.status = "kOK" /\ Waits(f)
BY Zenon DEF NewFrame, Frame, Status, Waits

(* The same for a thread that waits. *)
LEMMA WaitFrameType ==
  LET f == [NewFrame("Wait", FALSE, FALSE) EXCEPT !.phase = "waiting"]
  IN f \in Frame /\ f.site = "Wait" /\ f.status = "kOK" /\ Waits(f)
<1> DEFINE n == NewFrame("Wait", FALSE, FALSE)
<1>1. n \in Frame /\ n.site = "Wait" /\ n.status = "kOK"
  BY Zenon, NewFrameType DEF Sites
<1> HIDE DEF n
<1>2. LET f == [n EXCEPT !.phase = "waiting"]
      IN f \in Frame /\ f.site = n.site /\ f.status = n.status
  BY Zenon, <1>1 DEF Frame
<1> QED
  BY Zenon, <1>1, <1>2 DEF n, Waits

(* The outermost call is the only one, or below the innermost one. *)
LEMMA OutermostIndex ==
  ASSUME NEW n \in Nat \ {0}
  PROVE  n = 1 \/ 1 \in 1 .. n - 1
OBVIOUS

(* Nothing is above the innermost call. *)
LEMMA NoneAbove ==
  ASSUME NEW n \in Nat, NEW j \in 1 .. n + 1
  PROVE  ~(j > n + 1)
OBVIOUS

(* The lengths of sequences. *)
LEMMA LengthType ==
  ASSUME NEW S, NEW q \in Seq(S)
  PROVE  Len(q) \in Nat
OBVIOUS

(* A sequence with another element at its end. *)
LEMMA AppendShape ==
  ASSUME NEW S, NEW n \in Nat \ {0}, NEW b \in Seq(S), Len(b) = n - 1, NEW f
  PROVE  /\ Append(b, f) # <<>>
         /\ DOMAIN Append(b, f) = 1 .. n
         /\ Append(b, f)[n] = f
         /\ \A i \in 1 .. n - 1 : Append(b, f)[i] = b[i]
<1> DEFINE fs == Append(b, f)
<1>1. b \in Seq(S \cup {f})
  OBVIOUS
<1>2. fs \in Seq(S \cup {f}) /\ Len(fs) = Len(b) + 1
  BY <1>1
<1>3. Len(fs) = n
  BY <1>2
<1>4. fs[Len(b) + 1] = f /\ \A i \in 1 .. Len(b) : fs[i] = b[i]
  BY <1>1
<1>5. Len(b) + 1 = n
  OBVIOUS
<1> HIDE DEF fs
<1>6. DOMAIN fs = 1 .. n /\ fs # <<>>
  BY <1>2, <1>3
<1> QED
  BY Zenon, <1>4, <1>5, <1>6 DEF fs

(* The innermost call. *)
LEMMA TopFrame ==
  ASSUME IInv, frames # <<>>
  PROVE  /\ Len(frames) \in Nat \ {0}
         /\ DOMAIN frames = 1 .. Len(frames)
         /\ Top \in Frame
         /\ Top.site \in InnerSites <=> Len(frames) > 1
         /\ Kind = "native" => Top.status = "kOK"
         /\ Waits(Top)
<1>1. frames \in Seq(Frame)
  BY Zenon DEF IInv, TypeOK
<1>2. Len(frames) \in Nat \ {0} /\ DOMAIN frames = 1 .. Len(frames)
  BY <1>1
<1>3. Top \in Frame
  BY <1>1, <1>2 DEF Top
<1>4. Top.site \in InnerSites <=> Len(frames) > 1
  BY <1>2 DEF IInv, Stack, Top, InnerSites, TaskSites
<1>5. (Kind = "native" => Top.status = "kOK") /\ Waits(Top)
  BY <1>2 DEF IInv, Stack, Top
<1> QED
  BY Zenon, <1>2, <1>3, <1>4, <1>5

(* The calls below the innermost one. *)
LEMMA BelowFrames ==
  ASSUME IInv, frames # <<>>
  PROVE  /\ Below \in Seq(Frame)
         /\ Len(Below) = Len(frames) - 1
         /\ \A i \in 1 .. Len(frames) - 1 : Below[i] = frames[i]
<1>1. frames \in Seq(Frame) /\ Len(frames) \in Nat \ {0}
  BY Zenon, TopFrame DEF IInv, TypeOK
<1>2. \A i \in 1 .. Len(frames) - 1 : frames[i] \in Frame
  BY <1>1
<1> DEFINE n == Len(frames) - 1
<1>3. n \in Nat /\ Below = SubSeq(frames, 1, n)
  BY <1>1 DEF Below
<1>4. \A i \in 1 .. n : frames[i] \in Frame
  BY Zenon, <1>2
<1> HIDE DEF n
<1>5. /\ SubSeq(frames, 1, n) \in Seq(Frame)
      /\ Len(SubSeq(frames, 1, n)) = n
      /\ \A i \in 1 .. n : SubSeq(frames, 1, n)[i] = frames[i]
  BY <1>3, <1>4
<1> QED
  BY Zenon, <1>3, <1>5 DEF n

(* A notification changes where a thread waits, and nothing else. *)
LEMMA NotifyKeeps ==
  ASSUME IInv, NotifyWaiter
  PROVE  /\ frames' \in Seq(Frame)
         /\ frames' = <<>> <=> frames = <<>>
         /\ DOMAIN frames' = DOMAIN frames
         /\ \A i \in DOMAIN frames : /\ frames'[i].site = frames[i].site
                                     /\ frames'[i].status = frames[i].status
                                     /\ Waits(frames[i]) => Waits(frames'[i])
<1>1. frames \in Seq(Frame)
  BY Zenon DEF IInv, TypeOK
<1>2. ASSUME NEW f \in Frame
      PROVE  LET k == [f EXCEPT !.phase = "notified"]
             IN k \in Frame /\ k.site = f.site /\ k.status = f.status
  BY Zenon DEF Frame
<1>3. ASSUME NEW i \in DOMAIN frames
      PROVE  /\ frames'[i] \in Frame
             /\ frames'[i].site = frames[i].site
             /\ frames'[i].status = frames[i].status
             /\ Waits(frames[i]) => Waits(frames'[i])
  <2>1. frames[i] \in Frame
    BY <1>1
  <2>2. CASE frames[i].phase = "waiting" /\ h.paused_for_messages
    <3>1. frames'[i] = [frames[i] EXCEPT !.phase = "notified"]
      BY Zenon, <2>2 DEF NotifyWaiter
    <3> QED
      BY Zenon, <1>2, <2>1, <2>2, <3>1 DEF Waits
  <2>3. CASE ~(frames[i].phase = "waiting" /\ h.paused_for_messages)
    <3>1. frames'[i] = frames[i]
      BY Zenon, <2>3 DEF NotifyWaiter
    <3> QED
      BY Zenon, <2>1, <3>1
  <2> QED
    BY Zenon, <2>2, <2>3
<1>4. frames' = [i \in 1 .. Len(frames) |-> frames'[i]]
  BY <1>1 DEF NotifyWaiter
<1>5. Len(frames) \in Nat /\ DOMAIN frames = 1 .. Len(frames)
  BY <1>1
<1>6. frames' \in [1 .. Len(frames) -> Frame]
  BY Zenon, <1>3, <1>4, <1>5
<1>7. frames' \in Seq(Frame) /\ Len(frames') = Len(frames)
  BY <1>5, <1>6
<1> QED
  BY <1>1, <1>3, <1>5, <1>6, <1>7

-----------------------------------------------------------------------------
(* Steps that preserve the invariant.                                      *)

(* Facts of the invariant by their names. *)
LEMMA Types ==
  ASSUME IInv
  PROVE  ControlOK /\ MessagesOK
BY Zenon, Halves DEF IInv

(* The handler of a state as a record. *)
LEMMA ThisHandler ==
  ASSUME IInv
  PROVE  /\ h \in Handler
         /\ Kind \in {"native", "pool", "embedder"}
         /\ h.kind \in {"native", "pool", "embedder"}
         /\ h.live_ports \in Nat /\ h.paused \in Nat
         /\ h.task_running \in BOOLEAN /\ h.delete_me \in BOOLEAN
         /\ h.pool \in BOOLEAN
<1>1. h \in Handler
  BY Zenon, Types DEF ControlOK
<1> QED
  BY Zenon, <1>1, HandlerFields DEF Kind

(* What TaskCallback does next, g being the value of h: it calls           *)
(* HandleMessages or the pause notification, returns or stops.  A native   *)
(* handler is not paused and returns only while its port is live.          *)
Outcome(g) ==
  \/ \E site \in TaskSites, allow, multiple \in BOOLEAN :
       CallHandleMessages(site, allow, multiple, g)
  \/ /\ Kind # "native"
     /\ \E where \in {"NotifyPauseOnStart", "NotifyPauseOnExit"} :
          CallOut(where, g)
  \/ (Kind = "native" => g.live_ports > 0) /\ TaskReturns(g)
  \/ Stop(g)

SomeOutcome == \E g \in Handler : Same(g, h) /\ Outcome(g)

(* A message may pause and resume, which leaves the handler where it is. *)
LEMMA EffectsKeep ==
  ASSUME IInv, NEW f, NEW g \in Effects(f)
  PROVE  g \in Handler /\ Same(g, h)
<1>1. h \in Handler /\ h.paused \in Nat
  BY Zenon, ThisHandler
<1>2. h \in Handler /\ Same(h, h)
  BY Zenon, <1>1 DEF Same
<1>3. LET k == [h EXCEPT !.paused = @ + 1] IN k \in Handler /\ Same(k, h)
  <2>1. h.paused + 1 \in Nat
    BY <1>1
  <2> QED
    BY Zenon, <1>1, <2>1, Pauses
<1>4. h.paused > 0 => LET k == [h EXCEPT !.paused = @ - 1]
                      IN k \in Handler /\ Same(k, h)
  <2>1. h.paused > 0 => h.paused - 1 \in Nat
    BY <1>1
  <2> QED
    BY Zenon, <1>1, <2>1, Pauses
<1>5. LET k == [h EXCEPT !.should_pause_on_start = FALSE]
      IN k \in Handler /\ Same(k, h)
  BY Zenon, <1>1, Pauses
<1>6. LET k == [h EXCEPT !.should_pause_on_exit = FALSE]
      IN k \in Handler /\ Same(k, h)
  BY Zenon, <1>1, Pauses
<1>7. \/ g = h
      \/ g = [h EXCEPT !.paused = @ + 1]
      \/ h.paused > 0 /\ g = [h EXCEPT !.paused = @ - 1]
      \/ g = [h EXCEPT !.should_pause_on_start = FALSE]
      \/ g = [h EXCEPT !.should_pause_on_exit = FALSE]
  BY Zenon DEF Effects
<1> QED
  BY Zenon, <1>2, <1>3, <1>4, <1>5, <1>6, <1>7, Zenon

-----------------------------------------------------------------------------
(* The inductive invariant.                                                *)

(* The start. *)
LEMMA InitInvariant ==
  ASSUME LibraryFacts, Init
  PROVE  IInv
<1>1. PICK kind \in Kinds, on_start \in BOOLEAN, on_exit \in BOOLEAN,
           used \in SUBSET (Port \ {MainPort}) :
        /\ kind # "pool" => ~on_start /\ ~on_exit
        /\ kind = "native" => used = {}
        /\ port_state = [p \in Port |->
             IF p \in used \/ (p = MainPort /\ kind = "native") THEN "live"
             ELSE IF p = MainPort THEN "new" ELSE "none"]
        /\ h = [kind |-> kind, live_ports |-> Cardinality(Live), paused |-> 0,
                should_pause_on_start |-> on_start,
                should_pause_on_exit |-> on_exit,
                is_paused_on_start |-> FALSE, is_paused_on_exit |-> FALSE,
                paused_for_messages |-> FALSE, task_running |-> kind = "native",
                delete_me |-> FALSE, pool |-> kind = "native"]
        /\ launched = IF kind = "native" THEN 1 ELSE 0
        /\ task = IF kind = "pool" THEN "new" ELSE "none"
  BY Zenon DEF Init
<1>2. Cardinality(Live) \in Nat
  BY Zenon, Counting DEF Live
<1>3. kind \in {"native", "pool", "embedder"}
  BY Zenon, HandlerAssumption
<1>4. /\ Kind = kind /\ h.live_ports = Cardinality(Live)
      /\ h.task_running <=> kind = "native"
      /\ h.pool <=> kind = "native"
      /\ ~h.delete_me
      /\ launched = IF kind = "native" THEN 1 ELSE 0
      /\ task = IF kind = "pool" THEN "new" ELSE "none"
  BY Zenon, <1>1 DEF Kind
<1>5. h \in Handler
  <2>1. (kind = "native") \in BOOLEAN
    BY Zenon
  <2> QED
    BY Zenon, <1>1, <1>2, <2>1 DEF Handler
<1>6. /\ mutex = Free /\ frames = <<>> /\ closer = "none" /\ deleted = 0
      /\ queue = <<>> /\ oob_queue = <<>> /\ notifications = 0
      /\ posted = <<>> /\ sent = {} /\ taken = <<>> /\ failed = FALSE
  BY Zenon DEF Init
<1>7. TypeOK
  <2>1. port_state \in [Port -> Open \cup {"none", "closed"}]
    BY Zenon, <1>1 DEF Open
  <2>2. frames \in Seq(Frame) /\ launched \in Nat
    BY <1>1, <1>6
  <2>3. ControlOK
    BY Zenon, <1>1, <1>5, <1>6, <2>1, <2>2 DEF ControlOK
  <2>4. MessagesOK
    <3>1. /\ queue \in Seq(Events \cup Controls) /\ oob_queue \in Seq(OOBs)
          /\ posted \in Seq(Events \cup OOBs) /\ taken \in Seq(Message)
      BY <1>6
    <3> QED
      BY Zenon, <1>6, <3>1 DEF MessagesOK
  <2> QED
    BY Zenon, <2>3, <2>4, Halves
<1>8. ~InTask
  BY Zenon, <1>1 DEF InTask
<1>9. OneTask /\ LivePortsExact /\ MutexHeld
  BY <1>4, <1>6, <1>8 DEF OneTask, LivePortsExact, MutexHeld
<1>10. Stack
  BY <1>1, <1>6 DEF Stack
<1>11. IsolateLife
  BY <1>3, <1>4, <1>6, <1>8 DEF IsolateLife
<1>12. NativeLife
  <2>1. kind = "native" => \A p \in Port \ {MainPort} : port_state[p] = "none"
    BY Zenon, <1>1
  <2>2. kind = "native" => port_state[MainPort] = "live"
    BY Zenon, <1>1, HandlerAssumption
  <2> QED
    BY Zenon, <1>1, <1>4, <1>6, <2>1, <2>2 DEF NativeLife, Undeleted
<1> QED
  BY Zenon, <1>7, <1>9, <1>10, <1>11, <1>12 DEF IInv

(* Every step.  First what the steps have in common, then HandleMessages,  *)
(* posting, the task and the isolate, the ports and the end of a handler,  *)
(* action by action.                                                       *)
LEMMA NextInvariant ==
  ASSUME LibraryFacts, IInv, [Next]_vars
  PROVE  IInv'
(* A call of HandleMessages by the isolate. *)
<1>PushKeeps.
    ASSUME frames # <<>>, NEW f \in Frame, f.site \in InnerSites,
           f.status = "kOK", Waits(f)
    PROVE  SameBase(Append(frames, f))
  <2> USE <1>PushKeeps
  <2>1. frames \in Seq(Frame) /\ Len(frames) \in Nat \ {0}
    BY Zenon, TopFrame DEF IInv, TypeOK
  <2> DEFINE fs == Append(frames, f)
  <2>2. /\ fs \in Seq(Frame) /\ Len(fs) = Len(frames) + 1 /\ fs # <<>>
        /\ DOMAIN fs = 1 .. Len(frames) + 1
        /\ \A i \in 1 .. Len(frames) : fs[i] = frames[i]
        /\ fs[Len(frames) + 1] = f
    BY <2>1
  <2> HIDE DEF fs
  <2>3. SameBase(fs)
    BY <2>1, <2>2 DEF SameBase, IInv, Stack
  <2> QED
    BY Zenon, <2>3 DEF fs

(* The innermost call goes on, or its wait becomes another call. *)
<1>ReplaceKeeps.
    ASSUME frames # <<>>, NEW f \in Frame,
           f.site = Top.site \/ {f.site, Top.site} \subseteq InnerSites,
           Kind = "native" => f.status = "kOK", Waits(f)
    PROVE  SameBase(Append(Below, f))
  <2> USE <1>ReplaceKeeps
  <2>1. /\ Len(frames) \in Nat \ {0} /\ Below \in Seq(Frame)
        /\ Len(Below) = Len(frames) - 1
        /\ \A i \in 1 .. Len(frames) - 1 : Below[i] = frames[i]
    BY Zenon, TopFrame, BelowFrames
  <2> DEFINE fs == Append(Below, f)
  <2>2. /\ fs \in Seq(Frame) /\ fs # <<>>
        /\ DOMAIN fs = 1 .. Len(frames)
        /\ \A i \in 1 .. Len(frames) - 1 : fs[i] = frames[i]
        /\ fs[Len(frames)] = f
    <3>1. fs \in Seq(Frame)
      BY <2>1
    <3>2. /\ fs # <<>> /\ DOMAIN fs = 1 .. Len(frames)
          /\ \A i \in 1 .. Len(frames) - 1 : fs[i] = Below[i]
          /\ fs[Len(frames)] = f
      BY <2>1, AppendShape
    <3> QED
      BY Zenon, <2>1, <3>1, <3>2
  <2>3. /\ Top.site \in InnerSites <=> Len(frames) > 1
        /\ Top = frames[Len(frames)]
        /\ DOMAIN frames = 1 .. Len(frames)
    BY Zenon, TopFrame DEF Top
  <2>4. f.site \in InnerSites <=> Len(frames) > 1
    BY Zenon, <2>3
  <2>5. fs[1].site = frames[1].site
    BY <2>1, <2>2, <2>3
  <2> HIDE DEF fs
  <2>6. SameBase(fs)
    BY <2>1, <2>2, <2>3, <2>4, <2>5 DEF SameBase, IInv, Stack
  <2> QED
    BY Zenon, <2>6 DEF fs

(* The isolate's call returns. *)
<1>UnwoundKeeps.
    ASSUME frames # <<>>, Top.site \in InnerSites, NEW status \in Status
    PROVE  SameBase(Unwound(status))
  <2> USE <1>UnwoundKeeps
  <2>1. /\ Len(frames) \in Nat \ {0} /\ Below \in Seq(Frame)
        /\ Len(frames) > 1
        /\ Len(Below) = Len(frames) - 1
        /\ \A i \in 1 .. Len(frames) - 1 : Below[i] = frames[i]
        /\ DOMAIN frames = 1 .. Len(frames)
    BY Zenon, TopFrame, BelowFrames
  <2> DEFINE n == Len(Below)
             f == [Below[n] EXCEPT !.unwinds = status]
             fs == Unwound(status)
  <2>2. n \in 1 .. Len(frames) - 1 /\ Below[n] = frames[n]
    BY <2>1
  <2>3. f \in Frame /\ f.site = frames[n].site /\ f.status = frames[n].status
        /\ f.phase = frames[n].phase
    <3>1. Below[n] \in Frame
      BY <2>1, <2>2
    <3> QED
      BY Zenon, <2>2, <3>1 DEF Frame
  <2> HIDE DEF f
  <2>4. fs = [Below EXCEPT ![n] = f]
    BY Zenon DEF f, Unwound
  <2>5. fs \in Seq(Frame) /\ DOMAIN fs = 1 .. n /\ fs # <<>>
    BY <2>1, <2>2, <2>3, <2>4
  <2>6. \A i \in 1 .. n : /\ fs[i].site = frames[i].site
                          /\ fs[i].status = frames[i].status
                          /\ fs[i].phase = frames[i].phase
    BY <2>1, <2>2, <2>3, <2>4
  <2> HIDE DEF fs, n
  <2>7. SameBase(fs)
    <3>1. 1 \in 1 .. n /\ \A i \in 1 .. n : i \in DOMAIN frames
      BY <2>1, <2>2
    <3>2. \A i \in DOMAIN frames :
            /\ i # 1 => frames[i].site \in InnerSites
            /\ Kind = "native" => frames[i].status = "kOK"
            /\ Waits(frames[i])
      BY Zenon DEF IInv, Stack
    <3>3. \A i \in 1 .. n : Waits(fs[i])
      BY Zenon, <2>6, <3>1, <3>2 DEF Waits
    <3> QED
      BY Zenon, <2>5, <2>6, <3>1, <3>2, <3>3 DEF SameBase
  <2> QED
    BY Zenon, <2>7 DEF fs

(* A step within the outermost call of HandleMessages. *)
<1>InnerPreserves.
    ASSUME frames # <<>>, h' \in Handler, Same(h', h),
           SameBase(frames'), MessagesOK',
           UNCHANGED <<mutex, port_state, launched, task, closer, deleted>>
    PROVE  IInv'
  <2> USE <1>InnerPreserves
  <2>1. Kind' = Kind /\ Live' = Live /\ NoPortOpen' = NoPortOpen /\ InTask' = InTask
    BY Zenon DEF Kind, Same, Live, NoPortOpen, InTask
  <2>2. TypeOK'
    <3>1. ControlOK'
      BY Zenon, Types DEF ControlOK, SameBase
    <3> QED
      BY Zenon, <3>1, HalvesNext
  <2>3. OneTask' /\ LivePortsExact' /\ MutexHeld'
    BY Zenon, <2>1 DEF IInv, OneTask, LivePortsExact, MutexHeld, Same
  <2>4. Stack'
    <3>1. 1 \in DOMAIN frames
      BY TopFrame
    <3>2. \A i \in DOMAIN frames' :
         /\ i = 1 => frames'[i].site \in (IF Kind = "embedder" THEN {"Next"}
                                          ELSE TaskSites)
         /\ i # 1 => frames'[i].site \in InnerSites
         /\ Kind = "native" => frames'[i].status = "kOK"
         /\ Waits(frames'[i])
      BY Zenon, <3>1 DEF IInv, Stack, SameBase
    <3>3. IF Kind = "embedder" THEN frames' # <<>> => task = "none"
          ELSE frames' # <<>> <=> task = "HandleMessages"
      BY Zenon DEF IInv, Stack, SameBase
    <3> QED
      BY Zenon, <2>1, <3>2, <3>3 DEF Stack, Waits
  <2>5. IsolateLife'
    BY Zenon, <2>1 DEF IInv, IsolateLife, Same
  <2>6. NativeLife'
    BY Zenon, <2>1 DEF IInv, NativeLife, Closing, Undeleted, Same
  <2> QED
    BY Zenon, <2>2, <2>3, <2>4, <2>5, <2>6 DEF IInv

(* TaskCallback looks at the messages. *)
<1>FinishOutcome.
    ASSUME NEW g \in Handler, Same(g, h), NEW status \in Status,
           Kind = "native" => status = "kOK", Finish(status, g)
    PROVE  SomeOutcome
  <2> USE <1>FinishOutcome
  <2>1. Outcome(g)
    BY Zenon DEF Finish, Outcome, ShouldPauseOnExit, Allowed
  <2> QED
    BY Zenon, <2>1 DEF SomeOutcome

(* The same from the test for pending messages on. *)
<1>PendingOutcome.
    ASSUME NEW g \in Handler, Same(g, h), NEW status \in Status,
           Kind = "native" => status = "kOK", HandlePending(status, g)
    PROVE  SomeOutcome
  <2> USE <1>PendingOutcome
  <2>1. CASE status = "kOK"
    <3>1. Outcome(g)
      BY Zenon, <2>1 DEF HandlePending, Outcome, TaskSites
    <3> QED
      BY Zenon, <3>1 DEF SomeOutcome
  <2>2. CASE status # "kOK"
    BY Zenon, <2>2, <1>FinishOutcome DEF HandlePending
  <2> QED
    BY Zenon, <2>1, <2>2

(* The same from the test for a pause on exit on. *)
<1>PausedOnExitOutcome.
    ASSUME NEW g \in Handler, Same(g, h), NEW status \in Status,
           Kind = "native" => status = "kOK", CheckPausedOnExit(status, g)
    PROVE  SomeOutcome
  <2> USE <1>PausedOnExitOutcome
  <2>1. CASE g.is_paused_on_exit
    <3>1. Outcome(g)
      BY Zenon, <2>1 DEF CheckPausedOnExit, Outcome, TaskSites
    <3> QED
      BY Zenon, <3>1 DEF SomeOutcome
  <2>2. CASE ~g.is_paused_on_exit
    BY Zenon, <2>2, <1>PendingOutcome DEF CheckPausedOnExit
  <2> QED
    BY Zenon, <2>1, <2>2

(* The same when HandleMessages returns. *)
<1>AfterOutcome.
    ASSUME NEW g \in Handler, Same(g, h), NEW status \in Status,
           NEW site \in TaskSites, Kind = "native" => status = "kOK",
           AfterHandleMessages(site, status, g)
    PROVE  SomeOutcome
  <2> USE <1>AfterOutcome
  <2> DEFINE started == [g EXCEPT !.is_paused_on_start = FALSE]
             resumed == [g EXCEPT !.is_paused_on_exit = FALSE]
  <2>1. started \in Handler /\ Same(started, h)
    <3>1. started \in Handler /\ Same(started, g)
      BY Zenon, Pauses
    <3> QED
      BY Zenon, <3>1 DEF Same
  <2>2. resumed \in Handler /\ Same(resumed, h)
    <3>1. resumed \in Handler /\ Same(resumed, g)
      BY Zenon, Pauses
    <3> QED
      BY Zenon, <3>1 DEF Same
  <2>3. /\ site = "PausedOnStart" =>
             IF ShouldPauseOnStart(status, g) THEN TaskReturns(g)
             ELSE CheckPausedOnExit(status, started)
        /\ site = "PausedOnExit" =>
             IF ShouldPauseOnExit(status, g) THEN TaskReturns(g)
             ELSE HandlePending(status, resumed)
        /\ site = "Main" => Finish(status, g)
        /\ site = "Exiting" =>
             IF ShouldPauseOnExit(status, g) THEN TaskReturns(g)
             ELSE Stop(resumed)
    BY Zenon DEF AfterHandleMessages
  <2> HIDE DEF started, resumed
  <2>4. ASSUME ShouldPauseOnStart(status, g) \/ ShouldPauseOnExit(status, g),
               TaskReturns(g)
        PROVE  SomeOutcome
    <3>1. Outcome(g)
      BY Zenon, <2>4 DEF Outcome, ShouldPauseOnStart, ShouldPauseOnExit, Allowed
    <3> QED
      BY Zenon, <3>1 DEF SomeOutcome
  <2>5. CASE site = "PausedOnStart"
    BY Zenon, <2>1, <2>3, <2>4, <2>5, <1>PausedOnExitOutcome
  <2>6. CASE site = "PausedOnExit"
    BY Zenon, <2>2, <2>3, <2>4, <2>6, <1>PendingOutcome
  <2>7. CASE site = "Main"
    BY Zenon, <2>3, <2>7, <1>FinishOutcome
  <2>8. CASE site = "Exiting"
    <3>1. Stop(resumed) => Outcome(resumed)
      BY Zenon DEF Outcome
    <3> QED
      BY Zenon, <2>2, <2>3, <2>4, <2>8, <3>1 DEF SomeOutcome
  <2> QED
    BY Zenon, <2>5, <2>6, <2>7, <2>8 DEF TaskSites

(* Only a task, once it has ended, is in the way of another one. *)
<1>TaskPreserves.
    ASSUME SomeOutcome, MessagesOK',
           \/ task = "none" /\ launched > 0 /\ launched' = launched - 1
           \/ InTask /\ launched' = launched,
           UNCHANGED <<mutex, port_state, closer, deleted>>
    PROVE  IInv'
  <2> USE <1>TaskPreserves
  <2>1. PICK g \in Handler : Same(g, h) /\ Outcome(g)
    BY Zenon DEF SomeOutcome
  <2>2. /\ h.task_running
        /\ launched' = 0
        /\ Kind # "embedder"
        /\ deleted = 0
        /\ Kind = "pool" => h.pool
    <3>1. h.task_running /\ launched \in Nat /\ launched' = 0
      BY Types DEF IInv, OneTask, ControlOK, InTask
    <3>2. Kind \in {"native", "pool", "embedder"} /\ h.pool \in BOOLEAN
      BY Zenon, ThisHandler
    <3>3. Kind # "embedder" /\ (Kind = "pool" => h.pool /\ deleted = 0)
      BY Zenon, <3>1, <3>2 DEF IInv, IsolateLife
    <3>4. Kind = "native" => deleted = 0
      BY Zenon, <3>1 DEF IInv, NativeLife, Closing, Undeleted
    <3> QED
      BY Zenon, <3>1, <3>2, <3>3, <3>4
  <2>3. /\ Live' = Live /\ NoPortOpen' = NoPortOpen
        /\ g.kind = Kind /\ g.live_ports = Cardinality(Live)
        /\ g.task_running /\ g.pool = h.pool /\ g.delete_me = h.delete_me
        /\ g.pool \in BOOLEAN /\ g.delete_me \in BOOLEAN
        /\ Kind \in {"native", "pool"}
    BY Zenon, <2>1, <2>2, ThisHandler, HandlerFields
    DEF Live, NoPortOpen, Same, Kind, IInv, LivePortsExact
  <2>4. ASSUME h' \in Handler, h'.kind = Kind, h'.live_ports = Cardinality(Live),
               task' \in {"none", "NotifyPauseOnStart", "HandleMessages",
                          "NotifyPauseOnExit", "EndCallback", "Delete"},
               frames' \in Seq(Frame),
               h'.task_running <=> InTask',
               Stack',
               h'.delete_me = h.delete_me,
               Kind = "pool" => /\ h'.pool <=> task' = "none" \/ InTask'
                                /\ task' # "Delete",
               Kind = "native" => \/ task' \in {"none", "HandleMessages"}
                                     /\ (task' = "none" /\ Live = {} => ~h.delete_me)
                                  \/ task' = "Delete" /\ h.delete_me
        PROVE  IInv'
    <3>1. Kind' = Kind
      BY Zenon, <2>4 DEF Kind
    <3>2. TypeOK'
      <4>1. ControlOK'
        BY Zenon, <2>2, <2>4, Types DEF ControlOK
      <4> QED
        BY Zenon, <4>1, HalvesNext
    <3>3. OneTask' /\ LivePortsExact' /\ MutexHeld'
      <4>1. OneTask'
        BY <2>2, <2>4 DEF OneTask
      <4>2. LivePortsExact'
        BY Zenon, <2>3, <2>4 DEF LivePortsExact
      <4>3. MutexHeld'
        BY Zenon, <2>3 DEF IInv, MutexHeld
      <4> QED
        BY Zenon, <4>1, <4>2, <4>3
    <3>4. IsolateLife'
      BY <2>2, <2>3, <2>4, <3>1 DEF IInv, IsolateLife, InTask
    <3>5. NativeLife'
      <4>1. SUFFICES ASSUME Kind = "native"
                     PROVE  NativeLife'
        BY Zenon, <3>1 DEF NativeLife
      <4>2. \A p \in Port \ {MainPort} : port_state'[p] = "none"
        BY Zenon, <4>1 DEF IInv, NativeLife
      <4>3. CASE port_state[MainPort] = "live"
        BY Zenon, <2>2, <2>4, <3>1, <4>1, <4>2, <4>3
           DEF IInv, NativeLife, Undeleted
      <4>4. CASE port_state[MainPort] = "closed"
        <5>1. Live = {}
          BY Zenon, <4>1, <4>4 DEF IInv, NativeLife, Live
        <5>2. Closing /\ task # "Delete"
          BY Zenon, <2>2, <4>1, <4>4 DEF IInv, NativeLife, Closing, InTask
        <5>3. Closing'
          BY Zenon, <2>2, <2>4, <4>1, <5>1, <5>2 DEF Closing, Undeleted, InTask
        <5> QED
          BY Zenon, <2>4, <3>1, <4>1, <4>2, <4>4, <5>3 DEF NativeLife
      <4> QED
        BY Zenon, <4>1, <4>3, <4>4 DEF IInv, NativeLife
    <3> QED
      BY Zenon, <2>4, <3>2, <3>3, <3>4, <3>5 DEF IInv
  <2>5. ASSUME NEW site \in TaskSites, NEW allow \in BOOLEAN,
               NEW multiple \in BOOLEAN,
               CallHandleMessages(site, allow, multiple, g)
        PROVE  IInv'
    <3> DEFINE f == NewFrame(site, allow, multiple)
    <3>1. f \in Frame /\ f.site = site /\ f.status = "kOK" /\ Waits(f)
      BY NewFrameType DEF TaskSites, Sites
    <3> HIDE DEF f
    <3>2. h' = g /\ task' = "HandleMessages" /\ frames' = <<f>>
      BY Zenon, <2>5 DEF CallHandleMessages, f
    <3>3. frames' \in Seq(Frame) /\ frames' # <<>> /\ DOMAIN frames' = {1}
          /\ frames'[1] = f
      BY <3>1, <3>2
    <3>4. Kind' = Kind /\ InTask'
      BY Zenon, <2>3, <3>2 DEF Kind, InTask
    <3>5. Stack'
      BY Zenon, <2>3, <3>1, <3>2, <3>3, <3>4 DEF Stack, Waits
    <3> QED
      BY Zenon, <2>1, <2>2, <2>3, <2>4, <3>2, <3>3, <3>4, <3>5
  <2>6. ASSUME Kind # "native",
               NEW where \in {"NotifyPauseOnStart", "NotifyPauseOnExit"},
               CallOut(where, g)
        PROVE  IInv'
    <3>1. h' = g /\ task' = where /\ frames' = <<>>
      BY Zenon, <2>6 DEF CallOut
    <3>2. Kind' = Kind /\ InTask' /\ frames' \in Seq(Frame)
      BY <2>3, <3>1 DEF Kind, InTask
    <3>3. Stack'
      BY <2>3, <3>1, <3>2 DEF Stack
    <3> QED
      BY Zenon, <2>1, <2>2, <2>3, <2>4, <2>6, <3>1, <3>2, <3>3
  <2>7. ASSUME Kind = "native" => g.live_ports > 0, TaskReturns(g)
        PROVE  IInv'
    <3> DEFINE k == [g EXCEPT !.task_running = FALSE]
    <3>1. /\ k \in Handler /\ k.kind = g.kind /\ k.live_ports = g.live_ports
          /\ ~k.task_running /\ k.delete_me = g.delete_me /\ k.pool = g.pool
      BY Zenon, Launches
    <3> HIDE DEF k
    <3>2. h' = k /\ task' = "none" /\ frames' = <<>>
      BY Zenon, <2>7 DEF TaskReturns, CallOut, k
    <3>3. Kind' = Kind /\ ~InTask' /\ frames' \in Seq(Frame)
      BY <2>3, <3>1, <3>2 DEF Kind, InTask
    <3>4. Stack'
      BY <2>3, <3>2, <3>3 DEF Stack
    <3>5. Kind = "native" => Live # {}
      <4>1. Live \subseteq Port
        BY Zenon DEF Live
      <4>2. Live = {} => Cardinality(Live) = 0
        BY Zenon, <4>1, Counting
      <4> QED
        BY <2>3, <2>7, <4>2
    <3> QED
      BY Zenon, <2>2, <2>3, <2>4, <3>1, <3>2, <3>3, <3>4, <3>5
  <2>8. ASSUME Stop(g)
        PROVE  IInv'
    <3> DEFINE k == [g EXCEPT !.pool = FALSE, !.task_running = FALSE]
    <3>1. /\ k \in Handler /\ k.kind = g.kind /\ k.live_ports = g.live_ports
          /\ ~k.task_running /\ k.delete_me = g.delete_me /\ ~k.pool
      BY Zenon, PoolSet
    <3> HIDE DEF k
    <3>2. /\ h' = k /\ frames' = <<>>
          /\ task' = IF Kind = "pool" THEN "EndCallback"
                     ELSE IF g.delete_me THEN "Delete" ELSE "none"
      BY Zenon, <2>8 DEF Stop, CallOut, k
    <3>3. Kind' = Kind /\ ~InTask' /\ frames' \in Seq(Frame)
      BY <2>3, <3>1, <3>2 DEF Kind, InTask
    <3>4. Stack'
      BY <2>3, <3>2, <3>3 DEF Stack
    <3> QED
      BY Zenon, <2>2, <2>3, <2>4, <3>1, <3>2, <3>3, <3>4
  <2> QED
    BY Zenon, <2>1, <2>5, <2>6, <2>7, <2>8 DEF Outcome

(* Dart_HandleMessage returns to the embedder. *)
<1>EmbedderReturns.
    ASSUME frames # <<>>, Top.site = "Next", h' \in Handler, Same(h', h),
           frames' = <<>>, MessagesOK',
           UNCHANGED <<mutex, port_state, launched, task, closer, deleted>>
    PROVE  IInv'
  <2> USE <1>EmbedderReturns
  <2>1. Kind' = Kind /\ Live' = Live /\ NoPortOpen' = NoPortOpen /\ InTask' = InTask
    BY Zenon DEF Kind, Same, Live, NoPortOpen, InTask
  <2>2. Kind = "embedder"
    <3>1. Len(frames) \in DOMAIN frames
      BY TopFrame
    <3> QED
      BY Zenon, <3>1 DEF IInv, Stack, Top, TaskSites, InnerSites
  <2>3. TypeOK'
    <3>1. frames' \in Seq(Frame)
      OBVIOUS
    <3>2. ControlOK'
      BY Zenon, <3>1, Types DEF ControlOK
    <3> QED
      BY Zenon, <3>2, HalvesNext
  <2>4. OneTask' /\ LivePortsExact' /\ MutexHeld'
    BY Zenon, <2>1 DEF IInv, OneTask, LivePortsExact, MutexHeld, Same
  <2>5. Stack'
    BY <2>1, <2>2 DEF Stack
  <2>6. IsolateLife'
    BY Zenon, <2>1 DEF IInv, IsolateLife, Same
  <2>7. NativeLife'
    BY Zenon, <2>1, <2>2 DEF NativeLife
  <2> QED
    BY Zenon, <2>3, <2>4, <2>5, <2>6, <2>7 DEF IInv

(* The innermost HandleMessages returns. *)
<1>ReturnStep.
    ASSUME frames # <<>>, NEW g \in Handler, Same(g, h),
           NEW status \in Status, Kind = "native" => status = "kOK",
           Return(status, g), MessagesOK',
           UNCHANGED <<mutex, port_state, launched, closer, deleted>>
    PROVE  IInv'
  <2> USE <1>ReturnStep
  <2> DEFINE site == Top.site
  <2>1. /\ site \in {"OOB", "WaitDone"} =>
             frames' = Unwound(status) /\ h' = g /\ UNCHANGED task
        /\ site = "Next" => frames' = <<>> /\ h' = g /\ UNCHANGED task
        /\ site = "Wait" =>
             /\ IF status # "kOK"
                THEN /\ frames' = Unwound(status)
                     /\ h' = [g EXCEPT !.paused_for_messages = FALSE]
                ELSE IF queue = <<>> /\ oob_queue = <<>>
                     THEN WaitsAgain(g) ELSE WaitEnds(g)
             /\ UNCHANGED task
        /\ site \in TaskSites => AfterHandleMessages(site, status, g)
    BY Zenon DEF Return, TaskSites
  <2> HIDE DEF site
  <2>2. site \in Sites
    BY Zenon, TopFrame DEF Frame, site
  <2>3. CASE site \in {"OOB", "WaitDone"}
    <3>1. SameBase(frames')
      BY Zenon, <2>1, <2>3, <1>UnwoundKeeps DEF site, InnerSites
    <3> QED
      BY Zenon, <2>1, <2>3, <3>1, <1>InnerPreserves
  <2>4. CASE site = "Next"
    BY Zenon, <2>1, <2>4, <1>EmbedderReturns DEF site
  <2>5. CASE site = "Wait"
    <3> DEFINE k == [g EXCEPT !.paused_for_messages = FALSE]
    <3>1. k \in Handler /\ Same(k, h)
      <4>1. k \in Handler /\ Same(k, g)
        BY Zenon, Pauses
      <4> QED
        BY Zenon, <4>1 DEF Same
    <3>2. CASE status # "kOK"
      <4>1. SameBase(frames')
        BY Zenon, <2>1, <2>5, <3>2, <1>UnwoundKeeps DEF site, InnerSites
      <4>2. h' = k /\ UNCHANGED task
        BY Zenon, <2>1, <2>5, <3>2
      <4> HIDE DEF k
      <4> QED
        BY Zenon, <3>1, <4>1, <4>2, <1>InnerPreserves
    <3>3. CASE status = "kOK" /\ queue = <<>> /\ oob_queue = <<>>
      <4> DEFINE f == [NewFrame("Wait", FALSE, FALSE) EXCEPT !.phase = "waiting"]
      <4>1. f \in Frame /\ f.site = "Wait" /\ f.status = "kOK" /\ Waits(f)
        BY Zenon, WaitFrameType
      <4>2. frames' = Append(Below, f) /\ h' = g /\ UNCHANGED task
        BY Zenon, <2>1, <2>5, <3>3 DEF WaitsAgain
      <4> HIDE DEF f
      <4>3. SameBase(frames')
        BY Zenon, <2>5, <4>1, <4>2, <1>ReplaceKeeps DEF site
      <4> QED
        BY Zenon, <4>2, <4>3, <1>InnerPreserves
    <3>4. CASE status = "kOK" /\ ~(queue = <<>> /\ oob_queue = <<>>)
      <4> DEFINE f == NewFrame("WaitDone", TRUE, TRUE)
      <4>1. f \in Frame /\ f.site = "WaitDone" /\ f.status = "kOK" /\ Waits(f)
        BY Zenon, NewFrameType DEF Sites
      <4>2. frames' = Append(Below, f) /\ h' = k /\ UNCHANGED task
        BY Zenon, <2>1, <2>5, <3>4 DEF WaitEnds
      <4> HIDE DEF f, k
      <4>3. SameBase(frames')
        BY Zenon, <2>5, <4>1, <4>2, <1>ReplaceKeeps DEF site, InnerSites
      <4> QED
        BY Zenon, <3>1, <4>2, <4>3, <1>InnerPreserves
    <3> QED
      BY Zenon, <3>2, <3>3, <3>4
  <2>6. CASE site \in TaskSites
    <3>1. SomeOutcome
      BY Zenon, <2>1, <2>6, <1>AfterOutcome
    <3>2. Kind # "embedder"
      <4>1. Len(frames) \in DOMAIN frames
        BY TopFrame
      <4> QED
        BY Zenon, <2>6, <4>1 DEF IInv, Stack, Top, TaskSites, InnerSites, site
    <3>3. InTask
      BY Zenon, <3>2 DEF IInv, Stack, InTask
    <3> QED
      BY Zenon, <3>1, <3>3, <1>TaskPreserves
  <2> QED
    BY Zenon, <2>2, <2>3, <2>4, <2>5, <2>6 DEF Sites, TaskSites

(* The innermost HandleMessages takes the next message, or returns. *)
<1>NextMessageStep.
    ASSUME frames # <<>>, NEW f \in Frame, f.site = Top.site,
           Kind = "native" => f.status = "kOK",
           NEW g \in Handler, Same(g, h), NextMessage(f, g),
           UNCHANGED <<mutex, port_state, launched, closer, notifications,
                       deleted, posted, sent>>
    PROVE  IInv'
  <2> USE <1>NextMessageStep
  <2> DEFINE normal == f.status = "kOK" /\ f.allow /\ g.paused = 0
             next == DequeueMessage(normal)
  <2>1. CASE next = <<>>
    <3>1. Return(f.status, g) /\ UNCHANGED <<queue, oob_queue, taken>>
      BY Zenon, <2>1 DEF NextMessage
    <3>2. failed' \in BOOLEAN
      BY Zenon, <3>1, Types DEF Return, MessagesOK
    <3>3. MessagesOK'
      BY Zenon, <3>1, <3>2, Types DEF MessagesOK
    <3>4. f.status \in Status
      BY Zenon DEF Frame
    <3> QED
      BY Zenon, <3>1, <3>3, <3>4, <1>ReturnStep
  <2>2. CASE next # <<>>
    <3> DEFINE m == next[1]
               k == [f EXCEPT !.phase = "handling", !.message = m]
    <3>1. /\ frames' = Append(Below, k)
          /\ h' = g
          /\ taken' = Append(taken, m)
          /\ IF m \in OOBs
             THEN oob_queue' = Tail(oob_queue) /\ UNCHANGED queue
             ELSE queue' = Tail(queue) /\ UNCHANGED oob_queue
          /\ UNCHANGED <<task, failed>>
      BY Zenon, <2>2 DEF NextMessage
    <3>2. \/ oob_queue # <<>> /\ m = Head(oob_queue)
          \/ queue # <<>> /\ m = Head(queue)
      BY Zenon, <2>2 DEF DequeueMessage
    <3> HIDE DEF m, next
    <3>3. queue \in Seq(Events \cup Controls) /\ oob_queue \in Seq(OOBs)
      BY Zenon, Types DEF MessagesOK
    <3>4. \/ oob_queue # <<>> /\ m \in OOBs
          \/ queue # <<>> /\ m \in Events \cup Controls
      BY <3>2, <3>3
    <3>5. m \in Message /\ (m \in OOBs => oob_queue # <<>>)
          /\ (m \notin OOBs => queue # <<>>)
      BY Zenon, <3>4, HandlerAssumption DEF Message
    <3>6. /\ queue' \in Seq(Events \cup Controls)
          /\ oob_queue' \in Seq(OOBs)
      <4>1. queue # <<>> => Tail(queue) \in Seq(Events \cup Controls)
        BY <3>3
      <4>2. oob_queue # <<>> => Tail(oob_queue) \in Seq(OOBs)
        BY <3>3
      <4> QED
        BY Zenon, <3>1, <3>3, <3>5, <4>1, <4>2
    <3>7. taken' \in Seq(Message)
      <4>1. taken \in Seq(Message)
        BY Zenon, Types DEF MessagesOK
      <4>2. taken' = Append(taken, m) /\ m \in Message
        BY Zenon, <3>1, <3>5
      <4> QED
        BY <4>1, <4>2
    <3>8. MessagesOK'
      BY Zenon, <3>1, <3>6, <3>7, Types DEF MessagesOK
    <3>9. k \in Frame /\ k.site = f.site /\ k.status = f.status /\ Waits(k)
      BY Zenon, <3>5 DEF Frame, Waits
    <3> HIDE DEF k
    <3>10. SameBase(frames')
      BY Zenon, <3>1, <3>9, <1>ReplaceKeeps
    <3> QED
      BY Zenon, <3>1, <3>8, <3>10, <1>InnerPreserves
  <2> QED
    BY Zenon, <2>1, <2>2

(* EnterHandleMessages. *)
<1>EnterHandleMessagesStep.
    ASSUME EnterHandleMessages
    PROVE  IInv'
  <2> USE <1>EnterHandleMessagesStep
  <2>1. h \in Handler /\ Same(h, h)
    BY Zenon, ThisHandler DEF Same
  <2> QED
    BY Zenon, <2>1, TopFrame, <1>NextMessageStep DEF EnterHandleMessages

(* MessageHandled. *)
<1>MessageHandledStep.
    ASSUME MessageHandled
    PROVE  IInv'
  <2> USE <1>MessageHandledStep
  <2>1. PICK status \in Outcomes(Top), g \in Effects(Top) :
          LET worst == IF "kShutdown" \in {status, Top.status} THEN "kShutdown"
                       ELSE IF "kError" \in {status, Top.status} THEN "kError"
                       ELSE "kOK"
              once == Top.message \notin OOBs /\ ~Top.multiple
          IN IF status = "kShutdown"
             THEN /\ oob_queue' = <<>>
                  /\ Return(worst, g)
                  /\ UNCHANGED <<queue, taken>>
             ELSE NextMessage([Top EXCEPT !.status = worst,
                                          !.allow = @ /\ ~once,
                                          !.unwinds = "kOK"], g)
    BY Zenon DEF MessageHandled
  <2> DEFINE worst == IF "kShutdown" \in {status, Top.status} THEN "kShutdown"
                      ELSE IF "kError" \in {status, Top.status} THEN "kError"
                      ELSE "kOK"
             once == Top.message \notin OOBs /\ ~Top.multiple
             f == [Top EXCEPT !.status = worst, !.allow = @ /\ ~once,
                              !.unwinds = "kOK"]
  <2>2. frames # <<>>
    BY Zenon DEF MessageHandled, Handling
  <2>3. g \in Handler /\ Same(g, h)
    BY Zenon, EffectsKeep
  <2>4. worst \in Status
    BY Zenon DEF Status
  <2>5. Kind = "native" => worst = "kOK"
    BY Zenon, <2>2, TopFrame DEF Outcomes
  <2> HIDE DEF worst
  <2>6. CASE status = "kShutdown"
    <3>1. oob_queue' = <<>> /\ Return(worst, g) /\ UNCHANGED <<queue, taken>>
      BY Zenon, <2>1, <2>6 DEF worst
    <3>2. failed' \in BOOLEAN
      BY Zenon, <3>1, Types DEF Return, MessagesOK
    <3>3. oob_queue' \in Seq(OOBs)
      BY <3>1
    <3>4. MessagesOK'
      BY Zenon, <3>1, <3>2, <3>3, Types DEF MessagesOK, MessageHandled
    <3> QED
      BY Zenon, <2>2, <2>3, <2>4, <2>5, <3>1, <3>4, <1>ReturnStep
         DEF MessageHandled
  <2>7. CASE status # "kShutdown"
    <3>1. NextMessage(f, g)
      BY Zenon, <2>1, <2>7 DEF worst
    <3>2. f \in Frame /\ f.site = Top.site /\ f.status = worst
      <4>1. Top \in Frame /\ (Top.allow /\ ~once) \in BOOLEAN
        BY Zenon, <2>2, TopFrame
      <4> DEFINE allow == Top.allow /\ ~once
      <4> HIDE DEF once, allow
      <4>2. LET k == [Top EXCEPT !.status = worst, !.allow = allow,
                                 !.unwinds = "kOK"]
            IN k \in Frame /\ k.site = Top.site /\ k.status = worst
        BY Zenon, <2>4, <4>1 DEF Frame, Status, allow
      <4> QED
        BY Zenon, <4>2 DEF allow
    <3> HIDE DEF f
    <3> QED
      BY Zenon, <2>2, <2>3, <2>5, <3>1, <3>2, <1>NextMessageStep
         DEF MessageHandled
  <2> QED
    BY Zenon, <2>6, <2>7

(* Post changes the queues, wakes a waiting thread and starts a task if    *)
(* none is running.                                                        *)
<1>PostStep.
    ASSUME NEW m \in Message, NEW before_events \in BOOLEAN,
           Post(m, before_events), Kind = "native" => ~NoPortOpen,
           mutex' \in Message \cup {Free}, mutex' # Free => ~NoPortOpen,
           notifications' \in Nat,
           UNCHANGED <<port_state, task, closer, deleted, taken, failed>>
    PROVE  IInv'
  <2> USE <1>PostStep
  <2>1. MessagesOK'
    <3>1. m \in OOBs \/ m \in Events \cup Controls
      BY Zenon DEF Message
    <3>2. oob_queue' \in Seq(OOBs)
      BY Types DEF MessagesOK, Post
    <3>3. queue' \in Seq(Events \cup Controls)
      BY Zenon, <3>1, Types, EnqueueType DEF MessagesOK, Post
    <3>4. posted' \in Seq(Events \cup OOBs)
      BY <3>1, Types DEF MessagesOK, Post
    <3>5. sent' \in SUBSET Message
      BY Zenon, Types DEF MessagesOK, Post
    <3> QED
      BY Zenon, <3>2, <3>3, <3>4, <3>5, Types DEF MessagesOK
  <2>2. /\ h' \in Handler /\ h'.kind = h.kind /\ h'.live_ports = h.live_ports
        /\ h'.delete_me = h.delete_me /\ h'.pool = h.pool
        /\ IF h.pool /\ ~h.task_running
           THEN h'.task_running /\ launched' = launched + 1
           ELSE h'.task_running = h.task_running /\ launched' = launched
    <3>1. CASE h.pool /\ ~h.task_running
      <4>1. h' = [h EXCEPT !.task_running = TRUE] /\ launched' = launched + 1
        BY Zenon, <3>1 DEF Post, LaunchTask
      <4>2. LET k == [h EXCEPT !.task_running = TRUE]
            IN /\ k \in Handler
               /\ k.kind = h.kind /\ k.live_ports = h.live_ports
               /\ k.task_running = TRUE
               /\ k.delete_me = h.delete_me /\ k.pool = h.pool
        BY Zenon, ThisHandler, Launches
      <4> QED
        BY Zenon, <3>1, <4>1, <4>2
    <3>2. CASE ~(h.pool /\ ~h.task_running)
      BY Zenon, <3>2, ThisHandler DEF Post, LaunchTask
    <3> QED
      BY Zenon, <3>1, <3>2
  <2>3. /\ frames' \in Seq(Frame)
        /\ frames' = <<>> <=> frames = <<>>
        /\ DOMAIN frames' = DOMAIN frames
        /\ \A i \in DOMAIN frames : /\ frames'[i].site = frames[i].site
                                    /\ frames'[i].status = frames[i].status
                                    /\ Waits(frames[i]) => Waits(frames'[i])
    BY Zenon, NotifyKeeps DEF Post
  <2>4. Kind' = Kind /\ Live' = Live /\ NoPortOpen' = NoPortOpen /\ InTask' = InTask
    BY Zenon, <2>2 DEF Kind, Live, NoPortOpen, InTask
  <2>5. launched \in Nat /\ launched' \in Nat
    BY <2>2, Types DEF ControlOK
  <2>6. TypeOK'
    <3>1. ControlOK'
      BY Zenon, <2>2, <2>3, <2>5, Types DEF ControlOK
    <3> QED
      BY Zenon, <2>1, <3>1, HalvesNext
  <2>7. OneTask'
    <3>1. CASE h.pool /\ ~h.task_running
      <4>1. launched = 0 /\ ~InTask
        BY <2>5, <3>1 DEF IInv, OneTask
      <4>2. launched' = 1 /\ ~InTask' /\ h'.task_running
        BY <2>2, <2>4, <3>1, <4>1
      <4> QED
        BY <4>2 DEF OneTask
    <3>2. CASE ~(h.pool /\ ~h.task_running)
      <4>1. launched' = launched /\ h'.task_running = h.task_running
        BY Zenon, <2>2, <3>2
      <4> QED
        BY Zenon, <2>4, <4>1 DEF IInv, OneTask
    <3> QED
      BY Zenon, <3>1, <3>2
  <2>8. LivePortsExact' /\ MutexHeld'
    BY Zenon, <2>2, <2>4 DEF IInv, LivePortsExact, MutexHeld
  <2>9. Stack'
    BY Zenon, <2>3, <2>4 DEF IInv, Stack, Waits
  <2>10. IsolateLife'
    BY Zenon, <2>2, <2>3, <2>4, ThisHandler DEF IInv, IsolateLife
  <2>11. NativeLife'
    <3>1. Kind = "native" => port_state[MainPort] = "live"
      BY Zenon DEF IInv, NativeLife, NoPortOpen, Open
    <3> QED
      BY Zenon, <2>2, <2>4, <3>1 DEF IInv, NativeLife, Undeleted
  <2> QED
    BY Zenon, <2>6, <2>7, <2>8, <2>9, <2>10, <2>11 DEF IInv

(* PostMessage. *)
<1>PostMessageStep.
    ASSUME NEW m \in Events \cup OOBs, NEW p \in Port, PostMessage(m, p)
    PROVE  IInv'
  <2> USE <1>PostMessageStep
  <2>1. m \in Message /\ ~NoPortOpen
    BY Zenon DEF Message, PostMessage, NoPortOpen
  <2>2. notifications' \in Nat /\ mutex' \in Message \cup {Free}
    BY Zenon, <2>1, Types DEF PostMessage, MessagesOK
  <2> QED
    BY Zenon, <2>1, <2>2, <1>PostStep DEF PostMessage

(* PostDelayed. *)
<1>PostDelayedStep.
    ASSUME NEW m \in Controls, NEW before_events \in BOOLEAN,
           PostDelayed(m, before_events)
    PROVE  IInv'
  <2> USE <1>PostDelayedStep
  <2>1. m \in Message /\ Kind # "native"
    BY Zenon DEF Message, PostDelayed, Busy
  <2>2. notifications' \in Nat /\ mutex' \in Message \cup {Free}
    BY Types DEF PostDelayed, MessagesOK, ControlOK, Notified
  <2>3. mutex' # Free => ~NoPortOpen
    BY Zenon DEF PostDelayed, IInv, MutexHeld
  <2> QED
    BY Zenon, <2>1, <2>2, <2>3, <1>PostStep DEF PostDelayed

(* Steps that only change the messages or release the mutex. *)
<1>QuietStep.
    ASSUME MessagesOK', mutex' \in {mutex, Free},
           UNCHANGED <<port_state, h, launched, task, frames, closer, deleted>>
    PROVE  IInv'
  <2> USE <1>QuietStep
  <2>1. Kind' = Kind /\ Live' = Live /\ NoPortOpen' = NoPortOpen /\ InTask' = InTask
    BY Zenon DEF Kind, Live, NoPortOpen, InTask
  <2>2. TypeOK'
    <3>1. ControlOK'
      BY Zenon, Types DEF ControlOK
    <3> QED
      BY Zenon, <3>1, HalvesNext
  <2>3. OneTask' /\ LivePortsExact' /\ MutexHeld' /\ Stack'
    BY Zenon, <2>1 DEF IInv, OneTask, LivePortsExact, MutexHeld, Stack, Waits
  <2>4. IsolateLife'
    BY Zenon, <2>1 DEF IInv, IsolateLife
  <2>5. NativeLife'
    BY Zenon, <2>1 DEF IInv, NativeLife, Closing, Undeleted
  <2> QED
    BY Zenon, <2>2, <2>3, <2>4, <2>5 DEF IInv

(* PostRefused, MessageNotify and steps of others. *)
<1>QuietSteps.
    ASSUME \/ \E m \in Events \cup OOBs, p \in Port : PostRefused(m, p)
           \/ MessageNotify
           \/ UNCHANGED vars
    PROVE  IInv'
  <2> USE <1>QuietSteps
  <2>1. ASSUME NEW m \in Events \cup OOBs, NEW p \in Port, PostRefused(m, p)
        PROVE  IInv'
    <3>1. MessagesOK'
      BY Zenon, <2>1, Types DEF PostRefused, MessagesOK, Message
    <3> QED
      BY Zenon, <2>1, <3>1, <1>QuietStep DEF PostRefused
  <2>2. ASSUME MessageNotify
        PROVE  IInv'
    <3>1. MessagesOK'
      BY <2>2, Types DEF MessageNotify, MessagesOK, Notified, history
    <3> QED
      BY Zenon, <2>2, <3>1, <1>QuietStep DEF MessageNotify
  <2>3. ASSUME UNCHANGED vars
        PROVE  IInv'
    <3>1. MessagesOK'
      BY Zenon, <2>3, Types DEF vars, MessagesOK, history
    <3> QED
      BY Zenon, <2>3, <3>1, <1>QuietStep DEF vars
  <2> QED
    BY Zenon, <2>1, <2>2, <2>3

(* Run: the pool gets the first task. *)
<1>RunStep.
    ASSUME Run
    PROVE  IInv'
  <2> USE <1>RunStep
  <2>1. /\ h' \in Handler /\ h'.kind = h.kind /\ h'.live_ports = h.live_ports
        /\ h'.delete_me = h.delete_me /\ h'.pool /\ h'.task_running
    <3>1. LET k == [h EXCEPT !.pool = TRUE, !.task_running = TRUE]
          IN /\ k \in Handler
             /\ k.kind = h.kind /\ k.live_ports = h.live_ports
             /\ k.task_running = TRUE
             /\ k.delete_me = h.delete_me /\ k.pool = TRUE
      BY Zenon, ThisHandler, PoolSet
    <3> QED
      BY Zenon, <3>1 DEF Run
  <2>2. Kind = "pool" /\ ~h.pool /\ ~h.task_running
    BY Zenon, ThisHandler
       DEF Run, IInv, IsolateLife, NativeLife, InTask, OneTask,
       Stack
  <2>3. launched = 0 /\ launched' = 1 /\ task' = "none" /\ ~InTask'
    BY <2>2, Types DEF Run, IInv, OneTask, ControlOK, InTask
  <2>4. frames = <<>> /\ frames' = <<>>
    BY Zenon, <2>2 DEF Run, IInv, Stack
  <2>5. Kind' = Kind /\ Live' = Live /\ NoPortOpen' = NoPortOpen
    BY Zenon, <2>1 DEF Kind, Live, NoPortOpen, Run
  <2>6. TypeOK'
    <3>1. ControlOK'
      BY <2>1, <2>3, Types DEF ControlOK, Run
    <3>2. MessagesOK'
      BY Zenon, Types DEF MessagesOK, Run, history
    <3> QED
      BY Zenon, <3>1, <3>2, HalvesNext
  <2>7. OneTask' /\ LivePortsExact' /\ MutexHeld'
    BY <2>1, <2>3, <2>5 DEF IInv, OneTask, LivePortsExact, MutexHeld, Run
  <2>8. Stack'
    BY <2>2, <2>3, <2>4, <2>5 DEF Stack
  <2>9. IsolateLife'
    <3>1. deleted = 0
      BY Zenon, <2>2 DEF IInv, IsolateLife, Run
    <3> QED
      BY Zenon, <2>1, <2>2, <2>3, <2>4, <2>5, <3>1 DEF IInv, IsolateLife, Run
  <2>10. NativeLife'
    BY Zenon, <2>2, <2>5 DEF NativeLife
  <2> QED
    BY Zenon, <2>6, <2>7, <2>8, <2>9, <2>10 DEF IInv

(* TaskCallback starts. *)
<1>TaskCallbackStep.
    ASSUME TaskCallback
    PROVE  IInv'
  <2> USE <1>TaskCallbackStep
  <2>1. h \in Handler /\ Same(h, h)
    BY Zenon, ThisHandler DEF Same
  <2>2. SomeOutcome
    <3>1. CASE ShouldPauseOnStart("kOK", h)
      <4>1. Outcome(h)
        BY Zenon, <3>1
           DEF TaskCallback, Outcome, TaskSites, ShouldPauseOnStart, Allowed
      <4> QED
        BY Zenon, <2>1, <4>1 DEF SomeOutcome
    <3>2. CASE ~ShouldPauseOnStart("kOK", h)
      <4>1. CheckPausedOnExit("kOK", h) /\ "kOK" \in Status
        BY Zenon, <3>2 DEF TaskCallback, Status
      <4> QED
        BY Zenon, <2>1, <4>1, <1>PausedOnExitOutcome
    <3> QED
      BY Zenon, <3>1, <3>2
  <2>3. MessagesOK'
    BY Zenon, Types DEF MessagesOK, TaskCallback, history
  <2> QED
    BY Zenon, <2>2, <2>3, <1>TaskPreserves DEF TaskCallback

(* PauseNotified. *)
<1>PauseNotifiedStep.
    ASSUME PauseNotified
    PROVE  IInv'
  <2> USE <1>PauseNotifiedStep
  <2>1. SomeOutcome
    <3>1. CASE task = "NotifyPauseOnStart"
      <4> DEFINE k == [h EXCEPT !.is_paused_on_start = TRUE]
      <4>1. k \in Handler /\ Same(k, h)
        BY Zenon, ThisHandler, Pauses
      <4>2. CallHandleMessages("PausedOnStart", FALSE, FALSE, k)
        BY Zenon, <3>1 DEF PauseNotified
      <4> HIDE DEF k
      <4>3. Outcome(k)
        BY Zenon, <4>2 DEF Outcome, TaskSites
      <4> QED
        BY Zenon, <4>1, <4>3 DEF SomeOutcome
    <3>2. CASE task = "NotifyPauseOnExit"
      <4> DEFINE k == [h EXCEPT !.is_paused_on_exit = TRUE]
      <4>1. k \in Handler /\ Same(k, h)
        BY Zenon, ThisHandler, Pauses
      <4>2. CallHandleMessages("Exiting", FALSE, FALSE, k)
        BY Zenon, <3>2 DEF PauseNotified
      <4> HIDE DEF k
      <4>3. Outcome(k)
        BY Zenon, <4>2 DEF Outcome, TaskSites
      <4> QED
        BY Zenon, <4>1, <4>3 DEF SomeOutcome
    <3> QED
      BY Zenon, <3>1, <3>2 DEF PauseNotified
  <2>2. MessagesOK'
    BY Zenon, Types DEF MessagesOK, PauseNotified, history
  <2>3. InTask
    BY Zenon DEF PauseNotified, InTask
  <2> QED
    BY Zenon, <2>1, <2>2, <2>3, <1>TaskPreserves DEF PauseNotified

(* HandleOOBMessages. *)
<1>HandleOOBMessagesStep.
    ASSUME HandleOOBMessages
    PROVE  IInv'
  <2> USE <1>HandleOOBMessagesStep
  <2> DEFINE f == NewFrame("OOB", FALSE, FALSE)
  <2>1. f \in Frame /\ f.site = "OOB" /\ f.status = "kOK" /\ Waits(f)
    BY Zenon, NewFrameType DEF Sites
  <2>2. frames # <<>> /\ frames' = Append(frames, f)
    BY Zenon DEF HandleOOBMessages, Busy, Handling
  <2> HIDE DEF f
  <2>3. SameBase(frames')
    BY Zenon, <2>1, <2>2, <1>PushKeeps DEF InnerSites
  <2>4. h' \in Handler /\ Same(h', h)
    BY Zenon, ThisHandler DEF HandleOOBMessages, Same
  <2>5. MessagesOK'
    BY Zenon, Types DEF MessagesOK, HandleOOBMessages, history
  <2> QED
    BY Zenon, <2>2, <2>3, <2>4, <2>5, <1>InnerPreserves DEF HandleOOBMessages

(* The frames of PauseAndHandleAllMessages. *)
<1>WaitFrames.
    /\ LET f == NewFrame("WaitDone", TRUE, TRUE)
       IN f \in Frame /\ f.site = "WaitDone" /\ f.status = "kOK" /\ Waits(f)
    /\ LET f == NewFrame("Wait", FALSE, FALSE)
       IN f \in Frame /\ f.site = "Wait" /\ f.status = "kOK" /\ Waits(f)
  BY Zenon, NewFrameType DEF Sites

(* PauseAndHandleAllMessages. *)
<1>PauseAndHandleAllMessagesStep.
    ASSUME PauseAndHandleAllMessages
    PROVE  IInv'
  <2> USE <1>PauseAndHandleAllMessagesStep
  <2> DEFINE w == [NewFrame("Wait", FALSE, FALSE) EXCEPT !.phase = "waiting"]
             d == NewFrame("WaitDone", TRUE, TRUE)
             k(b) == [h EXCEPT !.paused_for_messages = b]
  <2>1. /\ w \in Frame /\ w.site = "Wait" /\ w.status = "kOK" /\ Waits(w)
        /\ d \in Frame /\ d.site = "WaitDone" /\ d.status = "kOK" /\ Waits(d)
    BY Zenon, WaitFrameType, <1>WaitFrames
  <2>2. ASSUME NEW b \in BOOLEAN PROVE k(b) \in Handler /\ Same(k(b), h)
    BY Zenon, ThisHandler, Pauses
  <2>3. /\ frames # <<>>
        /\ frames' = Append(frames, w) \/ frames' = Append(frames, d)
        /\ h' = k(TRUE) \/ h' = k(FALSE)
    BY Zenon DEF PauseAndHandleAllMessages, Busy, Handling
  <2>4. MessagesOK'
    BY Zenon, Types DEF MessagesOK, PauseAndHandleAllMessages, history
  <2> HIDE DEF w, d, k
  <2>5. SameBase(Append(frames, w)) /\ SameBase(Append(frames, d))
    BY Zenon, <2>1, <2>3, <1>PushKeeps DEF InnerSites
  <2>6. SameBase(frames') /\ h' \in Handler /\ Same(h', h)
    BY Zenon, <2>2, <2>3, <2>5
  <2> QED
    BY Zenon, <2>3, <2>4, <2>6, <1>InnerPreserves DEF PauseAndHandleAllMessages

(* WaitNotified and WaitTimedOut. *)
<1>WaitSteps.
    ASSUME WaitNotified \/ WaitTimedOut
    PROVE  IInv'
  <2> USE <1>WaitSteps
  <2> DEFINE w == NewFrame("Wait", FALSE, FALSE)
             d == NewFrame("WaitDone", TRUE, TRUE)
             k == [h EXCEPT !.paused_for_messages = FALSE]
  <2>1. /\ w \in Frame /\ w.site = "Wait" /\ w.status = "kOK" /\ Waits(w)
        /\ d \in Frame /\ d.site = "WaitDone" /\ d.status = "kOK" /\ Waits(d)
    BY Zenon, <1>WaitFrames
  <2>2. k \in Handler /\ Same(k, h) /\ h \in Handler /\ Same(h, h)
    BY Zenon, ThisHandler, Pauses DEF Same
  <2>3. /\ frames # <<>>
        /\ frames' = Append(Below, w) \/ frames' = Append(Below, d)
        /\ h' = h \/ h' = k
    BY Zenon DEF WaitNotified, WaitTimedOut, WaitFrame, WaitEnds
  <2>4. MessagesOK'
    BY Zenon, Types DEF MessagesOK, WaitNotified, WaitTimedOut, history
  <2>5. Top.site = "Wait"
    BY Zenon, <2>3, TopFrame DEF WaitNotified, WaitTimedOut, WaitFrame, Waits
  <2> HIDE DEF w, d, k
  <2>6. SameBase(Append(Below, w)) /\ SameBase(Append(Below, d))
    BY Zenon, <2>5, <2>1, <2>3, <1>ReplaceKeeps DEF InnerSites
  <2>7. SameBase(frames') /\ h' \in Handler /\ Same(h', h)
    BY Zenon, <2>2, <2>3, <2>6
  <2> QED
    BY Zenon, <2>3, <2>4, <2>7, <1>InnerPreserves DEF WaitNotified, WaitTimedOut

(* An isolate that opens or closes a port handles a message; the state of  *)
(* one port changes and the live ports are counted again.                  *)
<1>PortStep.
    ASSUME Busy, mutex = Free, NEW p \in Port,
           NEW state \in Open \cup {"none", "closed"},
           port_state' = [port_state EXCEPT ![p] = state],
           h' \in Handler, h'.kind = h.kind, h'.live_ports = Cardinality(Live'),
           h'.task_running = h.task_running, h'.delete_me = h.delete_me,
           h'.pool = h.pool,
           UNCHANGED <<mutex, queue, oob_queue, launched, task, frames, closer,
                       notifications, deleted, history>>
    PROVE  IInv'
  <2> USE <1>PortStep
  <2>1. Kind' = Kind /\ InTask' = InTask /\ Kind # "native"
    BY Zenon DEF Kind, InTask, Busy
  <2>2. frames # <<>>
    BY Zenon DEF Busy, Handling
  <2>3. deleted # 1 /\ task \notin {"CloseAllPorts", "Delete"}
    BY Zenon, <2>1, <2>2 DEF IInv, IsolateLife, Stack
  <2>4. TypeOK'
    <3>1. port_state' \in [Port -> Open \cup {"none", "closed"}]
      BY Zenon, Types DEF ControlOK
    <3>2. ControlOK'
      BY Zenon, <3>1, Types DEF ControlOK
    <3>3. MessagesOK'
      BY Zenon, Types DEF MessagesOK, history
    <3> QED
      BY Zenon, <3>2, <3>3, HalvesNext
  <2>5. OneTask' /\ LivePortsExact' /\ MutexHeld' /\ Stack'
    BY Zenon, <2>1 DEF IInv, OneTask, LivePortsExact, MutexHeld, Stack, Waits
  <2>6. IsolateLife'
    BY Zenon, <2>1, <2>3 DEF IInv, IsolateLife
  <2>7. NativeLife'
    BY Zenon, <2>1 DEF NativeLife
  <2> QED
    BY Zenon, <2>4, <2>5, <2>6, <2>7 DEF IInv

(* The live ports after the state of p has changed. *)
<1>LiveAfter.
    ASSUME NEW p \in Port, NEW state \in Open \cup {"none", "closed"},
           port_state' = [port_state EXCEPT ![p] = state]
    PROVE  /\ Live \subseteq Port /\ Live' \subseteq Port
           /\ Live' = IF state = "live" THEN Live \cup {p} ELSE Live \ {p}
           /\ p \in Live <=> port_state[p] = "live"
  BY Zenon, <1>LiveAfter, Types DEF ControlOK, Live

(* CreatePort. *)
<1>CreatePortStep.
    ASSUME NEW p \in Port, CreatePort(p)
    PROVE  IInv'
  <2> USE <1>CreatePortStep
  <2>1. /\ port_state' = [port_state EXCEPT ![p] = "new"]
        /\ port_state[p] = "none" /\ "new" \in Open \cup {"none", "closed"}
    BY Zenon DEF CreatePort, Open
  <2>2. Live' = Live
    BY Zenon, <2>1, <1>LiveAfter
  <2>3. h' = h /\ h \in Handler /\ h.live_ports = Cardinality(Live')
    BY Zenon, <2>2, ThisHandler DEF CreatePort, IInv, LivePortsExact
  <2> QED
    BY Zenon, <2>1, <2>3, <1>PortStep DEF CreatePort

(* SetPortState. *)
<1>SetPortStateStep.
    ASSUME NEW p \in Port, NEW state \in {"live", "inactive"},
           SetPortState(p, state)
    PROVE  IInv'
  <2> USE <1>SetPortStateStep
  <2> DEFINE n == h.live_ports + LiveChange(p, state)
             k == [h EXCEPT !.live_ports = n]
  <2>1. /\ port_state' = [port_state EXCEPT ![p] = state]
        /\ state \in Open \cup {"none", "closed"}
        /\ state = "live" => port_state[p] # "live"
        /\ h' = k
    BY Zenon DEF SetPortState, PortSteps, Open
  <2>2. Cardinality(Live') = n /\ n \in Nat
    <3>1. /\ h.live_ports = Cardinality(Live)
          /\ Live \subseteq Port /\ Live' \subseteq Port
      BY Zenon, <2>1, <1>LiveAfter DEF IInv, LivePortsExact
    <3>2. CASE state = "live"
      <4>1. p \notin Live /\ Live' = Live \cup {p}
        BY Zenon, <2>1, <3>2, <1>LiveAfter
      <4>2. n = h.live_ports + 1
        BY Zenon, <3>2 DEF LiveChange
      <4> QED
        BY <3>1, <4>1, <4>2, Counting
    <3>3. CASE state # "live" /\ port_state[p] = "live"
      <4>1. p \in Live /\ Live' = Live \ {p}
        BY Zenon, <2>1, <3>3, <1>LiveAfter
      <4>2. n = h.live_ports + (-1)
        BY Zenon, <3>3 DEF LiveChange
      <4> QED
        BY <3>1, <4>1, <4>2, Counting
    <3>4. CASE state # "live" /\ port_state[p] # "live"
      <4>1. Live' = Live
        BY Zenon, <2>1, <3>4, <1>LiveAfter
      <4>2. n = h.live_ports + 0
        BY Zenon, <3>4 DEF LiveChange
      <4> QED
        BY <3>1, <4>1, <4>2, Counting
    <3> QED
      BY Zenon, <3>2, <3>3, <3>4
  <2> HIDE DEF n
  <2>3. /\ k \in Handler /\ k.kind = h.kind /\ k.live_ports = n
        /\ k.task_running = h.task_running
        /\ k.delete_me = h.delete_me /\ k.pool = h.pool
    BY Zenon, <2>2, ThisHandler, PortsCounted
  <2> HIDE DEF k
  <2>4. /\ Busy /\ mutex = Free
        /\ UNCHANGED <<mutex, queue, oob_queue, launched, task, frames, closer,
                       notifications, deleted, history>>
    BY Zenon DEF SetPortState
  <2>5. h' \in Handler /\ h'.kind = h.kind /\ h'.live_ports = Cardinality(Live')
    BY Zenon, <2>1, <2>2, <2>3
  <2>6. /\ h'.task_running = h.task_running
        /\ h'.delete_me = h.delete_me /\ h'.pool = h.pool
    BY Zenon, <2>1, <2>3
  <2> QED
    BY Zenon, <2>1, <2>4, <2>5, <2>6, <1>PortStep

(* ClosePort, by the isolate or by any thread. *)
<1>ClosePortStep.
    ASSUME NEW p \in Port, ClosePort(p)
    PROVE  IInv'
  <2> USE <1>ClosePortStep
  <2>1. /\ port_state' = [port_state EXCEPT ![p] = "closed"]
        /\ "closed" \in Open \cup {"none", "closed"}
        /\ port_state[p] \in Open /\ mutex = Free
    BY Zenon DEF ClosePort
  <2>2. /\ h' \in Handler /\ h'.kind = h.kind
        /\ h'.live_ports = Cardinality(Live')
        /\ h'.task_running = h.task_running
        /\ h'.delete_me = h.delete_me /\ h'.pool = h.pool
    <3>1. h.live_ports = Cardinality(Live) /\ Live \subseteq Port /\ Live' \subseteq Port
      BY Zenon, <2>1, <1>LiveAfter DEF IInv, LivePortsExact
    <3>2. CASE port_state[p] = "live"
      <4>1. p \in Live /\ Live' = Live \ {p}
        BY Zenon, <2>1, <3>2, <1>LiveAfter
      <4>2. Cardinality(Live') = h.live_ports - 1 /\ Cardinality(Live') \in Nat
        BY Zenon, <3>1, <4>1, Counting
      <4> DEFINE n == h.live_ports - 1
                 k == [h EXCEPT !.live_ports = n]
      <4>3. h' = k /\ n = Cardinality(Live') /\ n \in Nat
        BY Zenon, <3>2, <4>2 DEF ClosePort
      <4> HIDE DEF n
      <4>4. /\ k \in Handler /\ k.kind = h.kind /\ k.live_ports = n
            /\ k.task_running = h.task_running
            /\ k.delete_me = h.delete_me /\ k.pool = h.pool
        BY Zenon, <4>3, ThisHandler, PortsCounted
      <4> HIDE DEF k
      <4> QED
        BY Zenon, <4>3, <4>4
    <3>3. CASE port_state[p] # "live"
      <4>1. Live' = Live /\ h' = h
        BY Zenon, <2>1, <3>3, <1>LiveAfter DEF ClosePort
      <4> QED
        BY Zenon, <3>1, <4>1, ThisHandler
    <3> QED
      BY Zenon, <3>2, <3>3
  <2>3. CASE Kind # "native"
    BY Zenon, <2>1, <2>2, <2>3, <1>PortStep DEF ClosePort
  <2>4. CASE Kind = "native"
    <3>1. Kind' = Kind /\ InTask' = InTask /\ closer' = "ClosePort"
      BY Zenon, <2>2, <2>4 DEF Kind, InTask, ClosePort
    <3>2. p = MainPort /\ port_state[MainPort] = "live"
      BY Zenon, <2>1, <2>4 DEF IInv, NativeLife, Open
    <3>3. TypeOK'
      <4>1. port_state' \in [Port -> Open \cup {"none", "closed"}]
        BY Zenon, <2>1, Types DEF ControlOK
      <4>2. ControlOK'
        BY Zenon, <2>2, <3>1, <4>1, Types DEF ControlOK, ClosePort
      <4>3. MessagesOK'
        BY Zenon, Types DEF MessagesOK, ClosePort, history
      <4> QED
        BY Zenon, <4>2, <4>3, HalvesNext
    <3>4. OneTask' /\ LivePortsExact' /\ MutexHeld' /\ Stack'
      BY Zenon, <2>2, <3>1
         DEF IInv, OneTask, LivePortsExact, MutexHeld, Stack, Waits,
         ClosePort
    <3>5. IsolateLife'
      BY Zenon, <2>4, <3>1 DEF IsolateLife
    <3>6. NativeLife'
      <4>1. port_state'[MainPort] = "closed"
            /\ \A q \in Port \ {MainPort} : port_state'[q] = port_state[q]
        BY Zenon, <2>1, <3>2, Types DEF ControlOK
      <4>2. Closing'
        BY Zenon, <2>2, <2>4, <3>1, <3>2
        DEF IInv, NativeLife, Closing, Undeleted, ClosePort
      <4> QED
        BY Zenon, <2>4, <3>1, <4>1, <4>2 DEF IInv, NativeLife, ClosePort
    <3> QED
      BY Zenon, <3>3, <3>4, <3>5, <3>6 DEF IInv
  <2> QED
    BY Zenon, <2>3, <2>4

(* The fields, the ports and the task are left alone. *)
<1>CloserFrame.
    ASSUME h' \in Handler, h'.kind = h.kind,
           h'.live_ports = h.live_ports, h'.task_running = h.task_running,
           closer' \in {"none", "ClosePort", "RequestDeletion", "Delete"},
           deleted' \in Nat, MessagesOK', Kind = "native", NativeLife',
           UNCHANGED <<mutex, port_state, launched, task, frames>>
    PROVE  IInv'
  <2> USE <1>CloserFrame
  <2>1. Kind' = Kind /\ Live' = Live /\ NoPortOpen' = NoPortOpen /\ InTask' = InTask
    BY Zenon DEF Kind, Live, NoPortOpen, InTask
  <2>2. TypeOK'
    <3>1. ControlOK'
      BY Zenon, Types DEF ControlOK
    <3> QED
      BY Zenon, <3>1, HalvesNext
  <2>3. OneTask' /\ LivePortsExact' /\ MutexHeld' /\ Stack'
    BY Zenon, <2>1 DEF IInv, OneTask, LivePortsExact, MutexHeld, Stack, Waits
  <2>4. IsolateLife'
    BY Zenon, <2>1 DEF IsolateLife
  <2> QED
    BY Zenon, <2>2, <2>3, <2>4 DEF IInv

(* The closer of a native port, between closing and deleting. *)
<1>CloserFacts.
    ASSUME closer # "none"
    PROVE  /\ Kind = "native"
           /\ port_state[MainPort] = "closed"
           /\ ~h.delete_me /\ deleted = 0 /\ task # "Delete"
           /\ closer = "Delete" => ~h.task_running
           /\ h.live_ports = 0
  <2> USE <1>CloserFacts
  <2>1. Kind = "native" /\ port_state[MainPort] = "closed" /\ Closing
    BY Zenon DEF IInv, IsolateLife, NativeLife
  <2>2. Live = {} /\ Live \subseteq Port
    BY Zenon, <2>1 DEF IInv, NativeLife, Live
  <2>3. h.live_ports = 0
    BY Zenon, <2>2, Counting DEF IInv, LivePortsExact
  <2> QED
    BY Zenon, <2>1, <2>3 DEF Closing, Undeleted

(* CloserLocksHandler. *)
<1>CloserLocksHandlerStep.
    ASSUME CloserLocksHandler
    PROVE  IInv'
  <2> USE <1>CloserLocksHandlerStep
  <2>1. /\ closer' = "RequestDeletion" /\ closer = "ClosePort" /\ h' = h
        /\ Kind = "native" /\ port_state[MainPort] = "closed"
        /\ ~h.delete_me /\ deleted = 0 /\ task # "Delete"
    BY Zenon, <1>CloserFacts DEF CloserLocksHandler
  <2>2. h \in Handler /\ deleted \in Nat
    BY Zenon, Types DEF ControlOK
  <2>3. MessagesOK'
    BY Zenon, Types DEF MessagesOK, CloserLocksHandler, history
  <2>4. Closing'
    BY Zenon, <2>1 DEF Closing, Undeleted, CloserLocksHandler
  <2>5. NativeLife'
    BY Zenon, <2>1, <2>4 DEF IInv, NativeLife, CloserLocksHandler, Kind
  <2> QED
    BY Zenon, <2>1, <2>2, <2>3, <2>5, <1>CloserFrame DEF CloserLocksHandler

(* RequestDeletion: by the task if one is running. *)
<1>RequestDeletionStep.
    ASSUME RequestDeletion
    PROVE  IInv'
  <2> USE <1>RequestDeletionStep
  <2>1. /\ closer = "RequestDeletion"
        /\ Kind = "native" /\ port_state[MainPort] = "closed"
        /\ ~h.delete_me /\ deleted = 0 /\ task # "Delete"
    BY Zenon, <1>CloserFacts DEF RequestDeletion
  <2>2. h \in Handler /\ deleted \in Nat
    BY Zenon, Types DEF ControlOK
  <2>3. MessagesOK'
    BY Zenon, Types DEF MessagesOK, RequestDeletion, history
  <2>4. CASE h.task_running
    <3> DEFINE k == [h EXCEPT !.delete_me = TRUE]
    <3>1. /\ k \in Handler /\ k.kind = h.kind /\ k.live_ports = h.live_ports
          /\ k.task_running = h.task_running /\ k.delete_me
      BY Zenon, <2>2, DeletionLeft
    <3>2. h' = k /\ closer' = "none"
      BY Zenon, <2>4 DEF RequestDeletion
    <3> HIDE DEF k
    <3>3. Closing'
      BY Zenon, <2>1, <2>4, <3>1, <3>2 DEF Closing, Undeleted, RequestDeletion
    <3>4. NativeLife'
      BY Zenon, <2>1, <3>1, <3>2, <3>3
         DEF IInv, NativeLife, RequestDeletion, Kind
    <3> QED
      BY Zenon, <2>1, <2>2, <2>3, <3>1, <3>2, <3>4, <1>CloserFrame
         DEF RequestDeletion
  <2>5. CASE ~h.task_running
    <3>1. h' = h /\ closer' = "Delete"
      BY Zenon, <2>5 DEF RequestDeletion
    <3>2. Closing'
      BY Zenon, <2>1, <2>5, <3>1 DEF Closing, Undeleted, RequestDeletion
    <3>3. NativeLife'
      BY Zenon, <2>1, <3>1, <3>2 DEF IInv, NativeLife, RequestDeletion, Kind
    <3> QED
      BY Zenon, <2>1, <2>2, <2>3, <3>1, <3>3, <1>CloserFrame DEF RequestDeletion
  <2> QED
    BY Zenon, <2>4, <2>5

(* CloserDeletes. *)
<1>CloserDeletesStep.
    ASSUME CloserDeletes
    PROVE  IInv'
  <2> USE <1>CloserDeletesStep
  <2>1. /\ closer = "Delete" /\ closer' = "none" /\ deleted' = deleted + 1
        /\ h' = h
        /\ Kind = "native" /\ port_state[MainPort] = "closed"
        /\ ~h.delete_me /\ deleted = 0 /\ task # "Delete" /\ ~h.task_running
    BY Zenon, <1>CloserFacts DEF CloserDeletes
  <2>2. h \in Handler /\ deleted' = 1
    BY <2>1, Types DEF ControlOK
  <2>3. MessagesOK'
    <3>1. <<>> \in Seq(Events \cup Controls) /\ <<>> \in Seq(OOBs)
      OBVIOUS
    <3> QED
      BY Zenon, <3>1, Types DEF MessagesOK, CloserDeletes, history
  <2>4. task = "none"
    BY Zenon, <2>1 DEF IInv, NativeLife, OneTask, InTask
  <2>5. Closing'
    BY Zenon, <2>1, <2>2, <2>4 DEF Closing, CloserDeletes
  <2>6. NativeLife'
    BY Zenon, <2>1, <2>4, <2>5 DEF IInv, NativeLife, CloserDeletes, Kind
  <2> QED
    BY <2>1, <2>2, <2>3, <2>6, <1>CloserFrame DEF CloserDeletes

(* HandleNextMessage. *)
<1>HandleNextMessageStep.
    ASSUME HandleNextMessage
    PROVE  IInv'
  <2> USE <1>HandleNextMessageStep
  <2> DEFINE f == NewFrame("Next", TRUE, FALSE)
  <2>1. f \in Frame /\ f.site = "Next" /\ f.status = "kOK" /\ Waits(f)
    BY Zenon, NewFrameType DEF Sites
  <2>2. frames' = <<f>>
    BY Zenon DEF HandleNextMessage
  <2> HIDE DEF f
  <2>3. frames' \in Seq(Frame) /\ DOMAIN frames' = {1} /\ frames'[1] = f
    BY <2>1, <2>2
  <2>4. /\ Kind' = Kind /\ Kind = "embedder"
        /\ Live' = Live /\ NoPortOpen' = NoPortOpen /\ InTask' = InTask
    BY Zenon DEF Kind, Live, NoPortOpen, InTask, HandleNextMessage
  <2>5. TypeOK'
    <3>1. ControlOK'
      BY Zenon, <2>3, Types DEF ControlOK, HandleNextMessage
    <3>2. MessagesOK'
      BY Types DEF MessagesOK, HandleNextMessage, history
    <3> QED
      BY Zenon, <3>1, <3>2, HalvesNext
  <2>6. OneTask' /\ LivePortsExact' /\ MutexHeld'
    BY Zenon, <2>4
       DEF IInv, OneTask, LivePortsExact, MutexHeld, HandleNextMessage
  <2>7. Stack'
    BY Zenon, <2>1, <2>3, <2>4 DEF Stack, Waits, HandleNextMessage
  <2>8. IsolateLife'
    BY <2>4 DEF IInv, IsolateLife, HandleNextMessage
  <2>9. NativeLife'
    BY Zenon, <2>4 DEF NativeLife
  <2> QED
    BY Zenon, <2>5, <2>6, <2>7, <2>8, <2>9 DEF IInv

(* The shutdown of an isolate goes from the end callback to the deletion.  *)
(* Its ports are closed on the way, and no task is left.                   *)
<1>ShutdownStep.
    ASSUME Kind # "native", ~InTask, ~InTask', frames = <<>>,
           launched = 0, ~h.pool,
           h' \in Handler, h'.kind = h.kind, ~h'.task_running, ~h'.pool,
           ~h'.delete_me, h'.live_ports = Cardinality(Live'),
           port_state' \in [Port -> Open \cup {"none", "closed"}],
           deleted' \in {0, 1},
           task' \in {"EndCallback", "CloseAllPorts", "Delete", "none"},
           task' = "none" => deleted' = 1,
           deleted' = 1 => task' = "none",
           task' # "EndCallback" => NoPortOpen',
           mutex = Free \/ NoPortOpen' = NoPortOpen,
           MessagesOK', UNCHANGED <<mutex, launched, frames, closer>>
    PROVE  IInv'
  <2> USE <1>ShutdownStep
  <2>1. Kind' = Kind
    BY Zenon DEF Kind
  <2>2. TypeOK'
    <3>1. ControlOK'
      BY Types DEF ControlOK
    <3> QED
      BY Zenon, <3>1, HalvesNext
  <2>3. OneTask' /\ LivePortsExact' /\ MutexHeld'
    BY DEF IInv, OneTask, LivePortsExact, MutexHeld
  <2>4. Stack'
    BY <2>1 DEF Stack, InTask
  <2>5. IsolateLife'
    BY Zenon, <2>1 DEF IInv, IsolateLife
  <2>6. NativeLife'
    BY Zenon, <2>1 DEF NativeLife
  <2> QED
    BY Zenon, <2>2, <2>3, <2>4, <2>5, <2>6 DEF IInv

(* Where a shutdown is, no task is left. *)
<1>ShutdownFacts.
    ASSUME Kind # "native",
           \/ Kind = "embedder" /\ frames = <<>>
           \/ task \in {"EndCallback", "CloseAllPorts", "Delete"}
    PROVE  /\ ~InTask /\ frames = <<>> /\ launched = 0 /\ ~h.pool
           /\ ~h.task_running /\ ~h.delete_me
           /\ task \in {"EndCallback", "CloseAllPorts", "Delete"} => deleted = 0
           /\ task \in {"CloseAllPorts", "Delete"} => NoPortOpen
  <2> USE <1>ShutdownFacts
  <2>1. Kind \in {"pool", "embedder"} /\ h.pool \in BOOLEAN
    BY Zenon, ThisHandler
  <2>2. ~InTask /\ ~h.pool
    BY Zenon, <2>1 DEF IInv, IsolateLife, InTask
  <2>3. ~h.task_running /\ ~h.delete_me
    BY Zenon, <2>2 DEF IInv, IsolateLife
  <2>4. launched = 0
    BY <2>3, Types DEF IInv, OneTask, ControlOK
  <2>5. frames = <<>>
    BY Zenon, <2>1, <2>2 DEF IInv, Stack, InTask
  <2>6. task \in {"EndCallback", "CloseAllPorts", "Delete"} => deleted = 0
    BY Zenon DEF IInv, IsolateLife
  <2>7. task \in {"CloseAllPorts", "Delete"} => NoPortOpen
    BY Zenon DEF IInv, IsolateLife
  <2> QED
    BY Zenon, <2>2, <2>3, <2>4, <2>5, <2>6, <2>7

(* ShutdownIsolate. *)
<1>ShutdownIsolateStep.
    ASSUME ShutdownIsolate
    PROVE  IInv'
  <2> USE <1>ShutdownIsolateStep
  <2>1. /\ Kind = "embedder" /\ frames = <<>> /\ ~InTask /\ launched = 0
        /\ ~h.pool /\ ~h.task_running /\ ~h.delete_me /\ deleted = 0
    BY Zenon, <1>ShutdownFacts DEF ShutdownIsolate
  <2>2. task' = "EndCallback" /\ ~InTask' /\ h' = h /\ port_state' = port_state
        /\ deleted' = 0
    BY Zenon, <2>1 DEF ShutdownIsolate, InTask
  <2>3. NoPortOpen' = NoPortOpen /\ Live' = Live
    BY Zenon, <2>2 DEF NoPortOpen, Live
  <2>4. /\ h \in Handler /\ h.live_ports = Cardinality(Live')
        /\ port_state' \in [Port -> Open \cup {"none", "closed"}]
    BY Zenon, <2>2, <2>3, Types DEF ControlOK, IInv, LivePortsExact
  <2>5. MessagesOK'
    BY Zenon, Types DEF MessagesOK, ShutdownIsolate, history
  <2>6. UNCHANGED <<mutex, launched, frames, closer>>
    BY Zenon DEF ShutdownIsolate
  <2> QED
    BY <2>1, <2>2, <2>3, <2>4, <2>5, <2>6, <1>ShutdownStep

(* ClosePorts. *)
<1>ClosePortsStep.
    ASSUME ClosePorts
    PROVE  IInv'
  <2> USE <1>ClosePortsStep
  <2>0. h.live_ports - Cardinality(Live) = 0
    <3>1. h.live_ports = Cardinality(Live) /\ Cardinality(Live) \in Nat
      BY Zenon, Counting DEF IInv, LivePortsExact, Live
    <3> QED
      BY <3>1
  <2>1. Kind # "native"
    BY Zenon DEF ClosePorts, IInv, NativeLife
  <2>2. /\ frames = <<>> /\ ~InTask /\ launched = 0
        /\ ~h.pool /\ ~h.task_running /\ ~h.delete_me /\ deleted = 0
    BY Zenon, <2>1, <1>ShutdownFacts DEF ClosePorts
  <2>3. /\ task' = "CloseAllPorts" /\ ~InTask' /\ deleted' = 0 /\ mutex = Free
        /\ port_state' = [p \in Port |-> "closed"]
    BY Zenon, <2>2 DEF ClosePorts, InTask
  <2>4. /\ Live' = {} /\ NoPortOpen'
        /\ port_state' \in [Port -> Open \cup {"none", "closed"}]
    BY Zenon, <2>3 DEF Live, NoPortOpen, Open
  <2>5. Cardinality(Live') = 0
    BY Zenon, <2>4, Counting
  <2> DEFINE k == [h EXCEPT !.live_ports = 0]
  <2>6. /\ k \in Handler /\ k.kind = h.kind /\ k.live_ports = 0
        /\ k.task_running = h.task_running
        /\ k.delete_me = h.delete_me /\ k.pool = h.pool
    BY Zenon, ThisHandler, PortsCounted
  <2>7. h' = k
    BY Zenon, <2>0 DEF ClosePorts
  <2> HIDE DEF k
  <2>8. MessagesOK'
    BY Zenon, Types DEF MessagesOK, ClosePorts, history
  <2>9. UNCHANGED <<mutex, launched, frames, closer>>
    BY Zenon DEF ClosePorts
  <2> QED
    BY <2>1, <2>2, <2>3, <2>4, <2>5, <2>6, <2>7, <2>8, <2>9,
       <1>ShutdownStep

(* CloseAllPorts. *)
<1>CloseAllPortsStep.
    ASSUME CloseAllPorts
    PROVE  IInv'
  <2> USE <1>CloseAllPortsStep
  <2>1. Kind # "native"
    BY Zenon DEF CloseAllPorts, IInv, NativeLife
  <2>2. /\ frames = <<>> /\ ~InTask /\ launched = 0 /\ NoPortOpen
        /\ ~h.pool /\ ~h.task_running /\ ~h.delete_me /\ deleted = 0
    BY Zenon, <2>1, <1>ShutdownFacts DEF CloseAllPorts
  <2>3. /\ task' = "Delete" /\ ~InTask' /\ deleted' = 0 /\ h' = h
        /\ port_state' = port_state
    BY Zenon, <2>2 DEF CloseAllPorts, InTask
  <2>4. NoPortOpen' = NoPortOpen /\ Live' = Live
    BY Zenon, <2>3 DEF NoPortOpen, Live
  <2>5. /\ h \in Handler /\ h.live_ports = Cardinality(Live')
        /\ port_state' \in [Port -> Open \cup {"none", "closed"}]
    BY Zenon, <2>3, <2>4, Types DEF ControlOK, IInv, LivePortsExact
  <2>6. MessagesOK'
    <3>1. <<>> \in Seq(Events \cup Controls) /\ <<>> \in Seq(OOBs)
      OBVIOUS
    <3> QED
      BY Zenon, <3>1, Types DEF MessagesOK, CloseAllPorts, history
  <2>7. UNCHANGED <<mutex, launched, frames, closer>>
    BY Zenon DEF CloseAllPorts
  <2> QED
    BY <2>1, <2>2, <2>3, <2>4, <2>5, <2>6, <2>7, <1>ShutdownStep

(* DeleteHandler, by the shutdown or by the last task of a native port. *)
<1>DeleteHandlerStep.
    ASSUME DeleteHandler
    PROVE  IInv'
  <2> USE <1>DeleteHandlerStep
  <2>1. /\ task = "Delete" /\ task' = "none" /\ deleted' = deleted + 1
        /\ UNCHANGED <<mutex, port_state, h, launched, frames, closer>>
    BY Zenon DEF DeleteHandler
  <2>2. ~InTask /\ ~InTask'
    BY Zenon, <2>1 DEF InTask
  <2>3. NoPortOpen' = NoPortOpen /\ Live' = Live /\ Kind' = Kind
    BY Zenon, <2>1 DEF NoPortOpen, Live, Kind
  <2>4. MessagesOK'
    <3>1. <<>> \in Seq(Events \cup Controls) /\ <<>> \in Seq(OOBs)
      OBVIOUS
    <3> QED
      BY Zenon, <3>1, Types DEF MessagesOK, DeleteHandler, history
  <2>5. /\ h \in Handler /\ h.live_ports = Cardinality(Live')
        /\ port_state' \in [Port -> Open \cup {"none", "closed"}]
    BY Zenon, <2>1, <2>3, Types DEF ControlOK, IInv, LivePortsExact
  <2>6. CASE Kind # "native"
    <3>1. /\ frames = <<>> /\ launched = 0 /\ NoPortOpen
          /\ ~h.pool /\ ~h.task_running /\ ~h.delete_me /\ deleted' = 1
      BY <2>1, <2>6, <1>ShutdownFacts
    <3> QED
      BY Zenon, <2>1, <2>2, <2>3, <2>4, <2>5, <2>6, <3>1, <1>ShutdownStep
  <2>7. CASE Kind = "native"
    <3>1. /\ port_state[MainPort] = "closed" /\ closer = "none"
          /\ ~h.task_running /\ deleted = 0
      BY Zenon, <2>1, <2>7 DEF IInv, NativeLife, Closing, Undeleted
    <3>2. frames = <<>>
      BY Zenon, <2>1, <2>7 DEF IInv, Stack
    <3>3. TypeOK'
      <4>1. deleted' \in Nat
        BY <2>1, <3>1
      <4>2. ControlOK'
        BY Zenon, <2>1, <4>1, Types DEF ControlOK
      <4> QED
        BY Zenon, <2>4, <4>2, HalvesNext
    <3>4. OneTask' /\ LivePortsExact' /\ MutexHeld'
      BY Zenon, <2>1, <2>2, <2>3 DEF IInv, OneTask, LivePortsExact, MutexHeld
    <3>5. Stack'
      BY <2>1, <2>3, <2>7, <3>2 DEF Stack
    <3>6. IsolateLife'
      BY Zenon, <2>3, <2>7 DEF IsolateLife
    <3>7. NativeLife'
      <4>1. Closing'
        BY <2>1, <3>1 DEF Closing
      <4> QED
        BY Zenon, <2>1, <2>3, <2>7, <3>1, <4>1 DEF IInv, NativeLife
    <3> QED
      BY Zenon, <3>3, <3>4, <3>5, <3>6, <3>7 DEF IInv
  <2> QED
    BY Zenon, <2>6, <2>7

<1>1. CASE Run
  BY Zenon, <1>1, <1>RunStep
<1>2. CASE \E m \in Events \cup OOBs, p \in Port :
             PostMessage(m, p) \/ PostRefused(m, p)
  BY Zenon, <1>2, <1>PostMessageStep, <1>QuietSteps
<1>3. CASE MessageNotify \/ UNCHANGED vars
  BY Zenon, <1>3, <1>QuietSteps
<1>4. CASE TaskCallback
  BY Zenon, <1>4, <1>TaskCallbackStep
<1>5. CASE PauseNotified
  BY Zenon, <1>5, <1>PauseNotifiedStep
<1>6. CASE EnterHandleMessages
  BY Zenon, <1>6, <1>EnterHandleMessagesStep
<1>7. CASE MessageHandled
  BY Zenon, <1>7, <1>MessageHandledStep
<1>8. CASE HandleOOBMessages
  BY Zenon, <1>8, <1>HandleOOBMessagesStep
<1>9. CASE PauseAndHandleAllMessages
  BY Zenon, <1>9, <1>PauseAndHandleAllMessagesStep
<1>10. CASE WaitNotified \/ WaitTimedOut
  BY Zenon, <1>10, <1>WaitSteps
<1>11. CASE \E m \in Controls, before_events \in BOOLEAN :
              PostDelayed(m, before_events)
  BY Zenon, <1>11, <1>PostDelayedStep
<1>12. CASE \E p \in Port : CreatePort(p) \/ ClosePort(p)
  BY Zenon, <1>12, <1>CreatePortStep, <1>ClosePortStep
<1>13. CASE \E p \in Port, state \in {"live", "inactive"} :
              SetPortState(p, state)
  BY Zenon, <1>13, <1>SetPortStateStep
<1>14. CASE CloserLocksHandler
  BY Zenon, <1>14, <1>CloserLocksHandlerStep
<1>15. CASE RequestDeletion
  BY Zenon, <1>15, <1>RequestDeletionStep
<1>16. CASE CloserDeletes
  BY Zenon, <1>16, <1>CloserDeletesStep
<1>17. CASE HandleNextMessage
  BY Zenon, <1>17, <1>HandleNextMessageStep
<1>18. CASE ShutdownIsolate
  BY Zenon, <1>18, <1>ShutdownIsolateStep
<1>19. CASE ClosePorts
  BY Zenon, <1>19, <1>ClosePortsStep
<1>20. CASE CloseAllPorts
  BY Zenon, <1>20, <1>CloseAllPortsStep
<1>21. CASE DeleteHandler
  BY Zenon, <1>21, <1>DeleteHandlerStep
<1> QED
  BY Zenon, <1>1, <1>2, <1>3, <1>4, <1>5, <1>6, <1>7, <1>8, <1>9, <1>10, <1>11,
     <1>12, <1>13, <1>14, <1>15, <1>16, <1>17, <1>18, <1>19, <1>20, <1>21
  DEF Next

-----------------------------------------------------------------------------
(* No message is left behind.  The following invariants say where messages *)
(* may wait; they use the one above and are proved one after the other.    *)

(* The stacks that a step may leave, frame by frame. *)
Alike(f, k) ==
  /\ f.site = k.site /\ f.allow = k.allow /\ f.multiple = k.multiple
  /\ f.status = k.status /\ f.phase = k.phase /\ f.message = k.message

(* A call of TaskCallback or of the embedder is the outermost one. *)
LEMMA OutermostTop ==
  ASSUME IInv, frames # <<>>, Top.site \notin InnerSites
  PROVE  Len(frames) = 1 /\ Top = frames[1]
<1> DEFINE n == Len(frames)
<1>1. n \in Nat \ {0} /\ ~(n > 1)
  BY Zenon, TopFrame
<1> HIDE DEF n
<1>2. n = 1
  BY <1>1
<1> QED
  BY Zenon, <1>2 DEF Top, n

(* A call on top of the others. *)
LEMMA PushShape ==
  ASSUME IInv, frames # <<>>, NEW f
  PROVE  LET fs == Append(frames, f)
         IN /\ DOMAIN fs = 1 .. Len(frames) + 1
            /\ fs # <<>>
            /\ fs[Len(frames) + 1] = f
            /\ \A i \in 1 .. Len(frames) : fs[i] = frames[i]
<1>1. frames \in Seq(Frame) /\ Len(frames) \in Nat
  BY Zenon, TopFrame DEF IInv, TypeOK
<1> QED
  BY <1>1

(* Another frame for the innermost call. *)
LEMMA ReplaceShape ==
  ASSUME IInv, frames # <<>>, NEW f
  PROVE  /\ DOMAIN Append(Below, f) = 1 .. Len(frames)
         /\ Append(Below, f) # <<>>
         /\ Append(Below, f)[Len(frames)] = f
         /\ \A i \in 1 .. Len(frames) - 1 : Append(Below, f)[i] = frames[i]
<1>1. /\ Len(frames) \in Nat \ {0} /\ Below \in Seq(Frame)
      /\ Len(Below) = Len(frames) - 1
      /\ \A i \in 1 .. Len(frames) - 1 : Below[i] = frames[i]
  BY Zenon, TopFrame, BelowFrames
<1>2. /\ DOMAIN Append(Below, f) = 1 .. Len(frames)
      /\ Append(Below, f) # <<>>
      /\ Append(Below, f)[Len(frames)] = f
      /\ \A i \in 1 .. Len(frames) - 1 : Append(Below, f)[i] = Below[i]
  BY <1>1, AppendShape
<1> QED
  BY Zenon, <1>1, <1>2

(* The innermost call has returned. *)
LEMMA UnwoundShape ==
  ASSUME IInv, frames # <<>>, Len(frames) > 1, NEW status
  PROVE  LET fs == Unwound(status)
         IN /\ DOMAIN fs = 1 .. Len(frames) - 1
            /\ fs # <<>>
            /\ \A i \in 1 .. Len(frames) - 1 : Alike(fs[i], frames[i])
<1>1. /\ Len(frames) \in Nat \ {0} /\ Below \in Seq(Frame)
      /\ Len(Below) = Len(frames) - 1
      /\ \A i \in 1 .. Len(frames) - 1 : Below[i] = frames[i]
  BY Zenon, TopFrame, BelowFrames
<1> DEFINE n == Len(Below)
           f == [Below[n] EXCEPT !.unwinds = status]
           fs == Unwound(status)
<1>2. n \in 1 .. Len(frames) - 1 /\ Below[n] \in Frame
  BY <1>1
<1>3. Alike(f, Below[n])
  BY Zenon, <1>2 DEF Frame, Alike
<1> HIDE DEF f
<1>4. fs = [Below EXCEPT ![n] = f]
  BY Zenon DEF f, Unwound
<1>5. /\ DOMAIN fs = 1 .. Len(frames) - 1
      /\ fs # <<>>
      /\ fs[n] = f
      /\ \A i \in 1 .. Len(frames) - 1 : i # n => fs[i] = frames[i]
  BY <1>1, <1>2, <1>4
<1> HIDE DEF fs, n
<1>6. ASSUME NEW i \in 1 .. Len(frames) - 1
      PROVE  Alike(fs[i], frames[i])
  <2>1. CASE i = n
    BY Zenon, <1>1, <1>3, <1>5, <2>1
  <2>2. CASE i # n
    BY Zenon, <1>5, <2>2 DEF Alike
  <2> QED
    BY Zenon, <2>1, <2>2
<1> QED
  BY Zenon, <1>5, <1>6 DEF fs

(* The waiting threads are notified. *)
LEMMA NotifyShape ==
  ASSUME IInv, NotifyWaiter
  PROVE  /\ DOMAIN frames' = DOMAIN frames
         /\ frames' = <<>> <=> frames = <<>>
         /\ \A i \in DOMAIN frames :
              IF frames[i].phase = "waiting" /\ h.paused_for_messages
              THEN /\ frames'[i].phase = "notified"
                   /\ frames'[i].site = frames[i].site
                   /\ frames'[i].allow = frames[i].allow
                   /\ frames'[i].multiple = frames[i].multiple
                   /\ frames'[i].status = frames[i].status
              ELSE frames'[i] = frames[i]
<1>1. DOMAIN frames' = DOMAIN frames /\ (frames' = <<>> <=> frames = <<>>)
  BY Zenon, NotifyKeeps
<1>2. ASSUME NEW f \in Frame
      PROVE  LET k == [f EXCEPT !.phase = "notified"]
             IN /\ k.phase = "notified" /\ k.site = f.site
                /\ k.allow = f.allow /\ k.multiple = f.multiple
                /\ k.status = f.status
  BY Zenon DEF Frame
<1>3. ASSUME NEW i \in DOMAIN frames, frames[i].phase = "waiting",
             h.paused_for_messages
      PROVE  /\ frames'[i].phase = "notified"
             /\ frames'[i].site = frames[i].site
             /\ frames'[i].allow = frames[i].allow
             /\ frames'[i].multiple = frames[i].multiple
             /\ frames'[i].status = frames[i].status
  <2>1. frames[i] \in Frame
    BY DEF IInv, TypeOK
  <2>2. frames'[i] = [frames[i] EXCEPT !.phase = "notified"]
    BY Zenon, <1>3 DEF NotifyWaiter
  <2> QED
    BY Zenon, <1>2, <2>1, <2>2
<1>4. ASSUME NEW i \in DOMAIN frames,
             ~(frames[i].phase = "waiting" /\ h.paused_for_messages)
      PROVE  frames'[i] = frames[i]
  BY Zenon, <1>4 DEF NotifyWaiter
<1> QED
  BY Zenon, <1>1, <1>3, <1>4

(* The pause flags, which a message leaves alone. *)
Still(g, k) ==
  /\ g.is_paused_on_start = k.is_paused_on_start
  /\ g.is_paused_on_exit = k.is_paused_on_exit
  /\ g.paused_for_messages = k.paused_for_messages

(* A message may pause an isolate, but not change those flags. *)
LEMMA EffectsStill ==
  ASSUME IInv, NEW f, NEW g \in Effects(f)
  PROVE  /\ Still(g, h)
         /\ h.paused = 0 /\ Kind \notin PauseKinds => g.paused = 0
<1>1. h \in Handler /\ h.paused \in Nat
  BY Zenon, ThisHandler
<1>2. ASSUME NEW n
      PROVE  LET k == [h EXCEPT !.paused = n] IN Still(k, h)
  BY Zenon, <1>1 DEF Handler, Still
<1>3. LET k == [h EXCEPT !.should_pause_on_start = FALSE]
      IN Still(k, h) /\ k.paused = h.paused
  BY Zenon, <1>1 DEF Handler, Still
<1>4. LET k == [h EXCEPT !.should_pause_on_exit = FALSE]
      IN Still(k, h) /\ k.paused = h.paused
  BY Zenon, <1>1 DEF Handler, Still
<1>5. \/ g = h
      \/ Kind \in PauseKinds /\ g = [h EXCEPT !.paused = @ + 1]
      \/ h.paused > 0 /\ g = [h EXCEPT !.paused = @ - 1]
      \/ g = [h EXCEPT !.should_pause_on_start = FALSE]
      \/ g = [h EXCEPT !.should_pause_on_exit = FALSE]
  BY Zenon DEF Effects
<1>6. CASE g = h
  BY Zenon, <1>6 DEF Still
<1>7. CASE Kind \in PauseKinds /\ g = [h EXCEPT !.paused = @ + 1]
  BY Zenon, <1>2, <1>7
<1>8. CASE h.paused > 0 /\ g = [h EXCEPT !.paused = @ - 1]
  <2>1. h.paused # 0
    BY <1>1, <1>8
  <2> QED
    BY Zenon, <1>2, <1>8, <2>1
<1>9. CASE g = [h EXCEPT !.should_pause_on_start = FALSE]
  BY Zenon, <1>3, <1>9
<1>10. CASE g = [h EXCEPT !.should_pause_on_exit = FALSE]
  BY Zenon, <1>4, <1>10
<1> QED
  BY Zenon, <1>5, <1>6, <1>7, <1>8, <1>9, <1>10

(* The end of a task leaves the pauses alone. *)
LEMMA LaunchesStill ==
  ASSUME NEW g \in Handler, NEW b \in BOOLEAN
  PROVE  LET k == [g EXCEPT !.task_running = b]
         IN Still(k, g) /\ k.paused = g.paused
BY Zenon DEF Handler, Still

(* Setting one flag leaves the others alone. *)
LEMMA PauseStartStill ==
  ASSUME NEW g \in Handler, NEW b \in BOOLEAN
  PROVE  LET k == [g EXCEPT !.is_paused_on_start = b]
         IN /\ k.is_paused_on_start = b
            /\ k.is_paused_on_exit = g.is_paused_on_exit
            /\ k.paused_for_messages = g.paused_for_messages
            /\ k.paused = g.paused
BY Zenon DEF Handler

(* The same for the pause on exit. *)
LEMMA PauseExitStill ==
  ASSUME NEW g \in Handler, NEW b \in BOOLEAN
  PROVE  LET k == [g EXCEPT !.is_paused_on_exit = b]
         IN /\ k.is_paused_on_exit = b
            /\ k.is_paused_on_start = g.is_paused_on_start
            /\ k.paused_for_messages = g.paused_for_messages
            /\ k.paused = g.paused
BY Zenon DEF Handler

(* The same for the wait for messages. *)
LEMMA PauseMessagesStill ==
  ASSUME NEW g \in Handler, NEW b \in BOOLEAN
  PROVE  LET k == [g EXCEPT !.paused_for_messages = b]
         IN /\ k.paused_for_messages = b
            /\ k.is_paused_on_start = g.is_paused_on_start
            /\ k.is_paused_on_exit = g.is_paused_on_exit
            /\ k.paused = g.paused
BY Zenon DEF Handler

-----------------------------------------------------------------------------
(* A handler on the pool.                                                  *)

(* Without a task it has no message that one could handle. *)
Drained ==
  h.pool /\ ~h.task_running =>
    /\ oob_queue = <<>>
    /\ \/ queue = <<>>
       \/ h.paused > 0
       \/ h.is_paused_on_start
       \/ h.is_paused_on_exit

(* TaskCallback handles normal messages, all of them, unless it is paused. *)
Bottom ==
  frames # <<>> =>
    /\ frames[1].site = "PausedOnStart" => h.is_paused_on_start
    /\ frames[1].site \in {"PausedOnExit", "Exiting"} => h.is_paused_on_exit
    /\ frames[1].site = "Main" => frames[1].allow /\ frames[1].multiple

(* The frame in which the next message is looked for. *)
LEMMA HandledFrame ==
  ASSUME IInv, frames # <<>>, NEW status \in Status, NEW allow \in BOOLEAN
  PROVE  LET f == [Top EXCEPT !.status = status, !.allow = allow,
                              !.unwinds = "kOK"]
         IN /\ f \in Frame /\ f.site = Top.site /\ f.status = status
            /\ f.allow = allow /\ f.multiple = Top.multiple
            /\ f.phase = Top.phase /\ f.message = Top.message
<1>1. Top \in Frame
  BY Zenon, TopFrame
<1> QED
  BY Zenon, <1>1 DEF Frame, Status

(* What MessageHandled does: it returns, or looks for the next message. *)
LEMMA HandledCases ==
  ASSUME IInv, MessageHandled
  PROVE  \E g \in Handler :
           /\ Same(g, h) /\ Still(g, h)
           /\ h.paused = 0 /\ Kind \notin PauseKinds => g.paused = 0
           /\ \/ /\ oob_queue' = <<>>
                 /\ Return("kShutdown", g)
                 /\ UNCHANGED <<queue, taken>>
              \/ \E f \in Frame :
                   /\ f.site = Top.site /\ f.multiple = Top.multiple
                   /\ f.phase = Top.phase
                   /\ f.allow => Top.allow
                   /\ Top.multiple => f.allow = Top.allow
                   /\ NextMessage(f, g)
<1>1. PICK status \in Outcomes(Top), g \in Effects(Top) :
        LET worst == IF "kShutdown" \in {status, Top.status} THEN "kShutdown"
                     ELSE IF "kError" \in {status, Top.status} THEN "kError"
                     ELSE "kOK"
            once == Top.message \notin OOBs /\ ~Top.multiple
        IN IF status = "kShutdown"
           THEN /\ oob_queue' = <<>>
                /\ Return(worst, g)
                /\ UNCHANGED <<queue, taken>>
           ELSE NextMessage([Top EXCEPT !.status = worst,
                                        !.allow = @ /\ ~once,
                                        !.unwinds = "kOK"], g)
  BY Zenon DEF MessageHandled
<1> DEFINE worst == IF "kShutdown" \in {status, Top.status} THEN "kShutdown"
                    ELSE IF "kError" \in {status, Top.status} THEN "kError"
                    ELSE "kOK"
           once == Top.message \notin OOBs /\ ~Top.multiple
           allow == Top.allow /\ ~once
           f == [Top EXCEPT !.status = worst, !.allow = allow,
                            !.unwinds = "kOK"]
<1>2. frames # <<>>
  BY Zenon DEF MessageHandled, Handling
<1>3. /\ g \in Handler /\ Same(g, h) /\ Still(g, h)
      /\ h.paused = 0 /\ Kind \notin PauseKinds => g.paused = 0
  BY Zenon, EffectsKeep, EffectsStill
<1>4. worst \in Status /\ allow \in BOOLEAN
  BY Zenon DEF Status
<1>5. CASE status = "kShutdown"
  <2>1. /\ oob_queue' = <<>> /\ Return("kShutdown", g)
        /\ UNCHANGED <<queue, taken>>
    BY Zenon, <1>1, <1>5
  <2> QED
    BY Zenon, <1>3, <2>1
<1>6. CASE status # "kShutdown"
  <2>1. NextMessage(f, g)
    BY Zenon, <1>1, <1>6
  <2>2. Top.allow \in BOOLEAN
    BY Zenon, <1>2, TopFrame DEF Frame
  <2>3. (allow => Top.allow) /\ (Top.multiple => allow = Top.allow)
    BY Zenon, <2>2
  <2> HIDE DEF worst, allow
  <2>4. /\ f \in Frame /\ f.site = Top.site /\ f.allow = allow
        /\ f.multiple = Top.multiple /\ f.phase = Top.phase
    BY Zenon, <1>2, <1>4, HandledFrame
  <2> HIDE DEF f
  <2> QED
    BY Zenon, <1>3, <2>1, <2>3, <2>4
<1> QED
  BY Zenon, <1>5, <1>6

(* Waiting for messages changes one flag. *)
LEMMA WaitFlag ==
  ASSUME IInv, NEW b \in BOOLEAN, h' = [h EXCEPT !.paused_for_messages = b]
  PROVE  /\ h'.task_running = h.task_running /\ h'.pool = h.pool
         /\ h'.is_paused_on_start = h.is_paused_on_start
         /\ h'.is_paused_on_exit = h.is_paused_on_exit
         /\ h'.paused_for_messages = b /\ h'.paused = h.paused
         /\ h'.kind = h.kind
<1> DEFINE k == [h EXCEPT !.paused_for_messages = b]
<1>1. Same(k, h)
  BY Zenon, ThisHandler, Pauses
<1>2. /\ k.paused_for_messages = b
      /\ k.is_paused_on_start = h.is_paused_on_start
      /\ k.is_paused_on_exit = h.is_paused_on_exit
      /\ k.paused = h.paused
  BY Zenon, ThisHandler, PauseMessagesStill
<1>3. h' = k
  BY Zenon
<1> HIDE DEF k
<1> QED
  BY Zenon, <1>1, <1>2, <1>3 DEF Same

(* Counting ports, or leaving the deletion to the task, is quiet. *)
LEMMA FieldsStill ==
  ASSUME NEW g \in Handler, NEW n
  PROVE  /\ LET k == [g EXCEPT !.live_ports = n]
            IN /\ Still(k, g) /\ k.paused = g.paused
               /\ k.pool = g.pool /\ k.task_running = g.task_running
         /\ LET k == [g EXCEPT !.delete_me = n]
            IN /\ Still(k, g) /\ k.paused = g.paused
               /\ k.pool = g.pool /\ k.task_running = g.task_running
<1>1. LET k == [g EXCEPT !.live_ports = n]
      IN /\ Still(k, g) /\ k.paused = g.paused
         /\ k.pool = g.pool /\ k.task_running = g.task_running
  BY Zenon DEF Handler, Still
<1>2. LET k == [g EXCEPT !.delete_me = n]
      IN /\ Still(k, g) /\ k.paused = g.paused
         /\ k.pool = g.pool /\ k.task_running = g.task_running
  BY Zenon DEF Handler, Still
<1> QED
  BY Zenon, <1>1, <1>2

(* The quiet steps: of the ports, of the closer and of the shutdown. *)
Quiet ==
  \/ \E m \in Events \cup OOBs, p \in Port : PostRefused(m, p)
  \/ MessageNotify
  \/ \E p \in Port : CreatePort(p) \/ ClosePort(p)
  \/ \E p \in Port, state \in {"live", "inactive"} : SetPortState(p, state)
  \/ CloserLocksHandler
  \/ RequestDeletion
  \/ CloserDeletes
  \/ ShutdownIsolate
  \/ ClosePorts
  \/ CloseAllPorts
  \/ DeleteHandler
  \/ UNCHANGED vars

(* What a quiet step leaves alone. *)
LEMMA QuietFrame ==
  ASSUME IInv, Quiet
  PROVE  /\ frames' = frames
         /\ h'.kind = h.kind
         /\ h'.pool = h.pool /\ h'.task_running = h.task_running
         /\ h'.paused = h.paused /\ Still(h', h)
         /\ \/ UNCHANGED <<queue, oob_queue>>
            \/ queue' = <<>> /\ oob_queue' = <<>>
         /\ \/ UNCHANGED <<mutex, notifications>>
            \/ /\ mutex # Free /\ mutex' = Free
               /\ notifications' = Notified
<1>1. frames' = frames
  BY Zenon DEF Quiet, PostRefused, MessageNotify, CreatePort, ClosePort,
     SetPortState, CloserLocksHandler, RequestDeletion, CloserDeletes,
     ShutdownIsolate, ClosePorts, CloseAllPorts, DeleteHandler, vars
<1>2. \/ UNCHANGED <<queue, oob_queue>>
      \/ queue' = <<>> /\ oob_queue' = <<>>
  BY Zenon DEF Quiet, PostRefused, MessageNotify, CreatePort, ClosePort,
     SetPortState, CloserLocksHandler, RequestDeletion, CloserDeletes,
     ShutdownIsolate, ClosePorts, CloseAllPorts, DeleteHandler, vars
<1>3. \/ UNCHANGED <<mutex, notifications>>
      \/ mutex # Free /\ mutex' = Free /\ notifications' = Notified
  BY Zenon DEF Quiet, PostRefused, MessageNotify, CreatePort, ClosePort,
     SetPortState, CloserLocksHandler, RequestDeletion, CloserDeletes,
     ShutdownIsolate, ClosePorts, CloseAllPorts, DeleteHandler, vars
<1>4. \/ h' = h
      \/ \E n : h' = [h EXCEPT !.live_ports = n]
      \/ h' = [h EXCEPT !.delete_me = TRUE]
  BY Zenon DEF Quiet, PostRefused, MessageNotify, CreatePort, ClosePort,
     SetPortState, CloserLocksHandler, RequestDeletion, CloserDeletes,
     ShutdownIsolate, ClosePorts, CloseAllPorts, DeleteHandler, vars
<1>5. h \in Handler
  BY Zenon, ThisHandler
<1>6. h'.kind = h.kind
  BY Zenon, <1>4, <1>5 DEF Handler
<1>7. /\ h'.pool = h.pool /\ h'.task_running = h.task_running
      /\ h'.paused = h.paused /\ Still(h', h)
  <2>1. CASE h' = h
    BY Zenon, <2>1 DEF Still
  <2>2. CASE \E n : h' = [h EXCEPT !.live_ports = n]
    <3>1. PICK n : h' = [h EXCEPT !.live_ports = n]
      BY Zenon, <2>2
    <3> QED
      BY Zenon, <1>5, <3>1, FieldsStill
  <2>3. CASE h' = [h EXCEPT !.delete_me = TRUE]
    BY Zenon, <1>5, <2>3, FieldsStill
  <2> QED
    BY Zenon, <1>4, <2>1, <2>2, <2>3
<1> QED
  BY Zenon, <1>1, <1>2, <1>3, <1>6, <1>7

(* What a post does to the fields: it may start a task. *)
LEMMA PostFrame ==
  ASSUME IInv, NEW m, NEW before_events, Post(m, before_events)
  PROVE  /\ Still(h', h) /\ h'.paused = h.paused /\ h'.kind = h.kind
         /\ h'.pool = h.pool
         /\ h'.pool => h'.task_running
<1>1. h \in Handler /\ h.pool \in BOOLEAN
  BY Zenon, ThisHandler
<1>2. CASE h.pool /\ ~h.task_running
  <2>1. LET k == [h EXCEPT !.task_running = TRUE]
        IN Still(k, h) /\ k.paused = h.paused
    BY Zenon, <1>1, LaunchesStill
  <2>2. LET k == [h EXCEPT !.task_running = TRUE]
        IN /\ k \in Handler
           /\ k.kind = h.kind /\ k.live_ports = h.live_ports
           /\ k.task_running = TRUE
           /\ k.delete_me = h.delete_me /\ k.pool = h.pool
    BY Zenon, <1>1, Launches
  <2>3. h' = [h EXCEPT !.task_running = TRUE]
    BY Zenon, <1>2 DEF Post, LaunchTask
  <2> QED
    BY Zenon, <1>2, <2>1, <2>2, <2>3
<1>3. CASE ~(h.pool /\ ~h.task_running)
  BY Zenon, <1>3 DEF Post, LaunchTask, Still
<1> QED
  BY Zenon, <1>2, <1>3

(* Every step of a handler leaves the pool's part in order. *)
LEMMA HearsNext ==
  ASSUME IInv, Drained, Bottom, [Next]_vars
  PROVE  Drained' /\ Bottom'
(* A task that handles messages is running. *)
<1>Running.
    ASSUME frames # <<>> \/ InTask
    PROVE  h.task_running \/ ~h.pool
  BY Zenon, <1>Running DEF IInv, Stack, OneTask, IsolateLife, InTask

(* What TaskCallback calls first. *)
<1>CallHears.
    ASSUME NEW g \in Handler, g.task_running, NEW site \in TaskSites,
           NEW allow \in BOOLEAN, NEW multiple \in BOOLEAN,
           site = "PausedOnStart" => g.is_paused_on_start,
           site \in {"PausedOnExit", "Exiting"} => g.is_paused_on_exit,
           site = "Main" => allow /\ multiple,
           CallHandleMessages(site, allow, multiple, g)
    PROVE  Drained' /\ Bottom'
  <2> USE <1>CallHears
  <2>1. h' = g /\ frames' = <<NewFrame(site, allow, multiple)>>
    BY Zenon DEF CallHandleMessages
  <2>2. /\ frames'[1].site = site /\ frames'[1].allow = allow
        /\ frames'[1].multiple = multiple
    BY Zenon, <2>1 DEF NewFrame
  <2>3. Drained'
    BY Zenon, <2>1 DEF Drained
  <2>4. Bottom'
    BY Zenon, <2>1, <2>2 DEF Bottom
  <2> QED
    BY Zenon, <2>3, <2>4

(* The task ends for a reason. *)
<1>ReturnsHears.
    ASSUME NEW g \in Handler, oob_queue' = <<>>, TaskReturns(g),
           queue' = <<>> \/ g.paused > 0 \/ g.is_paused_on_start
             \/ g.is_paused_on_exit
    PROVE  Drained' /\ Bottom'
  <2> USE <1>ReturnsHears
  <2> DEFINE k == [g EXCEPT !.task_running = FALSE]
  <2>1. Still(k, g) /\ k.paused = g.paused
    BY Zenon, LaunchesStill
  <2>2. h' = k /\ frames' = <<>>
    BY Zenon DEF TaskReturns, CallOut
  <2> HIDE DEF k
  <2> QED
    BY Zenon, <2>1, <2>2 DEF Drained, Bottom, Still

(* Calls out of TaskCallback, while the task goes on or the handler ends. *)
<1>OutHears.
    ASSUME NEW g \in Handler,
           \/ g.task_running /\ \E where : CallOut(where, g)
           \/ Stop(g)
    PROVE  Drained' /\ Bottom'
  <2> USE <1>OutHears
  <2>1. ASSUME g.task_running, NEW where, CallOut(where, g)
        PROVE  Drained' /\ Bottom'
    BY Zenon, <2>1 DEF CallOut, Drained, Bottom
  <2>2. ASSUME Stop(g)
        PROVE  Drained' /\ Bottom'
    <3> DEFINE k == [g EXCEPT !.pool = FALSE, !.task_running = FALSE]
    <3>1. ~k.pool
      BY Zenon, PoolSet
    <3>2. h' = k /\ frames' = <<>>
      BY Zenon, <2>2 DEF Stop, CallOut
    <3> HIDE DEF k
    <3> QED
      BY Zenon, <3>1, <3>2 DEF Drained, Bottom
  <2> QED
    BY Zenon, <2>1, <2>2

(* TaskCallback from the test for live ports on. *)
<1>FinishHears.
    ASSUME NEW g \in Handler, g.task_running, NEW status, oob_queue' = <<>>,
           status = "kOK" => queue' = <<>> \/ g.paused > 0,
           Finish(status, g)
    PROVE  Drained' /\ Bottom'
  <2> USE <1>FinishHears
  <2>1. CASE status = "kOK" /\ g.live_ports > 0
    BY Zenon, <2>1, <1>ReturnsHears DEF Finish
  <2>2. CASE ~(status = "kOK" /\ g.live_ports > 0)
    BY Zenon, <2>2, <1>OutHears DEF Finish
  <2> QED
    BY Zenon, <2>1, <2>2

(* From the test for pending messages on. *)
<1>PendingHears.
    ASSUME NEW g \in Handler, g.task_running, NEW status,
           status # "kOK" => oob_queue' = <<>>, HandlePending(status, g)
    PROVE  Drained' /\ Bottom'
  <2> USE <1>PendingHears
  <2>1. CASE status = "kOK"
    BY Zenon, <2>1, <1>CallHears DEF HandlePending, TaskSites
  <2>2. CASE status # "kOK"
    BY Zenon, <2>2, <1>FinishHears DEF HandlePending
  <2> QED
    BY Zenon, <2>1, <2>2

(* From the test for a pause on exit on. *)
<1>PausedOnExitHears.
    ASSUME NEW g \in Handler, g.task_running, NEW status,
           status # "kOK" => oob_queue' = <<>>, CheckPausedOnExit(status, g)
    PROVE  Drained' /\ Bottom'
  <2> USE <1>PausedOnExitHears
  <2>1. CASE g.is_paused_on_exit
    BY Zenon, <2>1, <1>CallHears DEF CheckPausedOnExit, TaskSites
  <2>2. CASE ~g.is_paused_on_exit
    BY Zenon, <2>2, <1>PendingHears DEF CheckPausedOnExit
  <2> QED
    BY Zenon, <2>1, <2>2

(* From the return of HandleMessages on. *)
<1>AfterHears.
    ASSUME NEW g \in Handler, g.task_running, NEW status,
           NEW site \in TaskSites, oob_queue' = <<>>,
           site = "PausedOnStart" => g.is_paused_on_start,
           site \in {"PausedOnExit", "Exiting"} => g.is_paused_on_exit,
           site = "Main" /\ status = "kOK" => queue' = <<>> \/ g.paused > 0,
           AfterHandleMessages(site, status, g)
    PROVE  Drained' /\ Bottom'
  <2> USE <1>AfterHears
  <2> DEFINE started == [g EXCEPT !.is_paused_on_start = FALSE]
             resumed == [g EXCEPT !.is_paused_on_exit = FALSE]
  <2>1. started \in Handler /\ started.task_running
    <3>1. started \in Handler /\ Same(started, g)
      BY Zenon, Pauses
    <3> HIDE DEF started
    <3> QED
      BY Zenon, <3>1 DEF Same
  <2>2. resumed \in Handler /\ resumed.task_running
    <3>1. resumed \in Handler /\ Same(resumed, g)
      BY Zenon, Pauses
    <3> HIDE DEF resumed
    <3> QED
      BY Zenon, <3>1 DEF Same
  <2>3. /\ site = "PausedOnStart" =>
             IF ShouldPauseOnStart(status, g) THEN TaskReturns(g)
             ELSE CheckPausedOnExit(status, started)
        /\ site = "PausedOnExit" =>
             IF ShouldPauseOnExit(status, g) THEN TaskReturns(g)
             ELSE HandlePending(status, resumed)
        /\ site = "Main" => Finish(status, g)
        /\ site = "Exiting" =>
             IF ShouldPauseOnExit(status, g) THEN TaskReturns(g)
             ELSE Stop(resumed)
    BY Zenon DEF AfterHandleMessages
  <2> HIDE DEF started, resumed
  <2>4. CASE site = "PausedOnStart"
    BY Zenon, <2>1, <2>3, <2>4, <1>ReturnsHears, <1>PausedOnExitHears
  <2>5. CASE site = "PausedOnExit"
    BY Zenon, <2>2, <2>3, <2>5, <1>ReturnsHears, <1>PendingHears
  <2>6. CASE site = "Main"
    BY Zenon, <2>3, <2>6, <1>FinishHears
  <2>7. CASE site = "Exiting"
    BY Zenon, <2>2, <2>3, <2>7, <1>ReturnsHears, <1>OutHears
  <2> QED
    BY Zenon, <2>4, <2>5, <2>6, <2>7 DEF TaskSites

(* A step within the outermost call leaves its frame as it is. *)
<1>InnerHears.
    ASSUME frames # <<>>, frames' # <<>>,
           frames'[1].site = frames[1].site,
           frames[1].site = "Main" => frames'[1].allow /\ frames'[1].multiple,
           h'.task_running = h.task_running, h'.pool = h.pool,
           h'.is_paused_on_start = h.is_paused_on_start,
           h'.is_paused_on_exit = h.is_paused_on_exit
    PROVE  Drained' /\ Bottom'
  <2> USE <1>InnerHears
  <2>1. h'.task_running \/ ~h'.pool
    BY Zenon, <1>Running
  <2>2. Drained'
    BY Zenon, <2>1 DEF Drained
  <2>3. Bottom'
    BY Zenon DEF Bottom
  <2> QED
    BY Zenon, <2>2, <2>3

(* The innermost HandleMessages returns because it found no message. *)
<1>ReturnHears.
    ASSUME frames # <<>>, NEW g \in Handler, Same(g, h),
           Still(g, h), NEW status, Return(status, g), oob_queue' = <<>>,
           Top.site = "Main" /\ status = "kOK" => queue' = <<>> \/ g.paused > 0
    PROVE  Drained' /\ Bottom'
  <2> USE <1>ReturnHears
  <2> DEFINE site == Top.site
             k == [g EXCEPT !.paused_for_messages = FALSE]
  <2>1. /\ site \in {"OOB", "WaitDone"} => frames' = Unwound(status) /\ h' = g
        /\ site = "Next" => frames' = <<>> /\ h' = g
        /\ site = "Wait" =>
             IF status # "kOK" THEN frames' = Unwound(status) /\ h' = k
             ELSE \/ WaitsAgain(g)
                  \/ WaitEnds(g)
        /\ site \in TaskSites => AfterHandleMessages(site, status, g)
    BY Zenon DEF Return, TaskSites
  <2> HIDE DEF site
  <2>2. site \in Sites
    BY Zenon, TopFrame DEF Frame, site
  <2>3. /\ k.task_running = h.task_running /\ k.pool = h.pool
        /\ k.is_paused_on_start = h.is_paused_on_start
        /\ k.is_paused_on_exit = h.is_paused_on_exit
    <3>1. Same(k, g)
      BY Zenon, Pauses
    <3>2. /\ k.is_paused_on_start = g.is_paused_on_start
          /\ k.is_paused_on_exit = g.is_paused_on_exit
      BY Zenon, PauseMessagesStill
    <3> HIDE DEF k
    <3> QED
      BY Zenon, <3>1, <3>2 DEF Same, Still
  <2> HIDE DEF k
  <2>4. Len(frames) \in Nat \ {0} /\ (site \in InnerSites <=> Len(frames) > 1)
    BY Zenon, TopFrame DEF site
  <2>5. ASSUME site \in InnerSites,
               \/ frames' = Unwound(status)
               \/ \E f : frames' = Append(Below, f),
               h' = g \/ h' = k
        PROVE  Drained' /\ Bottom'
    <3>1. /\ frames' # <<>> /\ frames'[1].site = frames[1].site
          /\ frames'[1].allow = frames[1].allow
          /\ frames'[1].multiple = frames[1].multiple
      <4>1. 1 \in 1 .. Len(frames) - 1
        BY <2>4, <2>5
      <4>2. CASE frames' = Unwound(status)
        BY Zenon, <2>4, <2>5, <4>1, <4>2, UnwoundShape DEF Alike
      <4>3. CASE \E f : frames' = Append(Below, f)
        BY Zenon, <4>1, <4>3, ReplaceShape
      <4> QED
        BY Zenon, <2>5, <4>2, <4>3
    <3>2. frames[1].site = "Main" => frames[1].allow /\ frames[1].multiple
      BY Zenon DEF Bottom
    <3>3. /\ h'.task_running = h.task_running /\ h'.pool = h.pool
          /\ h'.is_paused_on_start = h.is_paused_on_start
          /\ h'.is_paused_on_exit = h.is_paused_on_exit
      BY Zenon, <2>3, <2>5 DEF Same, Still
    <3> QED
      BY Zenon, <3>1, <3>2, <3>3, <1>InnerHears
  <2>6. CASE site \in InnerSites
    BY Zenon, <2>1, <2>5, <2>6 DEF InnerSites, WaitsAgain, WaitEnds, k
  <2>7. CASE site = "Next"
    <3>1. h'.task_running \/ ~h'.pool
      BY Zenon, <2>1, <2>7, <1>Running DEF Same
    <3> QED
      BY Zenon, <2>1, <2>7, <3>1 DEF Drained, Bottom
  <2>8. CASE site \in TaskSites
    <3>1. Len(frames) = 1 /\ Top = frames[1]
      BY Zenon, <2>8, OutermostTop DEF InnerSites, TaskSites, site
    <3>2. g.task_running
      <4>1. Kind # "embedder"
        BY <2>4, <2>8, <3>1, TopFrame DEF IInv, Stack, TaskSites, site
      <4> QED
        BY Zenon, <4>1 DEF IInv, Stack, OneTask, InTask, Same
    <3>3. /\ site = "PausedOnStart" => g.is_paused_on_start
          /\ site \in {"PausedOnExit", "Exiting"} => g.is_paused_on_exit
      BY Zenon, <3>1 DEF Bottom, Still, site
    <3> QED
      BY Zenon, <2>1, <2>8, <3>2, <3>3, <1>AfterHears DEF site
  <2> QED
    BY Zenon, <2>2, <2>6, <2>7, <2>8 DEF Sites, TaskSites, InnerSites

(* The innermost HandleMessages, in frame f, takes a message or returns. *)
<1>NextMessageHears.
    ASSUME frames # <<>>, NEW f \in Frame,
           f.site = Top.site, f.multiple = Top.multiple,
           Top.site = "Main" => f.allow,
           NEW g \in Handler, Same(g, h), Still(g, h), NextMessage(f, g)
    PROVE  Drained' /\ Bottom'
  <2> USE <1>NextMessageHears
  <2> DEFINE normal == f.status = "kOK" /\ f.allow /\ g.paused = 0
             next == DequeueMessage(normal)
  <2>1. CASE next = <<>>
    <3>1. Return(f.status, g) /\ UNCHANGED <<queue, oob_queue>>
      BY Zenon, <2>1 DEF NextMessage
    <3>2. oob_queue = <<>> /\ (normal => queue = <<>>)
      BY Zenon, <2>1 DEF DequeueMessage
    <3>3. g.paused \in Nat
      BY Zenon, HandlerFields
    <3>4. Top.site = "Main" /\ f.status = "kOK" => queue = <<>> \/ g.paused > 0
      BY <3>2, <3>3
    <3> QED
      BY Zenon, <3>1, <3>2, <3>4, <1>ReturnHears
  <2>2. CASE next # <<>>
    <3> DEFINE k == [f EXCEPT !.phase = "handling", !.message = next[1]]
    <3>1. frames' = Append(Below, k) /\ h' = g
      BY Zenon, <2>2 DEF NextMessage
    <3>2. k.site = f.site /\ k.allow = f.allow /\ k.multiple = f.multiple
      BY Zenon DEF Frame
    <3> HIDE DEF k, next
    <3>3. /\ Len(frames) \in Nat \ {0} /\ Top = frames[Len(frames)]
          /\ frames' # <<>> /\ frames'[Len(frames)] = k
          /\ \A i \in 1 .. Len(frames) - 1 : frames'[i] = frames[i]
      BY Zenon, <3>1, TopFrame, ReplaceShape DEF Top
    <3>4. /\ frames'[1].site = frames[1].site
          /\ frames[1].site = "Main" => frames'[1].allow /\ frames'[1].multiple
      <4>1. CASE Len(frames) = 1
        BY Zenon, <3>2, <3>3, <4>1 DEF Bottom
      <4>2. CASE Len(frames) # 1
        <5> DEFINE n == Len(frames)
        <5>1. n \in Nat \ {0} /\ n # 1
          BY Zenon, <3>3, <4>2
        <5> HIDE DEF n
        <5>2. 1 \in 1 .. n - 1
          BY <5>1
        <5>3. frames'[1] = frames[1]
          BY Zenon, <3>3, <5>2 DEF n
        <5> QED
          BY Zenon, <5>3 DEF Bottom
      <4> QED
        BY Zenon, <4>1, <4>2
    <3>5. /\ h'.task_running = h.task_running /\ h'.pool = h.pool
          /\ h'.is_paused_on_start = h.is_paused_on_start
          /\ h'.is_paused_on_exit = h.is_paused_on_exit
      BY Zenon, <3>1 DEF Same, Still
    <3> QED
      BY Zenon, <3>3, <3>4, <3>5, <1>InnerHears
  <2> QED
    BY Zenon, <2>1, <2>2

(* The steps that leave the pause flags, the stack and the task alone. *)
<1>QuietHears.
    ASSUME frames' = frames,
           h'.pool = h.pool, h'.task_running = h.task_running,
           h'.paused = h.paused, Still(h', h),
           queue' \in {queue, <<>>}, oob_queue' \in {oob_queue, <<>>}
    PROVE  Drained' /\ Bottom'
  <2> USE <1>QuietHears
  <2>1. Drained'
    BY Zenon DEF Drained, Still
  <2>2. Bottom'
    BY Zenon DEF Bottom, Still
  <2> QED
    BY Zenon, <2>1, <2>2

(* A post starts a task where there is none. *)
<1>PostHears.
    ASSUME NEW m, NEW before_events, Post(m, before_events)
    PROVE  Drained' /\ Bottom'
  <2> USE <1>PostHears
  <2>1. /\ Still(h', h) /\ h'.pool => h'.task_running
    BY Zenon, PostFrame
  <2>2. Drained'
    BY Zenon, PostFrame DEF Drained
  <2>3. NotifyWaiter
    BY Zenon DEF Post
  <2>4. /\ frames' = <<>> <=> frames = <<>>
        /\ frames # <<>> => /\ frames'[1].site = frames[1].site
                            /\ frames'[1].allow = frames[1].allow
                            /\ frames'[1].multiple = frames[1].multiple
    <3>1. frames # <<>> => 1 \in DOMAIN frames
      BY TopFrame
    <3> QED
      BY Zenon, <2>3, <3>1, NotifyShape
  <2>5. Bottom'
    <3>1. Still(h', h)
      BY Zenon, PostFrame
    <3> QED
      BY Zenon, <2>4, <3>1 DEF Bottom, Still
  <2> QED
    BY Zenon, <2>2, <2>5

<1>1. CASE Quiet
  <2>1. queue' \in {queue, <<>>} /\ oob_queue' \in {oob_queue, <<>>}
    BY Zenon, <1>1, QuietFrame
  <2> QED
    BY Zenon, <1>1, <2>1, QuietFrame, <1>QuietHears
<1>2. CASE Run
  <2> DEFINE k == [h EXCEPT !.pool = TRUE, !.task_running = TRUE]
  <2>1. k.task_running
    BY Zenon, ThisHandler, PoolSet
  <2>2. h' = k /\ frames' = frames /\ task = "new"
    BY Zenon, <1>2 DEF Run
  <2> HIDE DEF k
  <2>3. frames = <<>>
    BY Zenon, <2>2 DEF IInv, Stack, IsolateLife
  <2> QED
    BY Zenon, <2>1, <2>2, <2>3 DEF Drained, Bottom
<1>3. CASE \E m \in Events \cup OOBs, p \in Port : PostMessage(m, p)
  BY Zenon, <1>3, <1>PostHears DEF PostMessage
<1>4. CASE \E m \in Controls, before_events \in BOOLEAN :
             PostDelayed(m, before_events)
  BY Zenon, <1>4, <1>PostHears DEF PostDelayed
<1>5. CASE TaskCallback
  <2>1. h \in Handler /\ h.task_running
    BY Zenon, <1>5, ThisHandler DEF TaskCallback, IInv, OneTask
  <2>2. CASE ShouldPauseOnStart("kOK", h) /\ h.is_paused_on_start
    BY Zenon, <1>5, <2>1, <2>2, <1>CallHears DEF TaskCallback, TaskSites
  <2>3. CASE ShouldPauseOnStart("kOK", h) /\ ~h.is_paused_on_start
    BY Zenon, <1>5, <2>1, <2>3, <1>OutHears DEF TaskCallback
  <2>4. CASE ~ShouldPauseOnStart("kOK", h)
    BY Zenon, <1>5, <2>1, <2>4, <1>PausedOnExitHears DEF TaskCallback
  <2> QED
    BY Zenon, <2>2, <2>3, <2>4
<1>6. CASE PauseNotified
  <2>1. h \in Handler /\ h.task_running
    BY Zenon, <1>6, ThisHandler DEF PauseNotified, IInv, OneTask, InTask
  <2>2. CASE task = "NotifyPauseOnStart"
    <3> DEFINE k == [h EXCEPT !.is_paused_on_start = TRUE]
    <3>1. k \in Handler /\ Same(k, h) /\ k.is_paused_on_start
      BY Zenon, <2>1, Pauses, PauseStartStill
    <3>2. CallHandleMessages("PausedOnStart", FALSE, FALSE, k)
      BY Zenon, <1>6, <2>2 DEF PauseNotified
    <3> HIDE DEF k
    <3>3. k.task_running
      BY Zenon, <2>1, <3>1 DEF Same
    <3> QED
      BY Zenon, <3>1, <3>2, <3>3, <1>CallHears DEF TaskSites
  <2>3. CASE task = "NotifyPauseOnExit"
    <3> DEFINE k == [h EXCEPT !.is_paused_on_exit = TRUE]
    <3>1. k \in Handler /\ Same(k, h) /\ k.is_paused_on_exit
      BY Zenon, <2>1, Pauses, PauseExitStill
    <3>2. CallHandleMessages("Exiting", FALSE, FALSE, k)
      BY Zenon, <1>6, <2>3 DEF PauseNotified
    <3> HIDE DEF k
    <3>3. k.task_running
      BY Zenon, <2>1, <3>1 DEF Same
    <3> QED
      BY Zenon, <3>1, <3>2, <3>3, <1>CallHears DEF TaskSites
  <2> QED
    BY Zenon, <1>6, <2>2, <2>3 DEF PauseNotified
<1>7. CASE EnterHandleMessages
  <2>1. h \in Handler /\ Same(h, h) /\ Still(h, h)
    BY Zenon, ThisHandler DEF Same, Still
  <2>2. frames # <<>> /\ Top \in Frame /\ NextMessage(Top, h)
    BY Zenon, <1>7, TopFrame DEF EnterHandleMessages
  <2>3. Top.site = "Main" => Top.allow
    BY Zenon, <2>2, OutermostTop DEF Bottom, InnerSites
  <2> QED
    BY Zenon, <2>1, <2>2, <2>3, <1>NextMessageHears
<1>8. CASE MessageHandled
  <2>1. frames # <<>>
    BY Zenon, <1>8 DEF MessageHandled, Handling
  <2>2. Top.site = "Main" => Top.allow /\ Top.multiple
    BY Zenon, <2>1, OutermostTop DEF Bottom, InnerSites
  <2>3. PICK g \in Handler :
           /\ Same(g, h) /\ Still(g, h)
           /\ \/ /\ oob_queue' = <<>>
                 /\ Return("kShutdown", g)
              \/ \E f \in Frame :
                   /\ f.site = Top.site /\ f.multiple = Top.multiple
                   /\ Top.multiple => f.allow = Top.allow
                   /\ NextMessage(f, g)
    BY Zenon, <1>8, HandledCases
  <2>4. CASE oob_queue' = <<>> /\ Return("kShutdown", g)
    BY Zenon, <2>1, <2>3, <2>4, <1>ReturnHears
  <2>5. ASSUME NEW f \in Frame, f.site = Top.site, f.multiple = Top.multiple,
               Top.multiple => f.allow = Top.allow, NextMessage(f, g)
        PROVE  Drained' /\ Bottom'
    BY Zenon, <2>1, <2>2, <2>3, <2>5, <1>NextMessageHears
  <2> QED
    BY Zenon, <2>3, <2>4, <2>5
<1>9. CASE HandleOOBMessages
  <2>1. frames # <<>> /\ h' = h
    BY Zenon, <1>9 DEF HandleOOBMessages, Busy, Handling
  <2>2. frames' # <<>> /\ frames'[1] = frames[1]
    <3>1. \E f : frames' = Append(frames, f)
      BY Zenon, <1>9 DEF HandleOOBMessages
    <3> QED
      BY <2>1, <3>1, TopFrame, PushShape
  <2>3. frames[1].site = "Main" => frames[1].allow /\ frames[1].multiple
    BY Zenon, <2>1 DEF Bottom
  <2> QED
    BY Zenon, <2>1, <2>2, <2>3, <1>InnerHears
<1>10. CASE PauseAndHandleAllMessages
  <2>1. frames # <<>> /\ \E f : frames' = Append(frames, f)
    BY Zenon, <1>10 DEF PauseAndHandleAllMessages, Busy, Handling
  <2>2. frames' # <<>> /\ frames'[1] = frames[1]
    BY <2>1, TopFrame, PushShape
  <2>3. frames[1].site = "Main" => frames[1].allow /\ frames[1].multiple
    BY Zenon, <2>1 DEF Bottom
  <2>4. \E b \in BOOLEAN : h' = [h EXCEPT !.paused_for_messages = b]
    BY Zenon, <1>10 DEF PauseAndHandleAllMessages
  <2>5. /\ h'.task_running = h.task_running /\ h'.pool = h.pool
        /\ h'.is_paused_on_start = h.is_paused_on_start
        /\ h'.is_paused_on_exit = h.is_paused_on_exit
    BY Zenon, <2>4, WaitFlag
  <2> QED
    BY Zenon, <2>1, <2>2, <2>3, <2>5, <1>InnerHears
<1>11. CASE WaitNotified \/ WaitTimedOut
  <2>1. frames # <<>> /\ \E f : frames' = Append(Below, f)
    BY Zenon, <1>11 DEF WaitNotified, WaitTimedOut, WaitFrame, WaitEnds
  <2>2. Len(frames) > 1
    <3>1. Top.site = "Wait"
      BY Zenon, <1>11, <2>1, TopFrame
      DEF WaitNotified, WaitTimedOut, WaitFrame, Waits
    <3> QED
      BY Zenon, <2>1, <3>1, TopFrame DEF InnerSites
  <2>3. frames' # <<>> /\ frames'[1] = frames[1]
    <3>1. 1 \in 1 .. Len(frames) - 1
      BY <2>1, <2>2, TopFrame
    <3> QED
      BY <2>1, <3>1, ReplaceShape
  <2>4. frames[1].site = "Main" => frames[1].allow /\ frames[1].multiple
    BY Zenon, <2>1 DEF Bottom
  <2>5. h' = h \/ h' = [h EXCEPT !.paused_for_messages = FALSE]
    BY Zenon, <1>11 DEF WaitNotified, WaitTimedOut, WaitEnds
  <2>6. /\ h'.task_running = h.task_running /\ h'.pool = h.pool
        /\ h'.is_paused_on_start = h.is_paused_on_start
        /\ h'.is_paused_on_exit = h.is_paused_on_exit
    BY Zenon, <2>5, WaitFlag
  <2> QED
    BY Zenon, <2>1, <2>3, <2>4, <2>6, <1>InnerHears
<1>12. CASE HandleNextMessage
  <2>1. /\ frames' = <<NewFrame("Next", TRUE, FALSE)>> /\ h' = h
        /\ Kind = "embedder"
    BY Zenon, <1>12 DEF HandleNextMessage
  <2>2. frames'[1].site = "Next"
    BY Zenon, <2>1 DEF NewFrame
  <2>3. ~h'.pool
    BY Zenon, <2>1 DEF IInv, IsolateLife
  <2> QED
    BY Zenon, <2>2, <2>3 DEF Drained, Bottom
<1> QED
  BY Zenon, <1>1, <1>2, <1>3, <1>4, <1>5, <1>6, <1>7, <1>8, <1>9, <1>10, <1>11,
     <1>12 DEF Next, Quiet

-----------------------------------------------------------------------------
(* A thread in PauseAndHandleAllMessages, when no out-of-band message runs *)
(* Dart_WaitForEvent.                                                      *)

(* HandleOOBMessages, and the thread while it waits, handle out-of-band    *)
(* messages only.                                                          *)
OOBOnly(f) ==
  f.site \in {"Wait", "OOB"} =>
    ~f.allow /\ (f.phase = "handling" => f.message \in OOBs)

(* Only calls of HandleOOBMessages are nested in a wait, of which          *)
(* paused_for_messages_ tells, and a thread waits for the first message.   *)
Waiting ==
  \A i \in DOMAIN frames :
    /\ OOBOnly(frames[i])
    /\ frames[i].site = "Wait" =>
         /\ h.paused_for_messages
         /\ \A j \in DOMAIN frames : j > i => frames[j].site = "OOB"
    /\ frames[i].phase = "waiting" => queue = <<>> /\ oob_queue = <<>>

(* The queues are as they were, or emptied. *)
NoMore ==
  /\ queue = <<>> => queue' = <<>>
  /\ oob_queue = <<>> => oob_queue' = <<>>

(* The stack of a task that begins or ends. *)
Fresh ==
  \/ frames' = <<>>
  \/ \E site \in TaskSites \cup {"Next"}, allow, multiple \in BOOLEAN :
       frames' = <<NewFrame(site, allow, multiple)>>

(* Every step leaves the waiting thread with all it has to know. *)
LEMMA WaitingNext ==
  ASSUME ~WaitInOOB, IInv, Waiting, [Next]_vars
  PROVE  Waiting'
(* A step that leaves the stack alone. *)
<1>QuietWaiting.
    ASSUME frames' = frames, NoMore,
           h'.paused_for_messages = h.paused_for_messages
    PROVE  Waiting'
  BY Zenon, <1>QuietWaiting DEF Waiting, OOBOnly, NoMore

(* On such a stack nobody waits. *)
<1>FreshWaiting.
    ASSUME Fresh
    PROVE  Waiting'
  <2> USE <1>FreshWaiting
  <2>1. CASE frames' = <<>>
    BY <2>1 DEF Waiting
  <2>2. ASSUME NEW site \in TaskSites \cup {"Next"}, NEW allow \in BOOLEAN,
               NEW multiple \in BOOLEAN,
               frames' = <<NewFrame(site, allow, multiple)>>
        PROVE  Waiting'
    <3> DEFINE f == NewFrame(site, allow, multiple)
    <3>1. f.site = site /\ f.phase = "enter"
      BY Zenon DEF NewFrame
    <3> HIDE DEF f
    <3>2. DOMAIN frames' = {1} /\ frames'[1] = f
      BY <2>2 DEF f
    <3> QED
      BY Zenon, <3>1, <3>2 DEF Waiting, OOBOnly, TaskSites
  <2> QED
    BY Zenon, <2>1, <2>2 DEF Fresh

(* TaskCallback leaves HandleMessages or calls it again. *)
<1>TaskFresh.
    ASSUME NEW status, NEW g
    PROVE  /\ Finish(status, g) => Fresh
           /\ HandlePending(status, g) => Fresh
           /\ CheckPausedOnExit(status, g) => Fresh
           /\ TaskReturns(g) \/ Stop(g) => Fresh
  <2> USE <1>TaskFresh
  <2>1. TaskReturns(g) \/ Stop(g) => frames' = <<>>
    BY Zenon DEF TaskReturns, Stop, CallOut
  <2>2. Finish(status, g) => frames' = <<>>
    BY Zenon, <2>1 DEF Finish, CallOut
  <2>3. HandlePending(status, g) => Fresh
    BY Zenon, <2>2 DEF HandlePending, CallHandleMessages, Fresh, TaskSites
  <2>4. CheckPausedOnExit(status, g) => Fresh
    BY Zenon, <2>3 DEF CheckPausedOnExit, CallHandleMessages, Fresh, TaskSites
  <2> QED
    BY Zenon, <2>1, <2>2, <2>3, <2>4 DEF Fresh

(* The same when HandleMessages has returned to it. *)
<1>AfterFresh.
    ASSUME NEW site \in TaskSites, NEW status, NEW g,
           AfterHandleMessages(site, status, g)
    PROVE  Fresh
  <2> USE <1>AfterFresh
  <2> DEFINE started == [g EXCEPT !.is_paused_on_start = FALSE]
             resumed == [g EXCEPT !.is_paused_on_exit = FALSE]
  <2>1. \/ TaskReturns(g)
        \/ CheckPausedOnExit(status, started)
        \/ HandlePending(status, resumed)
        \/ Finish(status, g)
        \/ Stop(resumed)
    <3>1. /\ site = "PausedOnStart" =>
               IF ShouldPauseOnStart(status, g) THEN TaskReturns(g)
               ELSE CheckPausedOnExit(status, started)
          /\ site = "PausedOnExit" =>
               IF ShouldPauseOnExit(status, g) THEN TaskReturns(g)
               ELSE HandlePending(status, resumed)
          /\ site = "Main" => Finish(status, g)
          /\ site = "Exiting" =>
               IF ShouldPauseOnExit(status, g) THEN TaskReturns(g)
               ELSE Stop(resumed)
      BY Zenon DEF AfterHandleMessages
    <3> HIDE DEF started, resumed
    <3> QED
      BY Zenon, <3>1 DEF TaskSites
  <2> HIDE DEF started, resumed
  <2> QED
    BY Zenon, <2>1, <1>TaskFresh

(* The isolate calls HandleMessages. *)
<1>PushWaiting.
    ASSUME frames # <<>>, NoMore, NEW f,
           frames' = Append(frames, f), OOBOnly(f),
           \/ /\ f.site = "OOB"
              /\ h'.paused_for_messages = h.paused_for_messages
           \/ \A i \in DOMAIN frames : frames[i].site # "Wait",
           f.site = "Wait" => h'.paused_for_messages,
           f.phase = "waiting" => queue' = <<>> /\ oob_queue' = <<>>
    PROVE  Waiting'
  <2> USE <1>PushWaiting
  <2>1. /\ DOMAIN frames' = 1 .. Len(frames) + 1
        /\ frames'[Len(frames) + 1] = f
        /\ \A i \in 1 .. Len(frames) : frames'[i] = frames[i]
    BY Zenon, PushShape
  <2>2. DOMAIN frames = 1 .. Len(frames) /\ Len(frames) \in Nat
    BY Zenon, TopFrame
  <2>3. ASSUME NEW i \in DOMAIN frames'
        PROVE  /\ OOBOnly(frames'[i])
               /\ frames'[i].site = "Wait" =>
                    /\ h'.paused_for_messages
                    /\ \A j \in DOMAIN frames' : j > i => frames'[j].site = "OOB"
               /\ frames'[i].phase = "waiting" =>
                    queue' = <<>> /\ oob_queue' = <<>>
    <3>1. CASE i = Len(frames) + 1
      <4>1. frames'[i] = f
        BY Zenon, <2>1, <3>1
      <4>2. ASSUME NEW j \in DOMAIN frames'
            PROVE  ~(j > i)
        <5>1. j \in 1 .. Len(frames) + 1
          BY Zenon, <2>1
        <5>2. ~(j > Len(frames) + 1)
          BY Zenon, <2>2, <5>1, NoneAbove
        <5> QED
          BY Zenon, <3>1, <5>2
      <4> QED
        BY Zenon, <4>1, <4>2
    <3>2. CASE i \in 1 .. Len(frames)
      <4>1. i \in DOMAIN frames /\ frames'[i] = frames[i]
        BY Zenon, <2>1, <2>2, <3>2
      <4>2. OOBOnly(frames'[i])
        BY Zenon, <4>1 DEF Waiting
      <4>3. frames'[i].phase = "waiting" => queue' = <<>> /\ oob_queue' = <<>>
        BY Zenon, <4>1 DEF Waiting, NoMore
      <4>4. ASSUME frames'[i].site = "Wait", NEW j \in DOMAIN frames', j > i
            PROVE  frames'[j].site = "OOB"
        <5>1. f.site = "OOB"
          BY Zenon, <4>1, <4>4
        <5>2. CASE j = Len(frames) + 1
          BY Zenon, <2>1, <5>1, <5>2
        <5>3. CASE j \in 1 .. Len(frames)
          BY Zenon, <2>1, <2>2, <4>1, <4>4, <5>3 DEF Waiting
        <5> QED
          BY <2>1, <2>2, <5>2, <5>3
      <4>5. frames'[i].site = "Wait" => h'.paused_for_messages
        BY Zenon, <4>1 DEF Waiting
      <4> QED
        BY Zenon, <4>2, <4>3, <4>4, <4>5
    <3>3. i = Len(frames) + 1 \/ i \in 1 .. Len(frames)
      BY <2>1, <2>2
    <3> QED
      BY Zenon, <3>1, <3>2, <3>3
  <2> QED
    BY Zenon, <2>3 DEF Waiting, OOBOnly

(* The innermost call goes on. *)
<1>ReplaceWaiting.
    ASSUME frames # <<>>, NEW f,
           frames' = Append(Below, f), OOBOnly(f),
           \/ f.site = Top.site /\ h'.paused_for_messages = h.paused_for_messages
           \/ Top.site = "Wait",
           f.site = "Wait" => h'.paused_for_messages,
           f.phase = "waiting" => queue' = <<>> /\ oob_queue' = <<>>,
           NoMore \/ queue # <<>> \/ oob_queue # <<>>
    PROVE  Waiting'
  <2> USE <1>ReplaceWaiting
  <2> DEFINE n == Len(frames)
  <2>1. /\ DOMAIN frames' = 1 .. n
        /\ frames'[n] = f
        /\ \A i \in 1 .. n - 1 : frames'[i] = frames[i]
    BY Zenon, ReplaceShape
  <2>2. /\ DOMAIN frames = 1 .. n /\ n \in Nat \ {0}
        /\ Top = frames[n]
    BY Zenon, TopFrame DEF Top
  <2> HIDE DEF n
  <2>3. ASSUME NEW i \in DOMAIN frames'
        PROVE  /\ OOBOnly(frames'[i])
               /\ frames'[i].site = "Wait" =>
                    /\ h'.paused_for_messages
                    /\ \A j \in DOMAIN frames' : j > i => frames'[j].site = "OOB"
               /\ frames'[i].phase = "waiting" =>
                    queue' = <<>> /\ oob_queue' = <<>>
    <3>1. CASE i = n
      BY <2>1, <2>2, <3>1
    <3>2. CASE i \in 1 .. n - 1
      <4>1. i \in DOMAIN frames /\ frames'[i] = frames[i] /\ n > i
        BY <2>1, <2>2, <3>2
      <4>2. OOBOnly(frames'[i])
        BY Zenon, <4>1 DEF Waiting
      <4>3. frames'[i].phase = "waiting" => queue' = <<>> /\ oob_queue' = <<>>
        BY Zenon, <4>1 DEF Waiting, NoMore
      <4>4. frames'[i].site = "Wait" => Top.site = "OOB"
        BY <2>2, <4>1 DEF Waiting
      <4>5. ASSUME frames'[i].site = "Wait", NEW j \in DOMAIN frames', j > i
            PROVE  frames'[j].site = "OOB"
        <5>1. CASE j = n
          BY Zenon, <2>1, <4>4, <4>5, <5>1
        <5>2. CASE j \in 1 .. n - 1
          BY Zenon, <2>1, <2>2, <4>1, <4>5, <5>2 DEF Waiting
        <5> QED
          BY <2>1, <2>2, <5>1, <5>2
      <4>6. frames'[i].site = "Wait" => h'.paused_for_messages
        BY Zenon, <4>1, <4>4 DEF Waiting
      <4> QED
        BY Zenon, <4>2, <4>3, <4>5, <4>6
    <3>3. i = n \/ i \in 1 .. n - 1
      BY <2>1, <2>2
    <3> QED
      BY Zenon, <3>1, <3>2, <3>3
  <2> QED
    BY Zenon, <2>3 DEF Waiting, OOBOnly

(* The innermost call returns to the message below. *)
<1>UnwoundWaiting.
    ASSUME frames # <<>>, Len(frames) > 1, NEW status, NoMore,
           frames' = Unwound(status),
           \/ Top.site # "OOB"
           \/ h'.paused_for_messages = h.paused_for_messages
    PROVE  Waiting'
  <2> USE <1>UnwoundWaiting
  <2>1. /\ DOMAIN frames' = 1 .. Len(frames) - 1
        /\ \A i \in 1 .. Len(frames) - 1 : Alike(frames'[i], frames[i])
    BY Zenon, UnwoundShape
  <2>2. /\ DOMAIN frames = 1 .. Len(frames) /\ Len(frames) \in Nat \ {0}
        /\ Top = frames[Len(frames)]
    BY Zenon, TopFrame DEF Top
  <2>3. ASSUME NEW i \in DOMAIN frames'
        PROVE  /\ OOBOnly(frames'[i])
               /\ frames'[i].site = "Wait" =>
                    /\ h'.paused_for_messages
                    /\ \A j \in DOMAIN frames' : j > i => frames'[j].site = "OOB"
               /\ frames'[i].phase = "waiting" =>
                    queue' = <<>> /\ oob_queue' = <<>>
    <3>1. /\ i \in DOMAIN frames /\ Alike(frames'[i], frames[i])
          /\ Len(frames) \in DOMAIN frames /\ Len(frames) > i
      BY <2>1, <2>2
    <3>2. OOBOnly(frames'[i])
      BY Zenon, <3>1 DEF Waiting, OOBOnly, Alike
    <3>3. frames'[i].phase = "waiting" => queue' = <<>> /\ oob_queue' = <<>>
      BY Zenon, <3>1 DEF Waiting, NoMore, Alike
    <3>4. frames'[i].site = "Wait" => Top.site = "OOB" /\ h'.paused_for_messages
      BY Zenon, <2>2, <3>1 DEF Waiting, Alike
    <3>5. ASSUME frames'[i].site = "Wait", NEW j \in DOMAIN frames', j > i
          PROVE  frames'[j].site = "OOB"
      <4>1. j \in DOMAIN frames /\ Alike(frames'[j], frames[j])
        BY <2>1, <2>2
      <4> QED
        BY Zenon, <3>1, <3>5, <4>1 DEF Waiting, Alike
    <3> QED
      BY Zenon, <3>2, <3>3, <3>4, <3>5
  <2> QED
    BY Zenon, <2>3 DEF Waiting, OOBOnly

(* The innermost HandleMessages returns. *)
<1>ReturnWaiting.
    ASSUME frames # <<>>, NEW g \in Handler, Still(g, h),
           NEW status, Return(status, g), NoMore
    PROVE  Waiting'
  <2> USE <1>ReturnWaiting
  <2> DEFINE site == Top.site
             k == [g EXCEPT !.paused_for_messages = FALSE]
             wait == [NewFrame("Wait", FALSE, FALSE) EXCEPT !.phase = "waiting"]
             done == NewFrame("WaitDone", TRUE, TRUE)
  <2>1. /\ site \in {"OOB", "WaitDone"} => frames' = Unwound(status) /\ h' = g
        /\ site = "Next" => frames' = <<>>
        /\ site = "Wait" =>
             \/ frames' = Unwound(status)
             \/ /\ queue = <<>> /\ oob_queue = <<>>
                /\ frames' = Append(Below, wait) /\ h' = g
             \/ frames' = Append(Below, done)
        /\ site \in TaskSites => AfterHandleMessages(site, status, g)
    BY Zenon DEF Return, TaskSites, WaitsAgain, WaitEnds
  <2>2. /\ wait.site = "Wait" /\ ~wait.allow /\ wait.phase = "waiting"
        /\ done.site = "WaitDone" /\ done.phase = "enter"
    BY Zenon DEF NewFrame
  <2> HIDE DEF site, wait, done
  <2>3. site \in Sites /\ (site \in InnerSites <=> Len(frames) > 1)
    BY Zenon, TopFrame DEF Frame, site
  <2>4. CASE site \in {"OOB", "WaitDone"}
    <3>1. Len(frames) > 1 /\ frames' = Unwound(status)
          /\ h'.paused_for_messages = h.paused_for_messages
      BY Zenon, <2>1, <2>3, <2>4 DEF InnerSites, Still
    <3> QED
      BY Zenon, <3>1, <1>UnwoundWaiting
  <2>5. CASE site = "Next"
    BY Zenon, <2>1, <2>5, <1>FreshWaiting DEF Fresh
  <2>6. CASE site = "Wait"
    <3>1. Len(frames) > 1
      BY Zenon, <2>3, <2>6 DEF InnerSites
    <3>2. CASE frames' = Unwound(status)
      BY Zenon, <2>6, <3>1, <3>2, <1>UnwoundWaiting DEF site
    <3>3. CASE frames' = Append(Below, done)
      <4>1. OOBOnly(done)
        BY Zenon, <2>2 DEF OOBOnly
      <4> QED
        BY Zenon, <2>2, <2>6, <3>3, <4>1, <1>ReplaceWaiting DEF site
    <3>4. CASE /\ queue = <<>> /\ oob_queue = <<>>
               /\ frames' = Append(Below, wait) /\ h' = g
      <4>1. OOBOnly(wait)
        BY Zenon, <2>2 DEF OOBOnly
      <4>2. h.paused_for_messages
        BY <2>6, TopFrame DEF Waiting, Top, site
      <4>3. h'.paused_for_messages /\ queue' = <<>> /\ oob_queue' = <<>>
        BY Zenon, <3>4, <4>2 DEF Still, NoMore
      <4> QED
        BY Zenon, <2>2, <2>6, <3>4, <4>1, <4>3, <1>ReplaceWaiting DEF site
    <3> QED
      BY Zenon, <2>1, <2>6, <3>2, <3>3, <3>4
  <2>7. CASE site \in TaskSites
    BY Zenon, <2>1, <2>7, <1>AfterFresh, <1>FreshWaiting
  <2> QED
    BY Zenon, <2>3, <2>4, <2>5, <2>6, <2>7 DEF Sites, TaskSites

(* The innermost HandleMessages, in frame f, takes a message or returns. *)
<1>NextMessageWaiting.
    ASSUME frames # <<>>, NEW f \in Frame,
           f.site = Top.site, f.allow => Top.allow,
           NEW g \in Handler, Still(g, h), NextMessage(f, g)
    PROVE  Waiting'
  <2> USE <1>NextMessageWaiting
  <2> DEFINE normal == f.status = "kOK" /\ f.allow /\ g.paused = 0
             next == DequeueMessage(normal)
  <2>1. CASE next = <<>>
    <3>1. Return(f.status, g) /\ UNCHANGED <<queue, oob_queue>>
      BY Zenon, <2>1 DEF NextMessage
    <3> QED
      BY Zenon, <3>1, <1>ReturnWaiting DEF NoMore
  <2>2. CASE next # <<>>
    <3> DEFINE k == [f EXCEPT !.phase = "handling", !.message = next[1]]
    <3>1. frames' = Append(Below, k) /\ h' = g
      BY Zenon, <2>2 DEF NextMessage
    <3>2. /\ k.site = f.site /\ k.allow = f.allow /\ k.phase = "handling"
          /\ k.message = next[1]
      BY Zenon DEF Frame
    <3> HIDE DEF k
    <3>3. queue # <<>> \/ oob_queue # <<>>
      BY Zenon, <2>2 DEF DequeueMessage
    <3>4. ~f.allow => next[1] \in OOBs
      <4>1. oob_queue \in Seq(OOBs)
        BY Zenon DEF IInv, TypeOK
      <4>2. oob_queue # <<>> => Head(oob_queue) \in OOBs
        BY <4>1
      <4>3. CASE oob_queue # <<>>
        <5>1. next = <<Head(oob_queue)>>
          BY Zenon, <4>3 DEF DequeueMessage
        <5>2. next[1] = Head(oob_queue)
          BY <5>1
        <5> QED
          BY Zenon, <4>2, <4>3, <5>2
      <4>4. CASE oob_queue = <<>>
        <5>1. f.allow
          BY Zenon, <2>2, <4>4 DEF DequeueMessage
        <5> QED
          BY Zenon, <5>1
      <4> QED
        BY Zenon, <4>3, <4>4
    <3> HIDE DEF next
    <3>5. OOBOnly(Top) /\ (Top.site = "Wait" => h.paused_for_messages)
      <4>1. Top = frames[Len(frames)] /\ Len(frames) \in DOMAIN frames
        BY TopFrame DEF Top
      <4> QED
        BY Zenon, <4>1 DEF Waiting
    <3>6. OOBOnly(k)
      BY Zenon, <3>2, <3>4, <3>5 DEF OOBOnly
    <3>7. h'.paused_for_messages = h.paused_for_messages
      BY Zenon, <3>1 DEF Still
    <3> QED
      BY Zenon, <3>1, <3>2, <3>3, <3>5, <3>6, <3>7, <1>ReplaceWaiting
  <2> QED
    BY Zenon, <2>1, <2>2

(* A post notifies the thread that waits. *)
<1>PostWaiting.
    ASSUME NEW m, NEW before_events, Post(m, before_events)
    PROVE  Waiting'
  <2> USE <1>PostWaiting
  <2>1. h'.paused_for_messages = h.paused_for_messages
    BY Zenon, PostFrame DEF Still
  <2>2. NotifyWaiter
    BY Zenon DEF Post
  <2>3. ASSUME NEW i \in DOMAIN frames
        PROVE  /\ OOBOnly(frames'[i])
               /\ frames'[i].site = frames[i].site
               /\ frames'[i].phase # "waiting"
    <3>1. OOBOnly(frames[i])
      BY Zenon DEF Waiting
    <3>2. CASE frames[i].phase = "waiting"
      <4>1. h.paused_for_messages
        BY Zenon, <3>2 DEF Waiting, IInv, Stack, Waits
      <4>2. /\ frames'[i].phase = "notified"
            /\ frames'[i].site = frames[i].site
            /\ frames'[i].allow = frames[i].allow
        BY Zenon, <2>2, <3>2, <4>1, NotifyShape
      <4> QED
        BY Zenon, <3>1, <4>2 DEF OOBOnly
    <3>3. CASE frames[i].phase # "waiting"
      BY Zenon, <2>2, <3>1, <3>3, NotifyShape
    <3> QED
      BY Zenon, <3>2, <3>3
  <2>4. DOMAIN frames' = DOMAIN frames
    BY Zenon, <2>2, NotifyShape
  <2> QED
    BY Zenon, <2>1, <2>3, <2>4 DEF Waiting, OOBOnly

(* No thread waits below a message that is not out-of-band. *)
<1>NoWaitBelow.
    ASSUME Handling, Top.message \notin OOBs
    PROVE  \A i \in DOMAIN frames : frames[i].site # "Wait"
  <2> USE <1>NoWaitBelow
  <2>1. frames # <<>> /\ Top.phase = "handling"
    BY Zenon DEF Handling
  <2> DEFINE n == Len(frames)
  <2>2. n \in Nat \ {0} /\ DOMAIN frames = 1 .. n /\ Top = frames[n]
    BY Zenon, <2>1, TopFrame DEF Top
  <2> HIDE DEF n
  <2>3. Top.site \notin {"Wait", "OOB"}
    BY <2>1, <2>2 DEF Waiting, OOBOnly
  <2>4. ASSUME NEW i \in DOMAIN frames, frames[i].site = "Wait"
        PROVE  FALSE
    <3>1. i = n \/ n > i
      BY <2>2
    <3> QED
      BY <2>2, <2>3, <2>4, <3>1 DEF Waiting
  <2> QED
    BY Zenon, <2>4

<1>1. CASE Quiet
  <2>1. NoMore
    BY Zenon, <1>1, QuietFrame DEF NoMore
  <2>2. frames' = frames /\ h'.paused_for_messages = h.paused_for_messages
    BY Zenon, <1>1, QuietFrame DEF Still
  <2> QED
    BY Zenon, <2>1, <2>2, <1>QuietWaiting
<1>2. CASE Run
  <2>1. frames' = frames /\ task = "new"
    BY Zenon, <1>2 DEF Run
  <2>2. frames = <<>>
    BY Zenon, <2>1 DEF IInv, Stack, IsolateLife
  <2> QED
    BY Zenon, <2>1, <2>2, <1>FreshWaiting DEF Fresh
<1>3. CASE \E m \in Events \cup OOBs, p \in Port : PostMessage(m, p)
  BY Zenon, <1>3, <1>PostWaiting DEF PostMessage
<1>4. CASE \E m \in Controls, before_events \in BOOLEAN :
             PostDelayed(m, before_events)
  BY Zenon, <1>4, <1>PostWaiting DEF PostDelayed
<1>5. CASE TaskCallback
  <2>1. \/ CallHandleMessages("PausedOnStart", FALSE, FALSE, h)
        \/ CallOut("NotifyPauseOnStart", h)
        \/ CheckPausedOnExit("kOK", h)
    BY Zenon, <1>5 DEF TaskCallback
  <2>2. Fresh
    BY Zenon, <2>1, <1>TaskFresh
       DEF CallHandleMessages, CallOut, Fresh, TaskSites
  <2> QED
    BY Zenon, <2>2, <1>FreshWaiting
<1>6. CASE PauseNotified
  <2>1. \E site \in TaskSites : frames' = <<NewFrame(site, FALSE, FALSE)>>
    BY Zenon, <1>6 DEF PauseNotified, CallHandleMessages, TaskSites
  <2> QED
    BY Zenon, <2>1, <1>FreshWaiting DEF Fresh
<1>7. CASE EnterHandleMessages
  <2>1. h \in Handler /\ Still(h, h)
    BY Zenon, ThisHandler DEF Still
  <2>2. frames # <<>> /\ Top \in Frame /\ NextMessage(Top, h)
    BY Zenon, <1>7, TopFrame DEF EnterHandleMessages
  <2> QED
    BY Zenon, <2>1, <2>2, <1>NextMessageWaiting
<1>8. CASE MessageHandled
  <2>1. frames # <<>>
    BY Zenon, <1>8 DEF MessageHandled, Handling
  <2>2. PICK g \in Handler :
           /\ Still(g, h)
           /\ \/ /\ oob_queue' = <<>>
                 /\ Return("kShutdown", g)
                 /\ UNCHANGED queue
              \/ \E f \in Frame :
                   /\ f.site = Top.site
                   /\ f.allow => Top.allow
                   /\ NextMessage(f, g)
    BY Zenon, <1>8, HandledCases
  <2>3. CASE oob_queue' = <<>> /\ Return("kShutdown", g) /\ UNCHANGED queue
    BY Zenon, <2>1, <2>2, <2>3, <1>ReturnWaiting DEF NoMore
  <2>4. ASSUME NEW f \in Frame, f.site = Top.site, f.allow => Top.allow,
               NextMessage(f, g)
        PROVE  Waiting'
    BY Zenon, <2>1, <2>2, <2>4, <1>NextMessageWaiting
  <2> QED
    BY Zenon, <2>2, <2>3, <2>4
<1>9. CASE HandleOOBMessages
  <2> DEFINE f == NewFrame("OOB", FALSE, FALSE)
  <2>1. f.site = "OOB" /\ ~f.allow /\ f.phase = "enter"
    BY Zenon DEF NewFrame
  <2>2. /\ frames # <<>> /\ frames' = Append(frames, f)
        /\ UNCHANGED <<h, queue, oob_queue>>
    BY Zenon, <1>9 DEF HandleOOBMessages, Busy, Handling
  <2> HIDE DEF f
  <2>3. NoMore /\ OOBOnly(f)
    BY Zenon, <2>1, <2>2 DEF NoMore, OOBOnly
  <2> QED
    BY Zenon, <2>1, <2>2, <2>3, <1>PushWaiting
<1>10. CASE PauseAndHandleAllMessages
  <2> DEFINE wait == [NewFrame("Wait", FALSE, FALSE)
                        EXCEPT !.phase = "waiting"]
             done == NewFrame("WaitDone", TRUE, TRUE)
  <2>1. /\ wait.site = "Wait" /\ ~wait.allow /\ wait.phase = "waiting"
        /\ done.site = "WaitDone" /\ done.phase = "enter"
    BY Zenon DEF NewFrame
  <2>2. /\ Handling /\ frames # <<>> /\ Top.message \notin OOBs
        /\ UNCHANGED <<queue, oob_queue>>
    BY Zenon, <1>10 DEF PauseAndHandleAllMessages, Busy, Handling
  <2>3. \/ /\ queue = <<>> /\ oob_queue = <<>>
           /\ frames' = Append(frames, wait)
           /\ h' = [h EXCEPT !.paused_for_messages = TRUE]
        \/ frames' = Append(frames, done)
    BY Zenon, <1>10 DEF PauseAndHandleAllMessages
  <2> HIDE DEF wait, done
  <2>4. \A i \in DOMAIN frames : frames[i].site # "Wait"
    BY Zenon, <2>2, <1>NoWaitBelow
  <2>5. NoMore /\ OOBOnly(wait) /\ OOBOnly(done)
    BY Zenon, <2>1, <2>2 DEF NoMore, OOBOnly
  <2>6. CASE /\ queue = <<>> /\ oob_queue = <<>>
             /\ frames' = Append(frames, wait)
             /\ h' = [h EXCEPT !.paused_for_messages = TRUE]
    <3>1. h'.paused_for_messages
      BY Zenon, <2>6, WaitFlag
    <3> QED
      BY Zenon, <2>1, <2>2, <2>4, <2>5, <2>6, <3>1, <1>PushWaiting
  <2>7. CASE frames' = Append(frames, done)
    BY Zenon, <2>1, <2>2, <2>4, <2>5, <2>7, <1>PushWaiting
  <2> QED
    BY Zenon, <2>3, <2>6, <2>7
<1>11. CASE WaitNotified \/ WaitTimedOut
  <2> DEFINE wait == NewFrame("Wait", FALSE, FALSE)
             done == NewFrame("WaitDone", TRUE, TRUE)
  <2>1. /\ wait.site = "Wait" /\ ~wait.allow /\ wait.phase = "enter"
        /\ done.site = "WaitDone" /\ done.phase = "enter"
    BY Zenon DEF NewFrame
  <2>2. /\ frames # <<>> /\ Top.phase \in {"waiting", "notified"}
        /\ UNCHANGED <<queue, oob_queue>>
    BY Zenon, <1>11 DEF WaitNotified, WaitTimedOut, WaitFrame
  <2>3. \/ frames' = Append(Below, wait) /\ h' = h
        \/ frames' = Append(Below, done)
    BY Zenon, <1>11 DEF WaitNotified, WaitTimedOut, WaitEnds
  <2> HIDE DEF wait, done
  <2>4. Top.site = "Wait" /\ h.paused_for_messages
    <3>1. Top.site = "Wait"
      BY Zenon, <2>2, TopFrame DEF Waits
    <3> QED
      BY <2>2, <3>1, TopFrame DEF Waiting, Top
  <2>5. NoMore /\ OOBOnly(wait) /\ OOBOnly(done)
    BY Zenon, <2>1, <2>2 DEF NoMore, OOBOnly
  <2>6. CASE frames' = Append(Below, wait) /\ h' = h
    BY Zenon, <2>1, <2>2, <2>4, <2>5, <2>6, <1>ReplaceWaiting
  <2>7. CASE frames' = Append(Below, done)
    BY Zenon, <2>1, <2>2, <2>4, <2>5, <2>7, <1>ReplaceWaiting
  <2> QED
    BY Zenon, <2>3, <2>6, <2>7
<1>12. CASE HandleNextMessage
  BY Zenon, <1>12, <1>FreshWaiting DEF HandleNextMessage, Fresh
<1> QED
  BY Zenon, <1>1, <1>2, <1>3, <1>4, <1>5, <1>6, <1>7, <1>8, <1>9, <1>10, <1>11,
     <1>12 DEF Next, Quiet

-----------------------------------------------------------------------------
(* An embedder that answers every notification, when no message pauses its *)
(* isolate.                                                                *)

(* Dart_HandleMessage has been called and has not yet taken its message. *)
Entering == frames # <<>> /\ frames[1].phase = "enter"

Unheard == Len(queue) + Len(oob_queue)

(* A post that has not yet notified the embedder will do so. *)
Heard ==
  notifications + (IF mutex = Free THEN 0 ELSE 1) + (IF Entering THEN 1 ELSE 0)

(* Every message is announced, and each announcement answered by a call    *)
(* that takes a message where there is one.                                *)
Answered ==
  Kind = "embedder" =>
    /\ h.paused = 0
    /\ Entering => frames[1].status = "kOK" /\ frames[1].allow
    /\ Unheard <= Heard

(* The numbers are numbers. *)
LEMMA HearingTypes ==
  ASSUME TypeOK
  PROVE  /\ Len(queue) \in Nat /\ Len(oob_queue) \in Nat
         /\ Unheard \in Nat /\ notifications \in Nat
         /\ Heard \in Nat
<1>1. /\ queue \in Seq(Events \cup Controls) /\ oob_queue \in Seq(OOBs)
      /\ notifications \in Nat
  BY Zenon DEF TypeOK
<1>2. Len(queue) \in Nat /\ Len(oob_queue) \in Nat
  BY Zenon, <1>1, LengthType
<1> QED
  BY <1>1, <1>2 DEF Unheard, Heard

(* The queues and the numbers in every state of the invariant. *)
LEMMA QueueTypes ==
  ASSUME IInv
  PROVE  /\ queue \in Seq(Events \cup Controls) /\ oob_queue \in Seq(OOBs)
         /\ Len(queue) \in Nat /\ Len(oob_queue) \in Nat
         /\ Unheard \in Nat /\ notifications \in Nat
<1>1. TypeOK
  BY Zenon DEF IInv
<1>2. queue \in Seq(Events \cup Controls) /\ oob_queue \in Seq(OOBs)
  BY Zenon, <1>1 DEF TypeOK
<1> QED
  BY Zenon, <1>1, <1>2, HearingTypes

(* The outermost call goes on as it is. *)
SameCall ==
  /\ Entering' <=> Entering
  /\ Entering => /\ frames'[1].status = frames[1].status
                 /\ frames'[1].allow = frames[1].allow

(* Every step leaves the embedder enough notifications. *)
LEMMA AnsweredNext ==
  ASSUME LibraryFacts,
         "embedder" \notin PauseKinds, IInv, Answered, [Next]_vars
  PROVE  Answered'
(* A step that announces nothing.  If the outermost call enters its loop,  *)
(* it takes a message unless there is none.                                *)
<1>AnsweredStep.
    ASSUME IInv', h'.kind = h.kind,
           Kind = "embedder" => h'.paused = 0,
           UNCHANGED <<mutex, notifications>>,
           \/ SameCall /\ Unheard' <= Unheard
           \/ ~Entering /\ ~Entering' /\ Unheard' <= Unheard
           \/ Entering /\ ~Entering' /\ (Unheard' = 0 \/ Unheard' + 1 <= Unheard)
    PROVE  Answered'
  <2> USE <1>AnsweredStep
  <2> SUFFICES ASSUME Kind' = "embedder"
               PROVE  /\ h'.paused = 0
                      /\ Entering' => frames'[1].status = "kOK" /\ frames'[1].allow
                      /\ Unheard' <= Heard'
    BY Zenon DEF Answered
  <2>1. Kind = "embedder"
    BY Zenon DEF Kind
  <2>2. /\ h.paused = 0 /\ Unheard <= Heard
        /\ Entering => frames[1].status = "kOK" /\ frames[1].allow
    BY Zenon, <2>1 DEF Answered
  <2>3. /\ Unheard \in Nat /\ Heard \in Nat /\ notifications \in Nat
        /\ Unheard' \in Nat /\ Heard' \in Nat
    <3>1. TypeOK /\ TypeOK'
      BY Zenon DEF IInv
    <3>2. Unheard \in Nat /\ Heard \in Nat /\ notifications \in Nat
      BY Zenon, <3>1, HearingTypes
    <3>3. Len(queue') \in Nat /\ Len(oob_queue') \in Nat
      <4>1. queue' \in Seq(Events \cup Controls) /\ oob_queue' \in Seq(OOBs)
        BY Zenon, <3>1 DEF TypeOK
      <4> QED
        BY Zenon, <4>1, LengthType
    <3>4. notifications' \in Nat
      BY Zenon, <3>1 DEF TypeOK
    <3> QED
      BY <3>2, <3>3, <3>4 DEF Unheard, Heard
  <2>4. /\ (Entering' <=> Entering) => Heard' = Heard
        /\ Entering /\ ~Entering' => Heard' + 1 = Heard
    BY <2>3 DEF Heard
  <2>5. Unheard' <= Heard'
    BY <2>2, <2>3, <2>4 DEF SameCall
  <2> QED
    BY Zenon, <2>1, <2>2, <2>5 DEF SameCall

(* The innermost call of an embedder's isolate returns. *)
<1>ReturnAnswered.
    ASSUME Kind = "embedder", frames # <<>>, NEW g \in Handler,
           Same(g, h), g.paused = 0, NEW status, Return(status, g)
    PROVE  /\ h'.kind = h.kind /\ h'.paused = 0
           /\ Len(frames) = 1 => ~Entering'
           /\ Len(frames) # 1 => SameCall
  <2> USE <1>ReturnAnswered
  <2> DEFINE site == Top.site
             k == [g EXCEPT !.paused_for_messages = FALSE]
  <2>1. /\ site \in {"OOB", "WaitDone"} => frames' = Unwound(status) /\ h' = g
        /\ site = "Next" => frames' = <<>> /\ h' = g
        /\ site = "Wait" =>
             IF status # "kOK" THEN frames' = Unwound(status) /\ h' = k
             ELSE \/ WaitsAgain(g)
                  \/ WaitEnds(g)
    BY Zenon DEF Return
  <2>2. k.paused = 0 /\ k.kind = h.kind
    <3>1. Same(k, g) /\ k.paused = g.paused
      BY Zenon, Pauses, PauseMessagesStill
    <3> HIDE DEF k
    <3> QED
      BY Zenon, <3>1 DEF Same
  <2>3. site = "Next" \/ site \in InnerSites
    <3>1. Len(frames) \in DOMAIN frames
      BY TopFrame
    <3> QED
      BY Zenon, <3>1 DEF IInv, Stack, Top, site
  <2>4. /\ site = "Next" => frames' = <<>> /\ h' = g
        /\ site \in InnerSites =>
             /\ frames' = Unwound(status) \/ \E f : frames' = Append(Below, f)
             /\ h' = g \/ h' = k
    BY Zenon, <2>1 DEF InnerSites, WaitsAgain, WaitEnds
  <2>5. Len(frames) \in Nat \ {0} /\ (site \in InnerSites <=> Len(frames) > 1)
    BY Zenon, TopFrame
  <2> HIDE DEF site, k
  <2>6. h'.kind = h.kind /\ h'.paused = 0
    BY Zenon, <2>2, <2>3, <2>4 DEF Same
  <2>7. CASE site = "Next"
    <3>1. Len(frames) = 1
      BY Zenon, <2>7, OutermostTop DEF InnerSites, site
    <3> QED
      BY Zenon, <2>4, <2>6, <2>7, <3>1 DEF Entering
  <2>8. CASE site \in InnerSites
    <3> DEFINE n == Len(frames)
    <3>1. n \in Nat \ {0} /\ n > 1
      BY Zenon, <2>5, <2>8
    <3> HIDE DEF n
    <3>2. 1 \in 1 .. n - 1 /\ n # 1
      BY <3>1
    <3>3. /\ frames' # <<>>
          /\ frames'[1].phase = frames[1].phase
          /\ frames'[1].status = frames[1].status
          /\ frames'[1].allow = frames[1].allow
      <4>1. CASE frames' = Unwound(status)
        BY <2>5, <2>8, <3>2, <4>1, UnwoundShape DEF Alike, n
      <4>2. CASE \E f : frames' = Append(Below, f)
        BY <3>2, <4>2, ReplaceShape DEF n
      <4> QED
        BY Zenon, <2>4, <2>8, <4>1, <4>2
    <3> QED
      BY Zenon, <2>6, <3>2, <3>3 DEF SameCall, Entering, n
  <2> QED
    BY Zenon, <2>3, <2>7, <2>8

(* The queue after its head is taken. *)
<1>TakenLength.
    ASSUME NEW S, NEW q \in Seq(S), q # <<>>
    PROVE  Len(Tail(q)) + 1 = Len(q)
  BY <1>TakenLength

(* The innermost call takes a message or returns. *)
<1>NextMessageAnswered.
    ASSUME IInv', Kind = "embedder", frames # <<>>,
           NEW f \in Frame, f.phase = Top.phase, Top.phase = "enter" => f = Top,
           NEW g \in Handler, Same(g, h), g.paused = 0,
           NextMessage(f, g), UNCHANGED <<mutex, notifications>>
    PROVE  Answered'
  <2> USE <1>NextMessageAnswered
  <2> DEFINE normal == f.status = "kOK" /\ f.allow /\ g.paused = 0
             next == DequeueMessage(normal)
             n == Len(frames)
  <2>1. n \in Nat \ {0} /\ Top = frames[n] /\ (n = 1 \/ 1 \in 1 .. n - 1)
    <3>1. n \in Nat \ {0}
      BY Zenon, TopFrame
    <3>2. Top = frames[n]
      BY Zenon DEF Top
    <3> QED
      BY Zenon, <3>1, <3>2, OutermostIndex
  <2>2. /\ Unheard = Len(queue) + Len(oob_queue)
        /\ Len(queue) \in Nat /\ Len(oob_queue) \in Nat
        /\ queue \in Seq(Events \cup Controls) /\ oob_queue \in Seq(OOBs)
    BY Zenon, QueueTypes DEF Unheard
  <2>3. Entering /\ n = 1 => normal
    BY Zenon, <2>1 DEF Entering, Answered
  <2>4. CASE next = <<>>
    <3>1. Return(f.status, g) /\ UNCHANGED <<queue, oob_queue>>
      BY Zenon, <2>4 DEF NextMessage
    <3>2. oob_queue = <<>> /\ (normal => queue = <<>>)
      BY Zenon, <2>4 DEF DequeueMessage
    <3>3. /\ h'.kind = h.kind /\ h'.paused = 0
          /\ n = 1 => ~Entering'
          /\ n # 1 => SameCall
      BY Zenon, <3>1, <1>ReturnAnswered
    <3>4. Unheard' = Unheard
      BY Zenon, <3>1 DEF Unheard
    <3>5. normal => Unheard = 0
      BY <2>2, <3>2
    <3> HIDE DEF n, normal, next
    <3>6. Unheard \in Nat
      BY <2>2
    <3>7. Unheard' <= Unheard /\ (normal => Unheard' = 0)
      BY <3>4, <3>5, <3>6
    <3>8. SameCall \/ (~Entering /\ ~Entering') \/ (Entering /\ ~Entering' /\ normal)
      BY Zenon, <2>3, <3>3
    <3> QED
      BY Zenon, <3>3, <3>7, <3>8, <1>AnsweredStep
  <2>5. CASE next # <<>>
    <3> DEFINE k == [f EXCEPT !.phase = "handling", !.message = next[1]]
    <3>1. frames' = Append(Below, k) /\ h' = g
      BY Zenon, <2>5 DEF NextMessage
    <3>2. k.phase = "handling"
      BY Zenon DEF Frame
    <3> HIDE DEF k
    <3>3. \/ oob_queue # <<>> /\ oob_queue' = Tail(oob_queue) /\ queue' = queue
          \/ queue # <<>> /\ queue' = Tail(queue) /\ oob_queue' = oob_queue
      <4>1. CASE oob_queue # <<>>
        <5>1. next = <<Head(oob_queue)>> /\ Head(oob_queue) \in OOBs
          BY <2>2, <4>1 DEF DequeueMessage
        <5> QED
          BY <2>5, <4>1, <5>1 DEF NextMessage
      <4>2. CASE oob_queue = <<>>
        <5>1. /\ next = <<Head(queue)>> /\ queue # <<>>
              /\ Head(queue) \in Events \cup Controls
          BY <2>2, <2>5, <4>2 DEF DequeueMessage
        <5>2. Head(queue) \notin OOBs
          BY Zenon, <5>1, HandlerAssumption
        <5> QED
          BY <2>5, <5>1, <5>2 DEF NextMessage
      <4> QED
        BY Zenon, <4>1, <4>2
    <3>4. Unheard' + 1 = Unheard /\ Unheard' \in Nat
      <4>1. CASE /\ oob_queue # <<>> /\ oob_queue' = Tail(oob_queue)
                 /\ queue' = queue
        <5>1. Len(oob_queue') + 1 = Len(oob_queue) /\ Len(oob_queue') \in Nat
          BY <2>2, <4>1, <1>TakenLength
        <5> QED
          BY <2>2, <4>1, <5>1 DEF Unheard
      <4>2. CASE queue # <<>> /\ queue' = Tail(queue) /\ oob_queue' = oob_queue
        <5>1. Len(queue') + 1 = Len(queue) /\ Len(queue') \in Nat
          BY <2>2, <4>2, <1>TakenLength
        <5> QED
          BY <2>2, <4>2, <5>1 DEF Unheard
      <4> QED
        BY Zenon, <3>3, <4>1, <4>2
    <3>5. Unheard' + 1 <= Unheard /\ Unheard' <= Unheard
      BY <2>2, <3>4
    <3>6. h'.kind = h.kind /\ h'.paused = 0
      BY Zenon, <3>1 DEF Same
    <3>7. /\ frames' # <<>> /\ frames'[n] = k
          /\ \A i \in 1 .. n - 1 : frames'[i] = frames[i]
      <4>1. frames' = Append(Below, k)
        BY Zenon, <3>1
      <4> HIDE DEF k
      <4> QED
        BY Zenon, <4>1, ReplaceShape
    <3> HIDE DEF n, normal, next
    <3>8. CASE n = 1
      <4>1. ~Entering'
        BY Zenon, <3>2, <3>7, <3>8 DEF Entering
      <4> QED
        BY Zenon, <3>5, <3>6, <4>1, <1>AnsweredStep
    <3>9. CASE 1 \in 1 .. n - 1
      <4>1. SameCall
        BY Zenon, <3>7, <3>9 DEF SameCall, Entering
      <4> QED
        BY Zenon, <3>5, <3>6, <4>1, <1>AnsweredStep
    <3> QED
      BY Zenon, <2>1, <3>8, <3>9
  <2> QED
    BY Zenon, <2>4, <2>5

(* A post announces its message, now or when it releases mutex_. *)
<1>PostAnswered.
    ASSUME IInv', Kind = "embedder",
           NEW m \in Message, NEW before_events \in BOOLEAN,
           Post(m, before_events),
           \/ mutex = Free /\ mutex' = m /\ UNCHANGED notifications
           \/ UNCHANGED mutex /\ notifications' = Notified
    PROVE  Answered'
  <2> USE <1>PostAnswered
  <2>1. Kind' = "embedder" /\ h'.paused = h.paused
    BY Zenon, PostFrame DEF Kind
  <2>2. SameCall
    <3>1. NotifyWaiter
      BY Zenon DEF Post
    <3>2. frames' = <<>> <=> frames = <<>>
      BY Zenon, <3>1, NotifyShape
    <3>3. ASSUME frames # <<>>
          PROVE  /\ frames'[1].phase = "enter" <=> frames[1].phase = "enter"
                 /\ frames'[1].status = frames[1].status
                 /\ frames'[1].allow = frames[1].allow
      <4>1. 1 \in DOMAIN frames
        BY <3>3, TopFrame
      <4>2. CASE frames[1].phase = "waiting" /\ h.paused_for_messages
        <5>1. /\ frames'[1].phase = "notified"
              /\ frames'[1].status = frames[1].status
              /\ frames'[1].allow = frames[1].allow
          BY Zenon, <3>1, <4>1, <4>2, NotifyShape
        <5> QED
          BY Zenon, <4>2, <5>1
      <4>3. CASE ~(frames[1].phase = "waiting" /\ h.paused_for_messages)
        <5>1. frames'[1] = frames[1]
          BY Zenon, <3>1, <4>1, <4>3, NotifyShape
        <5> QED
          BY Zenon, <5>1
      <4> QED
        BY Zenon, <4>2, <4>3
    <3> QED
      BY Zenon, <3>2, <3>3 DEF SameCall, Entering
  <2>3. /\ Unheard = Len(queue) + Len(oob_queue)
        /\ Len(queue) \in Nat /\ Len(oob_queue) \in Nat
        /\ queue \in Seq(Events \cup Controls) /\ oob_queue \in Seq(OOBs)
        /\ notifications \in Nat /\ Unheard \in Nat
    BY Zenon, QueueTypes DEF Unheard
  <2>4. Unheard' = Unheard + 1
    <3>1. CASE m \in OOBs
      <4>1. oob_queue' = Append(oob_queue, m) /\ queue' = queue
        BY Zenon, <3>1 DEF Post
      <4>2. Len(oob_queue') = Len(oob_queue) + 1
        BY <2>3, <3>1, <4>1
      <4> QED
        BY <2>3, <4>1, <4>2 DEF Unheard
    <3>2. CASE m \notin OOBs
      <4>1. queue' = Enqueue(queue, m, before_events) /\ oob_queue' = oob_queue
        BY Zenon, <3>2 DEF Post
      <4>2. m \in Events \cup Controls
        BY Zenon, <3>2 DEF Message
      <4>3. Len(queue') = Len(queue) + 1
        BY Zenon, <2>3, <4>1, <4>2, EnqueueType
      <4> QED
        BY <2>3, <4>1, <4>3 DEF Unheard
    <3> QED
      BY Zenon, <3>1, <3>2
  <2>5. Heard' = Heard + 1
    <3>1. mutex' = m => mutex' # Free
      BY Zenon, HandlerAssumption
    <3>2. Notified = notifications + 1
      BY Zenon DEF Notified
    <3>3. Entering' <=> Entering
      BY Zenon, <2>2 DEF SameCall
    <3> QED
      BY <2>3, <3>1, <3>2, <3>3 DEF Heard
  <2>6. /\ h.paused = 0 /\ Unheard <= Heard
        /\ Entering => frames[1].status = "kOK" /\ frames[1].allow
    BY Zenon DEF Answered
  <2>7. Heard \in Nat
    BY Zenon, HearingTypes DEF IInv
  <2>8. Unheard' <= Heard'
    BY <2>3, <2>4, <2>5, <2>6, <2>7
  <2> QED
    BY Zenon, <2>1, <2>2, <2>6, <2>8 DEF Answered, SameCall

(* TaskCallback is of one handler. *)
<1>TaskKind.
    ASSUME NEW g \in Handler, NEW status,
           \/ TaskReturns(g) \/ Stop(g) \/ Finish(status, g)
           \/ HandlePending(status, g) \/ CheckPausedOnExit(status, g)
    PROVE  h'.kind = g.kind
  <2> USE <1>TaskKind
  <2>1. h' \in {g, [g EXCEPT !.task_running = FALSE],
                [g EXCEPT !.pool = FALSE, !.task_running = FALSE]}
    BY Zenon DEF TaskReturns, Stop, Finish, HandlePending, CheckPausedOnExit,
       CallOut, CallHandleMessages
  <2> QED
    BY Zenon, <2>1 DEF Handler

(* A handler stays of its kind. *)
<1>ReturnKind.
    ASSUME frames # <<>>, NEW g \in Handler, NEW status, Return(status, g)
    PROVE  h'.kind = g.kind
  <2> USE <1>ReturnKind
  <2> DEFINE site == Top.site
             started == [g EXCEPT !.is_paused_on_start = FALSE]
             resumed == [g EXCEPT !.is_paused_on_exit = FALSE]
             k == [g EXCEPT !.paused_for_messages = FALSE]
  <2>1. /\ site \notin TaskSites /\ site \in Sites => h' = g \/ h' = k
        /\ site \in TaskSites => AfterHandleMessages(site, status, g)
    BY Zenon DEF Return, Sites, TaskSites, WaitsAgain, WaitEnds
  <2>2. /\ started \in Handler /\ started.kind = g.kind
        /\ resumed \in Handler /\ resumed.kind = g.kind
        /\ k.kind = g.kind
    BY Zenon, Pauses DEF Same
  <2>3. site \in Sites
    BY Zenon, TopFrame DEF Frame
  <2>4. ASSUME site \in TaskSites, AfterHandleMessages(site, status, g)
        PROVE  \/ TaskReturns(g)
               \/ CheckPausedOnExit(status, started)
               \/ HandlePending(status, resumed)
               \/ Finish(status, g)
               \/ Stop(resumed)
    <3>1. /\ site = "PausedOnStart" =>
               IF ShouldPauseOnStart(status, g) THEN TaskReturns(g)
               ELSE CheckPausedOnExit(status, started)
          /\ site = "PausedOnExit" =>
               IF ShouldPauseOnExit(status, g) THEN TaskReturns(g)
               ELSE HandlePending(status, resumed)
          /\ site = "Main" => Finish(status, g)
          /\ site = "Exiting" =>
               IF ShouldPauseOnExit(status, g) THEN TaskReturns(g)
               ELSE Stop(resumed)
      BY Zenon, <2>4, Zenon DEF AfterHandleMessages
    <3> HIDE DEF started, resumed, site
    <3> QED
      BY Zenon, <2>4, <3>1 DEF TaskSites
  <2> HIDE DEF started, resumed, site, k
  <2> QED
    BY Zenon, <2>1, <2>2, <2>3, <2>4, <1>TaskKind

(* The same when it looks for a message first. *)
<1>NextMessageKind.
    ASSUME frames # <<>>, NEW f, NEW g \in Handler, NextMessage(f, g)
    PROVE  h'.kind = g.kind
  <2> USE <1>NextMessageKind
  <2>1. Return(f.status, g) \/ h' = g
    BY Zenon DEF NextMessage
  <2> QED
    BY Zenon, <2>1, <1>ReturnKind

(* No step changes the kind of a handler. *)
<1>KindNext.
    ASSUME [Next]_vars
    PROVE  Kind' = Kind
  <2> USE <1>KindNext
  <2>0. h \in Handler
    BY Zenon, ThisHandler
  <2>1. CASE Quiet
    BY Zenon, <2>1, QuietFrame DEF Kind
  <2>2. CASE Run
    BY Zenon, <2>0, <2>2, PoolSet DEF Run, Kind, Handler
  <2>3. CASE \E m \in Events \cup OOBs, p \in Port : PostMessage(m, p)
    BY Zenon, <2>3, PostFrame DEF PostMessage, Kind
  <2>4. CASE \E m \in Controls, before_events \in BOOLEAN :
               PostDelayed(m, before_events)
    BY Zenon, <2>4, PostFrame DEF PostDelayed, Kind
  <2>5. CASE TaskCallback
    <3>1. h' = h \/ CheckPausedOnExit("kOK", h)
      BY Zenon, <2>5 DEF TaskCallback, CallHandleMessages, CallOut
    <3> QED
      BY Zenon, <2>0, <3>1, <1>TaskKind DEF Kind
  <2>6. CASE PauseNotified
    <3>1. h' \in {[h EXCEPT !.is_paused_on_start = TRUE],
                  [h EXCEPT !.is_paused_on_exit = TRUE]}
      BY Zenon, <2>6 DEF PauseNotified, CallHandleMessages
    <3> QED
      BY Zenon, <2>0, <3>1 DEF Kind, Handler
  <2>7. CASE EnterHandleMessages
    BY Zenon, <2>0, <2>7, <1>NextMessageKind DEF EnterHandleMessages, Kind
  <2>8. CASE MessageHandled
    <3>1. frames # <<>>
      BY Zenon, <2>8 DEF MessageHandled, Handling
    <3>2. PICK g \in Handler :
             /\ Same(g, h)
             /\ Return("kShutdown", g) \/ \E f \in Frame : NextMessage(f, g)
      BY Zenon, <2>8, HandledCases
    <3>3. h'.kind = g.kind
      BY Zenon, <3>1, <3>2, <1>ReturnKind, <1>NextMessageKind
    <3> QED
      BY Zenon, <3>2, <3>3 DEF Same, Kind
  <2>9. CASE HandleOOBMessages \/ HandleNextMessage
    BY Zenon, <2>9 DEF HandleOOBMessages, HandleNextMessage, Kind
  <2>10. CASE PauseAndHandleAllMessages \/ WaitNotified \/ WaitTimedOut
    <3>1. h' = h \/ \E b \in BOOLEAN : h' = [h EXCEPT !.paused_for_messages = b]
      BY Zenon, <2>10
         DEF PauseAndHandleAllMessages, WaitNotified, WaitTimedOut, WaitEnds
    <3> QED
      BY Zenon, <3>1, WaitFlag DEF Kind
  <2> QED
    BY Zenon, <2>1, <2>2, <2>3, <2>4, <2>5, <2>6, <2>7, <2>8, <2>9, <2>10
    DEF Next, Quiet

<1>1. Kind' = Kind /\ h'.kind = h.kind /\ IInv'
  BY Zenon, <1>KindNext, NextInvariant DEF Kind
<1> SUFFICES ASSUME Kind = "embedder"
             PROVE  Answered'
  BY Zenon, <1>1 DEF Answered
<1>2. /\ h \in Handler /\ h.paused = 0 /\ Unheard <= Heard
      /\ Entering => frames[1].status = "kOK" /\ frames[1].allow
      /\ ~h.pool /\ ~h.task_running /\ ~InTask /\ task # "new"
  BY Zenon, ThisHandler DEF Answered, IInv, IsolateLife
<1>3. /\ Unheard \in Nat /\ Heard \in Nat /\ notifications \in Nat
      /\ Len(queue) \in Nat /\ Len(oob_queue) \in Nat
  BY Zenon, HearingTypes DEF IInv
<1>4. CASE Quiet
  <2>1. /\ frames' = frames /\ h'.paused = 0
        /\ \/ UNCHANGED <<queue, oob_queue>>
           \/ queue' = <<>> /\ oob_queue' = <<>>
        /\ \/ UNCHANGED <<mutex, notifications>>
           \/ /\ mutex # Free /\ mutex' = Free
              /\ notifications' = Notified
    BY Zenon, <1>2, <1>4, QuietFrame
  <2>2. Entering' <=> Entering
    BY Zenon, <2>1 DEF Entering
  <2>3. Unheard' <= Unheard
    BY <1>3, <2>1 DEF Unheard
  <2>4. Heard' = Heard
    BY <1>3, <2>1, <2>2 DEF Heard, Notified
  <2>5. Unheard' \in Nat
    BY <1>1, <1>3, <2>1 DEF Unheard
  <2>6. Unheard' <= Heard'
    BY <1>2, <1>3, <2>3, <2>4, <2>5
  <2> QED
    BY Zenon, <1>2, <2>1, <2>2, <2>6 DEF Answered
<1>5. CASE Run
  BY Zenon, <1>2, <1>5 DEF Run
<1>6. CASE \E m \in Events \cup OOBs, p \in Port : PostMessage(m, p)
  <2>1. PICK m \in Message : /\ Post(m, FALSE)
                             /\ mutex = Free /\ mutex' = m
                             /\ UNCHANGED notifications
    BY Zenon, <1>6 DEF PostMessage, Message
  <2> QED
    BY Zenon, <1>1, <2>1, <1>PostAnswered
<1>7. CASE \E m \in Controls, before_events \in BOOLEAN :
             PostDelayed(m, before_events)
  <2>1. PICK m \in Message, before_events \in BOOLEAN :
           /\ Post(m, before_events)
           /\ UNCHANGED mutex /\ notifications' = Notified
    BY Zenon, <1>7 DEF PostDelayed, Message
  <2> QED
    BY Zenon, <1>1, <2>1, <1>PostAnswered
<1>8. CASE TaskCallback \/ PauseNotified
  BY Zenon, <1>2, <1>8 DEF TaskCallback, PauseNotified, InTask, IInv, OneTask
<1>9. CASE EnterHandleMessages
  <2>1. /\ frames # <<>> /\ Top \in Frame /\ NextMessage(Top, h)
        /\ UNCHANGED <<mutex, notifications>>
    BY Zenon, <1>9, TopFrame DEF EnterHandleMessages
  <2> QED
    BY Zenon, <1>1, <1>2, <2>1, <1>NextMessageAnswered DEF Same
<1>10. CASE MessageHandled
  <2>1. /\ frames # <<>> /\ Top.phase = "handling"
        /\ UNCHANGED <<mutex, notifications>>
    BY Zenon, <1>10 DEF MessageHandled, Handling
  <2>2. PICK g \in Handler :
           /\ Same(g, h)
           /\ h.paused = 0 /\ Kind \notin PauseKinds => g.paused = 0
           /\ \/ /\ oob_queue' = <<>>
                 /\ Return("kShutdown", g)
                 /\ UNCHANGED queue
              \/ \E f \in Frame : f.phase = Top.phase /\ NextMessage(f, g)
    BY Zenon, <1>10, HandledCases
  <2>3. g.paused = 0
    BY Zenon, <1>2, <2>2
  <2>4. CASE oob_queue' = <<>> /\ Return("kShutdown", g) /\ UNCHANGED queue
    <3>1. /\ h'.paused = 0
          /\ Len(frames) = 1 => ~Entering'
          /\ Len(frames) # 1 => SameCall
      BY Zenon, <2>1, <2>2, <2>3, <2>4, <1>ReturnAnswered
    <3>2. Len(frames) = 1 => ~Entering
      BY Zenon, <2>1 DEF Entering, Top
    <3>3. Unheard' <= Unheard
      BY <1>3, <2>4 DEF Unheard
    <3> QED
      BY Zenon, <1>1, <2>1, <3>1, <3>2, <3>3, <1>AnsweredStep
  <2>5. ASSUME NEW f \in Frame, f.phase = Top.phase, NextMessage(f, g)
        PROVE  Answered'
    BY Zenon, <1>1, <2>1, <2>2, <2>3, <2>5, <1>NextMessageAnswered
  <2> QED
    BY Zenon, <2>2, <2>4, <2>5
<1>11. CASE HandleOOBMessages
  <2>1. /\ frames # <<>> /\ \E f : frames' = Append(frames, f)
        /\ UNCHANGED <<h, queue, oob_queue, mutex, notifications>>
    BY Zenon, <1>11 DEF HandleOOBMessages, Busy, Handling
  <2>2. frames' # <<>> /\ frames'[1] = frames[1]
    BY <2>1, TopFrame, PushShape
  <2>3. SameCall /\ Unheard' <= Unheard
    BY <1>3, <2>1, <2>2 DEF SameCall, Entering, Unheard
  <2> QED
    BY Zenon, <1>1, <1>2, <2>1, <2>3, <1>AnsweredStep
<1>12. CASE PauseAndHandleAllMessages
  BY Zenon, <1>12 DEF PauseAndHandleAllMessages
<1>13. CASE WaitNotified \/ WaitTimedOut
  <2>1. /\ frames # <<>> /\ \E f : frames' = Append(Below, f)
        /\ UNCHANGED <<queue, oob_queue, mutex, notifications>>
        /\ h' = h \/ h' = [h EXCEPT !.paused_for_messages = FALSE]
    BY Zenon, <1>13 DEF WaitNotified, WaitTimedOut, WaitFrame, WaitEnds
  <2> DEFINE n == Len(frames)
  <2>2. n \in Nat \ {0} /\ n > 1
    <3>1. Top.site = "Wait"
      BY Zenon, <1>13, <2>1, TopFrame
      DEF WaitNotified, WaitTimedOut, WaitFrame, Waits
    <3> QED
      BY Zenon, <2>1, <3>1, TopFrame DEF InnerSites
  <2> HIDE DEF n
  <2>3. 1 \in 1 .. n - 1
    BY <2>2
  <2>4. frames' # <<>> /\ frames'[1] = frames[1]
    BY <2>1, <2>3, ReplaceShape DEF n
  <2>5. SameCall /\ Unheard' <= Unheard
    BY <1>3, <2>1, <2>4 DEF SameCall, Entering, Unheard
  <2>6. h'.paused = 0
    BY Zenon, <1>2, <2>1, WaitFlag
  <2> QED
    BY Zenon, <1>1, <2>1, <2>5, <2>6, <1>AnsweredStep
<1>14. CASE HandleNextMessage
  <2> DEFINE f == NewFrame("Next", TRUE, FALSE)
  <2>1. f.phase = "enter" /\ f.status = "kOK" /\ f.allow
    BY Zenon DEF NewFrame
  <2>2. /\ frames = <<>> /\ frames' = <<f>>
        /\ notifications' = notifications - 1 /\ notifications > 0
        /\ UNCHANGED <<h, queue, oob_queue, mutex>>
    BY Zenon, <1>14 DEF HandleNextMessage
  <2> HIDE DEF f
  <2>3. frames' # <<>> /\ frames'[1] = f
    BY Zenon, <2>2
  <2>4. Entering' /\ ~Entering
    BY Zenon, <2>1, <2>2, <2>3 DEF Entering
  <2>5. Heard' = Heard /\ Unheard' = Unheard
    BY <1>3, <2>2, <2>4 DEF Heard, Unheard
  <2> QED
    BY Zenon, <1>2, <2>1, <2>2, <2>3, <2>5 DEF Answered
<1> QED
  BY Zenon, <1>4, <1>5, <1>6, <1>7, <1>8, <1>9, <1>10, <1>11, <1>12, <1>13,
     <1>14
  DEF Next, Quiet

-----------------------------------------------------------------------------
(* The library, and the theorems.                                          *)
INSTANCE FiniteSetTheorems
INSTANCE WellFoundedInduction

(* The facts assumed above. *)
LEMMA Library ==
  LibraryFacts
<1>1. ASSUME NEW S \in SUBSET Port
      PROVE  /\ Cardinality(S) \in Nat
             /\ \A x : x \notin S =>
                  Cardinality(S \cup {x}) = Cardinality(S) + 1
             /\ \A x \in S : Cardinality(S \ {x}) = Cardinality(S) - 1
             /\ Cardinality(S) = 0 <=> S = {}
  <2>1. IsFiniteSet(S)
    BY Zenon, HandlerAssumption, FS_Subset
  <2>2. Cardinality(S) \in Nat
    BY Zenon, <2>1, FS_CardinalityType
  <2>3. \A x : x \notin S => Cardinality(S \cup {x}) = Cardinality(S) + 1
    BY Zenon, <2>1, FS_AddElement
  <2>4. \A x \in S : Cardinality(S \ {x}) = Cardinality(S) - 1
    BY Zenon, <2>1, FS_RemoveElement
  <2>5. Cardinality(S) = 0 <=> S = {}
    BY Zenon, <2>1, FS_EmptySet
  <2> QED
    BY Zenon, <2>2, <2>3, <2>4, <2>5
<1>2. ASSUME NEW T \in SUBSET Nat, T # {}
      PROVE  \E i \in T : \A j \in T : i <= j
  <2>0. T \subseteq Nat /\ T # {}
    BY Zenon, <1>2
  <2>1. PICK i \in T : \A j \in T : ~(<<j, i>> \in OpToRel(<, Nat))
    BY Zenon, WFMin, NatLessThanWellFounded, Zenon, <2>0
  <2>2. ASSUME NEW j \in T
        PROVE  i <= j
    <3>1. <<j, i>> \notin OpToRel(<, Nat)
      BY Zenon, <2>1
    <3>2. ~(j < i)
      BY Zenon, <3>1 DEF OpToRel
    <3> QED
      BY <3>2
  <2> QED
    BY Zenon, <2>2
<1> QED
  BY Zenon, <1>1, <1>2 DEF LibraryFacts

(* The inductive invariant holds throughout. *)
THEOREM Invariant ==
  Spec => []IInv
<1>1. Init => IInv
  BY Zenon, InitInvariant, Library
<1>2. IInv /\ [Next]_vars => IInv'
  BY Zenon, NextInvariant, Library
<1> QED
  BY <1>1, <1>2, PTL DEF Spec

(* The variables keep their types: every stack of nested HandleMessages    *)
(* calls, every queue and every count (live_ports_ and the pauses of an    *)
(* isolate never go below zero).                                           *)
THEOREM TypeCorrect ==
  Spec => []TypeOK
<1>1. IInv => TypeOK
  BY Zenon DEF IInv
<1> QED
  BY <1>1, Invariant, PTL

(* At most one task of a handler exists, and task_running_ says whether it *)
(* does, whoever posts messages meanwhile.                                 *)
THEOREM TasksCorrect ==
  Spec => []OneTask
<1>1. IInv => OneTask
  BY Zenon DEF IInv
<1> QED
  BY <1>1, Invariant, PTL

(* live_ports_ counts the live ports. *)
THEOREM PortsCorrect ==
  Spec => []LivePortsExact
<1>1. IInv => LivePortsExact
  BY Zenon DEF IInv
<1> QED
  BY <1>1, Invariant, PTL

(* A handler is deleted at most once, when no poster, no closer and no     *)
(* task can reach it any more.                                             *)
THEOREM DeletionCorrect ==
  Spec => []NoUseAfterDelete
<1>1. IInv => NoUseAfterDelete
  <2> SUFFICES ASSUME IInv
               PROVE  NoUseAfterDelete
    BY Zenon
  <2>1. deleted \in {0, 1}
    BY Zenon DEF IInv, IsolateLife, NativeLife, Closing, Undeleted
  <2>2. ASSUME deleted = 1
        PROVE  /\ NoPortOpen /\ closer = "none" /\ task = "none"
               /\ ~h.task_running
    <3>1. CASE Kind = "native"
      BY <2>2, <3>1
      DEF IInv, NativeLife, Closing, Undeleted, NoPortOpen, Open
    <3>2. CASE Kind # "native"
      <4>1. NoPortOpen /\ closer = "none" /\ task = "none"
        BY Zenon, <2>2, <3>2 DEF IInv, IsolateLife
      <4>2. ~h.pool
        BY <2>2, <3>2, ThisHandler DEF IInv, IsolateLife
      <4> QED
        BY Zenon, <3>2, <4>1, <4>2 DEF IInv, IsolateLife
    <3> QED
      BY Zenon, <3>1, <3>2
  <2>3. ASSUME deleted = 1
        PROVE  mutex = Free /\ launched = 0 /\ frames = <<>>
    <3>1. mutex = Free
      BY Zenon, <2>2, <2>3 DEF IInv, MutexHeld
    <3>2. launched = 0
      BY <2>2, <2>3, Types DEF IInv, OneTask, ControlOK
    <3>3. frames = <<>>
      BY Zenon, <2>2, <2>3 DEF IInv, Stack, IsolateLife
    <3> QED
      BY Zenon, <3>1, <3>2, <3>3
  <2> QED
    BY <2>1, <2>2, <2>3 DEF NoUseAfterDelete, NoPortOpen
<1> QED
  BY <1>1, Invariant, PTL

(* A handler on the pool never sleeps on a message: when it has no task,   *)
(* its out-of-band queue is empty, and its queue is empty unless it is     *)
(* paused, whatever the ports, the isolate and the posters did meanwhile.  *)
THEOREM PoolHears ==
  Spec => []Drained
<1>1. Init => Drained /\ Bottom
  BY Zenon DEF Init, Drained, Bottom
<1>2. IInv /\ Drained /\ Bottom /\ [Next]_vars => Drained' /\ Bottom'
  BY Zenon, HearsNext
<1> QED
  BY <1>1, <1>2, Invariant, PTL DEF Spec

(* A thread in PauseAndHandleAllMessages sleeps only while both queues are *)
(* empty, as long as no out-of-band message calls Dart_WaitForEvent.       *)
THEOREM WaiterCorrect ==
  ASSUME ~WaitInOOB
  PROVE  Spec => []WaiterHears
<1>1. Init => Waiting
  BY DEF Init, Waiting
<1>2. IInv /\ Waiting /\ [Next]_vars => Waiting'
  BY Zenon, WaitingNext
<1>3. IInv /\ Waiting => WaiterHears
  BY TopFrame DEF WaiterHears, WaitFrame, Waiting, Top
<1> QED
  BY <1>1, <1>2, <1>3, Invariant, PTL DEF Spec

(* An embedder that answers each notification with one Dart_HandleMessage  *)
(* leaves no message behind, as long as no message pauses its isolate.     *)
THEOREM EmbedderCorrect ==
  ASSUME "embedder" \notin PauseKinds
  PROVE  Spec => []EmbedderHears
<1>1. Init => Answered
  <2> SUFFICES ASSUME Init
               PROVE  Answered
    BY Zenon
  <2>1. /\ frames = <<>> /\ queue = <<>> /\ oob_queue = <<>> /\ mutex = Free
        /\ notifications = 0
    BY Zenon DEF Init
  <2>2. h.paused = 0
    BY DEF Init
  <2>3. ~Entering
    BY Zenon, <2>1 DEF Entering
  <2>4. Unheard = 0 /\ Heard = 0
    BY <2>1, <2>3 DEF Unheard, Heard
  <2> QED
    BY <2>2, <2>3, <2>4 DEF Answered
<1>2. IInv /\ Answered /\ [Next]_vars => Answered'
  BY Zenon, AnsweredNext, Library
<1>3. IInv /\ Answered => EmbedderHears
  <2> SUFFICES ASSUME IInv, Answered, Kind = "embedder", mutex = Free,
                      frames = <<>>, ~(notifications > 0)
               PROVE  queue = <<>> /\ oob_queue = <<>>
    BY Zenon DEF EmbedderHears
  <2>1. /\ Len(queue) \in Nat /\ Len(oob_queue) \in Nat
        /\ notifications \in Nat
    BY Zenon, HearingTypes DEF IInv
  <2>2. Len(queue) + Len(oob_queue) <= notifications
    BY <2>1 DEF Answered, Heard, Unheard, Entering
  <2>3. Len(queue) = 0 /\ Len(oob_queue) = 0
    BY <2>1, <2>2
  <2> QED
    BY <2>3 DEF IInv, TypeOK
<1> QED
  BY <1>1, <1>2, <1>3, Invariant, PTL DEF Spec

(* No message stays behind with a handler on the pool, with a thread that  *)
(* waits or with an embedder, under both conditions above.                 *)
THEOREM NoMessageStranded ==
  ASSUME ~WaitInOOB, "embedder" \notin PauseKinds
  PROVE  Spec => []NoStrandedMessage
<1>1. Drained /\ WaiterHears /\ EmbedderHears => NoStrandedMessage
  BY Zenon DEF Drained, NoStrandedMessage
<1> QED
  BY <1>1, PoolHears, WaiterCorrect, EmbedderCorrect, PTL

=============================================================================
