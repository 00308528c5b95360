---------------------------- MODULE MarkerProofs ----------------------------
(***************************************************************************)
(* Proofs about the ThreadBarrier, for every number of threads and rounds, *)
(* and about the Marker that uses it, for every number of tasks, every     *)
(* heap and every size of the blocks.                                      *)
(*                                                                         *)
(* The barrier.  Neither RoundsLineUp nor NoUseAfterDestroy is inductive:  *)
(* both depend on what remaining_ counts.  BarrierInv says that all        *)
(* threads have completed the same number of rounds, Completed, and that   *)
(* remaining_ is the number of threads that have neither arrived in the    *)
(* current round nor exited.                                               *)
(***************************************************************************)
EXTENDS Marker, TLAPS

Gone(t) == pc[t] \in {"last", "exited", "destructor", "destructor_notified",
                      "end"}
InWait(t) == pc[t] \in {"waiting", "notified"}
InRound(t) == InWait(t) /\ old_parity[t] = parity
Completed(t) == IF InRound(t) THEN passed[t] ELSE arrived[t]
Counted == {t \in Thread : InRound(t) \/ Gone(t)}

(* Where a thread is agrees with how many rounds it has made. *)
ThreadInv(t) ==
  /\ InWait(t) => arrived[t] = passed[t] + 1
  /\ ~InWait(t) => arrived[t] = passed[t]
  /\ pc[t] = "waiting" => InRound(t)
  /\ t # Main => pc[t] \notin {"destructor", "destructor_notified", "end"}

(* The end of the barrier: the last thread, done_, and the destructor. *)
EndInv ==
  /\ \A t \in Thread : pc[t] = "last" => remaining = 0 /\ ~done
  /\ \A t, u \in Thread : pc[t] = "last" /\ pc[u] = "last" => t = u
  /\ done => remaining = 0
  /\ destroyed => done /\ pc[Main] = "end"

BarrierInv ==
  /\ TypeOK
  /\ \A t \in Thread : ThreadInv(t)
  /\ \A t, u \in Thread : Completed(t) = Completed(u)
  /\ remaining = num_threads - Cardinality(Counted)
  /\ EndInv

(* The client of ThreadBarrier exits after all its rounds. *)
IInv ==
  /\ BarrierInv
  /\ \A t \in Thread : Gone(t) => arrived[t] = Rounds

-----------------------------------------------------------------------------
(* Counting the members of a set of participants; the library shows this,  *)
(* at the end of the module.                                               *)
CountFacts ==
  /\ num_threads \in Nat \ {0}
  /\ Cardinality({}) = 0
  /\ \A S \in SUBSET Thread :
       /\ Cardinality(S) \in 0..num_threads
       /\ Cardinality(S) = num_threads => S = Thread
       /\ \A t \in Thread \ S : Cardinality(S \cup {t}) = Cardinality(S) + 1

(* The counters before the first slice. *)
LEMMA NoneStarted ==
  /\ 0 \in Nat /\ ~(0 > 0) /\ ~(0 > 1)
  /\ \A s \in 0 .. 3 : ~(s < 0)
  /\ 0 .. kNumWeakSlices - 1 = 0 .. 3
BY DEF kNumWeakSlices

(* The barrier before the first call. *)
LEMMA InitBarrier ==
  ASSUME CountFacts, Init
  PROVE  BarrierInv
<1>1. \A t \in Thread : ~InWait(t) /\ ~Gone(t) BY Zenon DEF Init, InWait, Gone
<1>2. Counted = {} BY Zenon, <1>1 DEF Counted, InRound
<1>3. Cardinality(Counted) = 0 /\ num_threads \in Nat BY Zenon, <1>2
                                                         DEF CountFacts
<1>4. TypeOK
  <2>1. remaining \in 0..num_threads BY <1>3 DEF Init
  <2>2. parity \in BOOLEAN /\ done \in BOOLEAN /\ destroyed \in BOOLEAN
    BY Zenon DEF Init
  <2>3. pc \in [Thread -> Places] /\ old_parity \in [Thread -> BOOLEAN]
    BY Zenon DEF Init, Places
  <2>4. arrived \in [Thread -> 0..Rounds] /\ passed \in [Thread -> 0..Rounds]
    BY BarrierAssumption DEF Init
  <2> QED BY Zenon, <2>1, <2>2, <2>3, <2>4 DEF TypeOK
<1>5. \A t \in Thread : ThreadInv(t)
  BY Zenon, <1>1 DEF Init, ThreadInv, Gone
<1>6. \A t, u \in Thread : Completed(t) = Completed(u)
  BY Zenon, <1>1 DEF Init, Completed, InRound
<1>7. remaining = num_threads - Cardinality(Counted)
  BY <1>3 DEF Init
<1>8. EndInv BY Zenon DEF Init, EndInv
<1> QED BY Zenon, <1>4, <1>5, <1>6, <1>7, <1>8 DEF BarrierInv

(* A thread that is about to call Sync() or Exit() is not counted, and     *)
(* when one is missing it is the only one.                                 *)
LEMMA Caller ==
  ASSUME CountFacts, BarrierInv, NEW t \in Thread, pc[t] = "out"
  PROVE  /\ Counted \in SUBSET Thread /\ t \notin Counted
         /\ remaining \in Nat /\ remaining > 0
         /\ remaining = 1 => Counted \cup {t} = Thread
         /\ Cardinality(Counted \cup {t}) = Cardinality(Counted) + 1
         /\ Cardinality(Counted) \in Nat
<1>1. Counted \in SUBSET Thread BY Zenon DEF Counted
<1>2. t \notin Counted BY Zenon DEF Counted, InRound, InWait, Gone
<1>3. /\ Cardinality(Counted) \in 0..num_threads
      /\ Cardinality(Counted \cup {t}) = Cardinality(Counted) + 1
      /\ Cardinality(Counted \cup {t}) \in 0..num_threads
      /\ Cardinality(Counted \cup {t}) = num_threads => Counted \cup {t} = Thread
      /\ num_threads \in Nat
  <2>1. Counted \cup {t} \in SUBSET Thread BY Zenon, <1>1
  <2> QED BY Zenon, <1>1, <1>2, <2>1 DEF CountFacts
<1>4. remaining = num_threads - Cardinality(Counted) BY Zenon DEF BarrierInv
<1> QED BY <1>1, <1>2, <1>3, <1>4

(* A call of Sync() that has to wait counts the caller in this round.      *)
LEMMA SyncWaitStep ==
  ASSUME CountFacts, BarrierInv, NEW t \in Thread, SyncWait(t)
  PROVE  /\ BarrierInv'
         /\ InRound(t)'
         /\ \A u \in Thread \ {t} : (InRound(u)' <=> InRound(u))
         /\ \A u \in Thread : (Gone(u)' <=> Gone(u))
<1> USE DEF BarrierInv
<1>T. num_threads \in Nat /\ num_threads > 0 BY DEF CountFacts
<1>1. /\ Counted \in SUBSET Thread /\ t \notin Counted
      /\ remaining \in Nat /\ remaining > 0
      /\ Cardinality(Counted \cup {t}) = Cardinality(Counted) + 1
      /\ Cardinality(Counted) \in Nat
  BY Zenon, Caller DEF SyncWait
<1>2. TypeOK'
  BY <1>T, BarrierAssumption DEF TypeOK, SyncWait, Places
<1>3. ASSUME NEW u \in Thread, u # t
      PROVE  /\ (InWait(u)' <=> InWait(u)) /\ (InRound(u)' <=> InRound(u))
             /\ (Gone(u)' <=> Gone(u)) /\ Completed(u)' = Completed(u)
             /\ pc'[u] = pc[u] /\ arrived'[u] = arrived[u]
             /\ passed'[u] = passed[u]
  BY Zenon, <1>3 DEF TypeOK, SyncWait, InWait, InRound, Gone, Completed
<1>4. /\ InWait(t)' /\ InRound(t)' /\ ~Gone(t)' /\ pc'[t] = "waiting"
      /\ arrived'[t] = arrived[t] + 1 /\ passed'[t] = passed[t]
  BY Zenon DEF TypeOK, SyncWait, InWait, InRound, Gone
<1>4a. ~Gone(t)
  BY Zenon DEF SyncWait, Gone
<1>5. ~InWait(t) /\ ~InRound(t) /\ arrived[t] = passed[t]
  BY Zenon DEF SyncWait, InWait, InRound, ThreadInv
<1>6. Completed(t)' = Completed(t)
  BY Zenon, <1>4, <1>5 DEF Completed
<1>7. \A u \in Thread : ThreadInv(u)'
  <2> SUFFICES ASSUME NEW u \in Thread PROVE ThreadInv(u)' BY Zenon
  <2>1. CASE u = t BY Zenon, <2>1, <1>4, <1>5 DEF ThreadInv
  <2>2. CASE u # t BY Zenon, <2>2, <1>3 DEF ThreadInv
  <2> QED BY Zenon, <2>1, <2>2
<1>8. \A u, v \in Thread : Completed(u)' = Completed(v)'
  BY Zenon, <1>3, <1>6
<1>9. Counted' = Counted \cup {t}
  BY Zenon, <1>3, <1>4 DEF Counted
<1>10. (remaining = num_threads - Cardinality(Counted))'
  BY <1>1, <1>9, <1>T DEF SyncWait, num_threads
<1>11. EndInv'
  BY DEF EndInv, TypeOK, SyncWait
<1>20. BarrierInv'
  BY Zenon, <1>2, <1>7, <1>8, <1>10, <1>11
<1> QED BY Zenon, <1>20, <1>3, <1>4, <1>4a

(* The last thread finds all others in the wait of this round; after its   *)
(* step the round is completed for all of them.                            *)
LEMMA SyncLastStep ==
  ASSUME CountFacts, BarrierInv, NEW t \in Thread, SyncLast(t),
         \A u \in Thread : ~Gone(u)
  PROVE  /\ BarrierInv'
         /\ \A u \in Thread : ~InRound(u)' /\ ~Gone(u)'
         /\ \A u \in Thread \ {t} : InRound(u)
<1> USE DEF BarrierInv
<1>T. num_threads \in Nat /\ num_threads > 0 BY DEF CountFacts
<1>1. Counted \cup {t} = Thread /\ t \notin Counted
  BY Zenon, Caller DEF SyncLast
<1>2. TypeOK'
  <2>1. pc' \in [Thread -> Places] BY Zenon DEF TypeOK, SyncLast, Places
  <2>2. arrived' \in [Thread -> 0..Rounds] /\ passed' \in [Thread -> 0..Rounds]
    <3>1. passed[t] = arrived[t] BY Zenon DEF SyncLast, ThreadInv, InWait
    <3> QED BY <3>1, BarrierAssumption DEF TypeOK, SyncLast
  <2>3. remaining' \in 0..num_threads BY <1>T DEF SyncLast
  <2>4. parity' \in BOOLEAN /\ done' \in BOOLEAN /\ destroyed' \in BOOLEAN
        /\ old_parity' \in [Thread -> BOOLEAN]
    BY Zenon DEF TypeOK, SyncLast
  <2>5. num_threads' = num_threads BY Zenon DEF num_threads
  <2> QED BY Zenon, <2>1, <2>2, <2>3, <2>4, <2>5 DEF TypeOK
<1>3. ~InWait(t) /\ ~InRound(t) /\ ~Gone(t) /\ arrived[t] = passed[t]
  BY Zenon DEF SyncLast, InWait, InRound, Gone, ThreadInv
<1>4. ASSUME NEW u \in Thread, u # t
      PROVE  InRound(u) /\ InWait(u) /\ ~Gone(u) /\ passed[u] = arrived[t]
  <2>1. u \in Counted BY Zenon, <1>1, <1>4
  <2>2. Completed(u) = arrived[t] BY Zenon, <1>3 DEF Completed
  <2>3. ~Gone(u) BY Zenon
  <2>4. InRound(u) BY Zenon, <2>1, <2>3 DEF Counted
  <2> QED BY Zenon, <2>2, <2>3, <2>4 DEF Completed, InRound
<1>5. ASSUME NEW u \in Thread, u # t
      PROVE  /\ pc'[u] = "notified" /\ arrived'[u] = arrived[u]
             /\ passed'[u] = passed[u] /\ old_parity'[u] # parity'
  BY Zenon, <1>4, <1>5 DEF SyncLast, InWait, InRound, TypeOK
<1>6. /\ pc'[t] = "out" /\ arrived'[t] = arrived[t] + 1
      /\ passed'[t] = passed[t] + 1
  BY Zenon DEF SyncLast, TypeOK
<1>7. \A u \in Thread : ThreadInv(u)' /\ ~InRound(u)' /\ ~Gone(u)'
  <2> SUFFICES ASSUME NEW u \in Thread
               PROVE  ThreadInv(u)' /\ ~InRound(u)' /\ ~Gone(u)'
    BY Zenon
  <2>1. CASE u = t BY Zenon, <2>1, <1>3, <1>6
                      DEF ThreadInv, InWait, InRound, Gone
  <2>2. CASE u # t
    <3>1. arrived[u] = passed[u] + 1 BY Zenon, <2>2, <1>4 DEF ThreadInv
    <3> QED BY Zenon, <2>2, <3>1, <1>5 DEF ThreadInv, InWait, InRound, Gone
  <2> QED BY Zenon, <2>1, <2>2
<1>8. \A u \in Thread : Completed(u)' = arrived[t] + 1
  <2> SUFFICES ASSUME NEW u \in Thread PROVE Completed(u)' = arrived[t] + 1
    BY Zenon
  <2>1. Completed(u)' = arrived'[u] BY Zenon, <1>7 DEF Completed
  <2>2. CASE u = t BY Zenon, <2>1, <2>2, <1>6
  <2>3. CASE u # t
    <3>1. arrived[u] = passed[u] + 1 BY Zenon, <2>3, <1>4 DEF ThreadInv
    <3> QED BY Zenon, <2>1, <2>3, <3>1, <1>4, <1>5
  <2> QED BY Zenon, <2>2, <2>3
<1>9. Counted' = {} BY Zenon, <1>7 DEF Counted
<1>10. (remaining = num_threads - Cardinality(Counted))'
  BY <1>9, <1>T DEF CountFacts, SyncLast, num_threads
<1>11. EndInv'
  <2>1. ~done /\ ~destroyed BY DEF EndInv, SyncLast
  <2>2. \A u \in Thread : pc'[u] # "last" BY Zenon, <1>5, <1>6
  <2> QED BY Zenon, <2>1, <2>2 DEF EndInv, SyncLast
<1> QED BY Zenon, <1>2, <1>4, <1>7, <1>8, <1>10, <1>11

(* A thread that wakes up, for whatever reason, goes on only if the parity *)
(* has changed, and then it was no longer in the round.                    *)
LEMMA WakesStep ==
  ASSUME CountFacts, BarrierInv, NEW t \in Thread, NEW place \in {"waiting", "notified"},
         Wakes(t, place)
  PROVE  /\ BarrierInv'
         /\ \A u \in Thread : (InRound(u)' <=> InRound(u)) /\ (Gone(u)' <=> Gone(u))
<1> USE DEF BarrierInv
<1>T. num_threads \in Nat /\ num_threads > 0 BY DEF CountFacts
<1>1. InWait(t) /\ ~Gone(t) /\ arrived[t] = passed[t] + 1
  BY Zenon DEF Wakes, InWait, Gone, ThreadInv
<1>2. TypeOK'
  <2>1. pc' \in [Thread -> Places] BY Zenon DEF TypeOK, Wakes, Places
  <2>2. passed' \in [Thread -> 0..Rounds]
    BY Zenon, <1>1, BarrierAssumption DEF TypeOK, Wakes
  <2>3. num_threads' = num_threads BY Zenon DEF num_threads
  <2> QED BY Zenon, <2>1, <2>2, <2>3 DEF TypeOK, Wakes
<1>3. ASSUME NEW u \in Thread, u # t
      PROVE  /\ (InWait(u)' <=> InWait(u)) /\ (InRound(u)' <=> InRound(u))
             /\ (Gone(u)' <=> Gone(u)) /\ Completed(u)' = Completed(u)
             /\ pc'[u] = pc[u] /\ arrived'[u] = arrived[u]
             /\ passed'[u] = passed[u]
  BY Zenon, <1>3 DEF TypeOK, Wakes, InWait, InRound, Gone, Completed
<1>4. /\ (InRound(t)' <=> InRound(t)) /\ ~Gone(t)'
      /\ ThreadInv(t)' /\ Completed(t)' = Completed(t)
  <2>1. CASE parity = old_parity[t]
    <3>1. pc'[t] = "waiting" /\ UNCHANGED <<passed, arrived, old_parity, parity>>
      BY Zenon, <2>1 DEF Wakes, TypeOK
    <3> QED BY Zenon, <2>1, <3>1, <1>1
         DEF InRound, InWait, Gone, ThreadInv, Completed
  <2>2. CASE parity # old_parity[t]
    <3>1. /\ pc'[t] = "out" /\ passed'[t] = passed[t] + 1
          /\ UNCHANGED <<arrived, old_parity, parity>>
      BY Zenon, <2>2 DEF Wakes, TypeOK
    <3> QED BY Zenon, <2>2, <3>1, <1>1
         DEF InRound, InWait, Gone, ThreadInv, Completed
  <2> QED BY Zenon, <2>1, <2>2
<1>5. \A u \in Thread : ThreadInv(u)'
  <2> SUFFICES ASSUME NEW u \in Thread PROVE ThreadInv(u)' BY Zenon
  <2>1. CASE u = t BY Zenon, <2>1, <1>4
  <2>2. CASE u # t BY Zenon, <2>2, <1>3 DEF ThreadInv
  <2> QED BY Zenon, <2>1, <2>2
<1>6. \A u, v \in Thread : Completed(u)' = Completed(v)'
  BY Zenon, <1>3, <1>4
<1>7. Counted' = Counted BY Zenon, <1>1, <1>3, <1>4 DEF Counted
<1>8. (remaining = num_threads - Cardinality(Counted))'
  BY Zenon, <1>7 DEF Wakes, num_threads
<1>9. EndInv'
  <2>1. pc'[t] # "last" BY Zenon, <1>4 DEF Gone
  <2>2. \A u \in Thread : pc'[u] = "last" => pc[u] = "last" BY Zenon, <2>1, <1>3
  <2>3. destroyed => pc'[Main] = "end"
    BY Zenon, <1>1, <1>3, BarrierAssumption DEF EndInv, InWait
  <2> QED BY Zenon, <2>2, <2>3 DEF EndInv, Wakes
<1>20. BarrierInv'
  BY Zenon, <1>2, <1>5, <1>6, <1>8, <1>9
<1> QED BY Zenon, <1>20, <1>1, <1>3, <1>4

(* Exit() counts the caller for this round and all later ones.             *)
LEMMA ExitStep ==
  ASSUME CountFacts, BarrierInv, NEW t \in Thread, Exit(t)
  PROVE  /\ BarrierInv'
         /\ \A u \in Thread : (InRound(u)' <=> InRound(u))
         /\ Gone(t)' /\ \A u \in Thread \ {t} : (Gone(u)' <=> Gone(u))
<1> USE DEF BarrierInv
<1>T. num_threads \in Nat /\ num_threads > 0 BY DEF CountFacts
<1>1. /\ Counted \in SUBSET Thread /\ t \notin Counted
      /\ remaining \in Nat /\ remaining > 0
      /\ Cardinality(Counted \cup {t}) = Cardinality(Counted) + 1
      /\ Cardinality(Counted) \in Nat
  BY Zenon, Caller DEF Exit
<1>2. TypeOK'
  <2>1. pc' \in [Thread -> Places] BY Zenon DEF TypeOK, Exit, Places
  <2>2. remaining' \in 0..num_threads BY <1>1, <1>T DEF TypeOK, Exit
  <2>3. num_threads' = num_threads BY Zenon DEF num_threads
  <2> QED BY Zenon, <2>1, <2>2, <2>3 DEF TypeOK, Exit
<1>3. ASSUME NEW u \in Thread, u # t
      PROVE  /\ (InWait(u)' <=> InWait(u)) /\ (InRound(u)' <=> InRound(u))
             /\ (Gone(u)' <=> Gone(u)) /\ Completed(u)' = Completed(u)
             /\ pc'[u] = pc[u] /\ arrived'[u] = arrived[u]
             /\ passed'[u] = passed[u]
  BY Zenon, <1>3 DEF TypeOK, Exit, InWait, InRound, Gone, Completed
<1>4. /\ ~InWait(t) /\ ~InRound(t) /\ ~InWait(t)' /\ ~InRound(t)' /\ Gone(t)'
      /\ pc'[t] \in {"last", "exited"}
      /\ arrived'[t] = arrived[t] /\ passed'[t] = passed[t]
  BY Zenon DEF TypeOK, Exit, InWait, InRound, Gone
<1>5. \A u \in Thread : ThreadInv(u)'
  <2> SUFFICES ASSUME NEW u \in Thread PROVE ThreadInv(u)' BY Zenon
  <2>1. CASE u = t BY Zenon, <2>1, <1>4 DEF ThreadInv
  <2>2. CASE u # t BY Zenon, <2>2, <1>3 DEF ThreadInv
  <2> QED BY Zenon, <2>1, <2>2
<1>6. \A u, v \in Thread : Completed(u)' = Completed(v)'
  <2>1. Completed(t)' = Completed(t) BY Zenon, <1>4 DEF Completed
  <2> QED BY Zenon, <2>1, <1>3
<1>7. Counted' = Counted \cup {t} BY Zenon, <1>3, <1>4 DEF Counted
<1>8. (remaining = num_threads - Cardinality(Counted))'
  BY <1>1, <1>7, <1>T DEF Exit, num_threads
<1>9. EndInv'
  <2>1. \A u \in Thread : pc[u] # "last" BY <1>1 DEF EndInv
  <2>2. ~done /\ ~destroyed BY <1>1 DEF EndInv
  <2>3. pc'[t] = "last" => remaining' = 0 BY <1>1 DEF Exit, TypeOK
  <2> QED BY <2>1, <2>2, <2>3, <1>3 DEF EndInv, Exit
<1>20. BarrierInv'
  BY Zenon, <1>2, <1>5, <1>6, <1>8, <1>9
<1> QED BY Zenon, <1>20, <1>3, <1>4

(* The last two steps move threads that have exited, and nothing else.     *)
LEMMA GoneStep ==
  ASSUME BarrierInv, pc' \in [Thread -> Places],
         UNCHANGED <<remaining, parity, old_parity, arrived, passed>>,
         \A u \in Thread : pc'[u] # pc[u] => Gone(u) /\ Gone(u)',
         \A u \in Thread \ {Main} : pc'[u] \in {pc[u], "exited"}
  PROVE  /\ \A u \in Thread : (InRound(u)' <=> InRound(u)) /\ (Gone(u)' <=> Gone(u))
         /\ \A u \in Thread : ThreadInv(u)'
         /\ \A u, v \in Thread : Completed(u)' = Completed(v)'
         /\ (remaining = num_threads - Cardinality(Counted))'
<1> USE DEF BarrierInv
<1>1. ASSUME NEW u \in Thread
      PROVE  /\ (InWait(u)' <=> InWait(u)) /\ (InRound(u)' <=> InRound(u))
             /\ (Gone(u)' <=> Gone(u)) /\ Completed(u)' = Completed(u)
  <2>1. CASE pc'[u] = pc[u] BY Zenon, <2>1 DEF InWait, InRound, Gone, Completed
  <2>2. CASE pc'[u] # pc[u] BY Zenon, <2>2 DEF InWait, InRound, Gone, Completed
  <2> QED BY Zenon, <2>1, <2>2
<1>2. \A u \in Thread : ThreadInv(u)'
  <2> SUFFICES ASSUME NEW u \in Thread PROVE ThreadInv(u)' BY Zenon
  <2>1. ThreadInv(u) BY Zenon
  <2>2. pc'[u] = "waiting" => pc[u] = "waiting" BY Zenon DEF Gone
  <2>3. u # Main => pc'[u] \notin {"destructor", "destructor_notified", "end"}
    BY Zenon, <2>1 DEF ThreadInv
  <2> QED BY Zenon, <1>1, <2>1, <2>2, <2>3 DEF ThreadInv
<1>3. Counted' = Counted BY Zenon, <1>1 DEF Counted
<1> QED BY Zenon, <1>1, <1>2, <1>3 DEF num_threads

(* The last thread in Exit() sets done_ and wakes the destructor.          *)
LEMMA ExitLastStep ==
  ASSUME CountFacts, BarrierInv, NEW t \in Thread, ExitLast(t)
  PROVE  /\ BarrierInv'
         /\ \A u \in Thread : (InRound(u)' <=> InRound(u)) /\ (Gone(u)' <=> Gone(u))
<1> USE DEF BarrierInv
<1>1. pc' \in [Thread -> Places] BY Zenon DEF TypeOK, ExitLast, Places
<1>2. \A u \in Thread : pc'[u] # pc[u] => Gone(u) /\ Gone(u)'
  BY Zenon DEF ExitLast, Gone
<1>3. \A u \in Thread \ {Main} : pc'[u] \in {pc[u], "exited"}
  BY Zenon DEF ExitLast, ThreadInv
<1>4. UNCHANGED <<remaining, parity, old_parity, arrived, passed>>
  BY Zenon DEF ExitLast
<1>4a. \A u \in Thread : (InRound(u)' <=> InRound(u)) /\ (Gone(u)' <=> Gone(u))
  BY Zenon, <1>1, <1>2, <1>3, <1>4, GoneStep
<1>5. /\ \A u \in Thread : ThreadInv(u)'
      /\ \A u, v \in Thread : Completed(u)' = Completed(v)'
      /\ (remaining = num_threads - Cardinality(Counted))'
  BY Zenon, <1>1, <1>2, <1>3, <1>4, GoneStep
<1>6. TypeOK' BY Zenon, <1>1 DEF TypeOK, ExitLast, num_threads
<1>7. EndInv'
  <2>1. remaining = 0 /\ ~done /\ ~destroyed BY Zenon DEF EndInv, ExitLast
  <2>2. \A u \in Thread : pc'[u] # "last" BY Zenon DEF EndInv, ExitLast
  <2> QED BY Zenon, <2>1, <2>2 DEF EndInv, ExitLast
<1>20. BarrierInv'
  BY Zenon, <1>5, <1>6, <1>7
<1> QED BY Zenon, <1>20, <1>4a

(* The destructor of the main thread waits for done_.                      *)
LEMMA DestroyStep ==
  ASSUME CountFacts, BarrierInv, NEW t \in Thread,
         NEW place \in {"exited", "destructor", "destructor_notified"},
         Destroy(t, place)
  PROVE  /\ BarrierInv'
         /\ \A u \in Thread : (InRound(u)' <=> InRound(u)) /\ (Gone(u)' <=> Gone(u))
<1> USE DEF BarrierInv
<1>1. pc' \in [Thread -> Places] BY Zenon DEF TypeOK, Destroy, Places
<1>2. \A u \in Thread : pc'[u] # pc[u] => Gone(u) /\ Gone(u)'
  BY Zenon DEF Destroy, Gone, TypeOK
<1>3. \A u \in Thread \ {Main} : pc'[u] \in {pc[u], "exited"}
  BY Zenon DEF Destroy, TypeOK
<1>4. UNCHANGED <<remaining, parity, old_parity, arrived, passed>>
  BY Zenon DEF Destroy
<1>4a. \A u \in Thread : (InRound(u)' <=> InRound(u)) /\ (Gone(u)' <=> Gone(u))
  BY Zenon, <1>1, <1>2, <1>3, <1>4, GoneStep
<1>5. /\ \A u \in Thread : ThreadInv(u)'
      /\ \A u, v \in Thread : Completed(u)' = Completed(v)'
      /\ (remaining = num_threads - Cardinality(Counted))'
  BY Zenon, <1>1, <1>2, <1>3, <1>4, GoneStep
<1>6. TypeOK' BY Zenon, <1>1 DEF TypeOK, Destroy, num_threads
<1>7. EndInv'
  <2>1. \A u \in Thread : pc'[u] = "last" => pc[u] = "last"
    BY Zenon DEF Destroy, TypeOK
  <2>2. destroyed' => done /\ pc'[Main] = "end"
    BY Zenon, BarrierAssumption DEF Destroy, TypeOK
  <2> QED BY Zenon, <2>1, <2>2 DEF EndInv, Destroy
<1>20. BarrierInv'
  BY Zenon, <1>5, <1>6, <1>7
<1> QED BY Zenon, <1>20, <1>4a

-----------------------------------------------------------------------------
(* A step that leaves the barrier alone. *)
LEMMA StillBarrier ==
  ASSUME BarrierInv, UNCHANGED vars
  PROVE  /\ BarrierInv'
         /\ \A u \in Thread : /\ InRound(u)' <=> InRound(u)
                              /\ InWait(u)' <=> InWait(u)
                              /\ Gone(u)' <=> Gone(u)
<1>1. ASSUME NEW u \in Thread
      PROVE  /\ (InWait(u)' <=> InWait(u)) /\ (InRound(u)' <=> InRound(u))
             /\ (Gone(u)' <=> Gone(u)) /\ Completed(u)' = Completed(u)
             /\ ThreadInv(u)'
  BY Zenon DEF vars, InWait, InRound, Gone, Completed, ThreadInv, BarrierInv
<1>2. Counted' = Counted BY Zenon, <1>1 DEF Counted
<1>3. TypeOK' /\ EndInv' BY Zenon
                            DEF BarrierInv, TypeOK, EndInv, vars, num_threads
<1> QED BY Zenon, <1>1, <1>2, <1>3 DEF BarrierInv, vars, num_threads

(* Nobody has exited when a thread of this client calls Sync(). *)
LEMMA CallerBeforeExit ==
  ASSUME CountFacts, IInv, NEW t \in Thread, pc[t] = "out", arrived[t] < Rounds
  PROVE  \A u \in Thread : ~Gone(u)
<1> SUFFICES ASSUME NEW u \in Thread, Gone(u) PROVE FALSE BY Zenon
<1>1. Completed(u) = arrived[u] /\ Completed(t) = arrived[t]
  BY Zenon DEF Completed, InRound, InWait, Gone
<1>2. Completed(u) = Completed(t) /\ arrived[u] = Rounds
  BY Zenon DEF IInv, BarrierInv
<1>3. arrived[t] \in 0..Rounds BY Zenon DEF IInv, BarrierInv, TypeOK
<1>4. arrived[t] = Rounds BY Zenon, <1>1, <1>2
<1> QED BY <1>3, <1>4, BarrierAssumption

(* Every step of this client keeps the invariant. *)
LEMMA IInvInductive ==
  ASSUME CountFacts, IInv, [Next]_vars
  PROVE  IInv'
<1>1. BarrierInv /\ \A u \in Thread : Gone(u) => arrived[u] = Rounds
  BY Zenon DEF IInv
<1>2. ASSUME NEW t \in Thread, SyncWait(t) PROVE IInv'
  <2>1. BarrierInv' /\ InRound(t)' /\ \A u \in Thread : (Gone(u)' <=> Gone(u))
    BY Zenon, <1>1, <1>2, SyncWaitStep
  <2>2. \A u \in Thread : u # t => arrived'[u] = arrived[u]
    BY Zenon, <1>1, <1>2 DEF SyncWait, BarrierInv, TypeOK
  <2>3. ~Gone(t)' BY Zenon, <2>1 DEF InRound, InWait, Gone
  <2> QED BY Zenon, <1>1, <2>1, <2>2, <2>3 DEF IInv
<1>3. ASSUME NEW t \in Thread, SyncLast(t) PROVE IInv'
  <2>1. \A u \in Thread : ~Gone(u)
    BY Zenon, <1>3, CallerBeforeExit DEF SyncLast
  <2> QED BY Zenon, <1>1, <1>3, <2>1, SyncLastStep DEF IInv
<1>4. ASSUME NEW t \in Thread, NEW place \in {"waiting", "notified"},
             Wakes(t, place)
      PROVE  IInv'
  BY Zenon, <1>1, <1>4, WakesStep DEF IInv, Wakes
<1>5. ASSUME NEW t \in Thread, arrived[t] = Rounds, Exit(t) PROVE IInv'
  BY Zenon, <1>1, <1>5, ExitStep DEF IInv, Exit
<1>6. ASSUME NEW t \in Thread, ExitLast(t) PROVE IInv'
  BY Zenon, <1>1, <1>6, ExitLastStep DEF IInv, ExitLast
<1>7. ASSUME NEW t \in Thread,
             NEW place \in {"exited", "destructor", "destructor_notified"},
             Destroy(t, place)
      PROVE  IInv'
  BY Zenon, <1>1, <1>7, DestroyStep DEF IInv, Destroy
<1>8. CASE UNCHANGED vars
  <2>1. BarrierInv' /\ \A u \in Thread : (Gone(u)' <=> Gone(u))
    BY Zenon, <1>1, <1>8, StillBarrier
  <2> QED BY Zenon, <1>1, <1>8, <2>1 DEF IInv, vars
<1>9. CASE Next
  BY Zenon, <1>2, <1>3, <1>4, <1>5, <1>6, <1>7, <1>9 DEF Next, ExitAfterRounds
<1> QED BY Zenon, <1>8, <1>9

-----------------------------------------------------------------------------
(* The marker.  Its inductive invariant has five parts.  The tasks are in  *)
(* step: the calls of Sync() cut a marking into segments, and all tasks    *)
(* are in the same one.  num_busy_ counts the busy tasks, and only a busy  *)
(* one has work.  The heap keeps the tricolour invariant: what a marked    *)
(* object refers to is marked or on its way to be.  A round ends in a task *)
(* that found a weak property to visit, or with no such property left.     *)
(* And without a mutator nothing is known but reachable objects.           *)

Labels == Phase1 \cup {"final_deferred", "sync4", "weak", "sync5",
                       "finalize", "exit", "end"}

(* Where a task is before, and where after, its calls of Sync().           *)
Segment(l) ==
  IF l \in {"round", "round_pending", "sync2"} THEN "round"
  ELSE IF l \in {"decide", "sync3"} THEN "decide"
  ELSE IF l \in {"final_deferred", "sync4"} THEN "final"
  ELSE IF l \in {"weak", "sync5"} THEN "weak"
  ELSE IF l \in {"finalize", "exit", "end"} THEN "end"
  ELSE "drain"

BeforeSync(l) ==
  IF l = "round" THEN "drain"
  ELSE IF l = "decide" THEN "round"
  ELSE IF l \in {"enter", "final_deferred"} THEN "decide"
  ELSE IF l = "weak" THEN "final"
  ELSE "weak"

Seg(m) == IF InRound(m) THEN BeforeSync(at[m]) ELSE Segment(at[m])
Now == Seg(Main)

AfterSync == {"round", "decide", "enter", "final_deferred", "weak", "finalize"}
Concurrent == {"slice", "in_slice", "enter", "enter_pending", "loop",
               "loop_pending", "again", "drained"}

InStep ==
  /\ \A m \in Thread : /\ InWait(m) => at[m] \in AfterSync
                       /\ Gone(m) <=> at[m] = "end"
                       /\ Seg(m) = Now
  /\ stage = "concurrent" =>
       \A m \in Thread : pc[m] = "out" /\ at[m] \in Concurrent

(* A task that num_busy_ counts, and one that may have work in its block.  *)
Busy(m) ==
  \/ at[m] \in Concurrent \cup {"deferred"}
  \/ at[m] \in {"sync2", "decide", "sync3"} /\ more[m]
Pushes(m) ==
  \/ at[m] \in {"slice", "in_slice", "deferred", "enter", "loop",
                "loop_pending", "again"}
  \/ /\ at[m] \in {"enter_pending", "round_pending", "sync2", "decide", "sync3"}
     /\ more[m]

(* What a task has in hand agrees with where it is. *)
LocalOK(m) ==
  /\ todo[m] # {} =>
       /\ pc[m] = "out"
       /\ \/ at[m] \in {"in_slice", "deferred", "loop", "loop_pending"}
          \/ at[m] \in {"enter_pending", "round_pending"} /\ more[m]
  /\ list[m] # {} => at[m] \in {"enter_pending", "loop_pending", "round_pending"}
  /\ at[m] \in {"exit", "end"} => delayed[m] = {}
  /\ work[m] # {} => Pushes(m)

CountOK ==
  /\ num_busy = Cardinality({m \in Thread : Busy(m)})
  /\ Now = "decide" => \A m \in Thread :
       /\ at[m] = "sync3" => (more[m] <=> num_busy > 0)
       /\ at[m] = "enter" => num_busy > 0 /\ more[m]
       /\ at[m] = "final_deferred" => num_busy = 0

SharedOK ==
  stage = "parallel" => /\ shared # {} => \E m \in Thread : Pushes(m)
                        /\ stored = Null /\ block = {}

(* The objects that are still to be scanned, to be marked, or to be looked *)
(* at again.                                                               *)
IsGray(o) ==
  \/ \E m \in Thread : o \in work[m]
  \/ \E bk \in shared : o \in bk
  \/ o \in block
  \/ o \in deferred
IsComing(o) ==
  \/ \E m \in Thread : o \in todo[m]
  \/ o \in deferred
  \/ o = stored
IsWaiting(w) ==
  \/ w \in cleared
  \/ \E m \in Thread : w \in delayed[m] \cup list[m]

Held(o) == o \in marked \/ IsComing(o)
Done(o) ==
  /\ o \in Plain => field[o] = Null \/ Held(field[o])
  /\ o \in Weak => IsWaiting(o) \/ (Key[o] \in marked /\ Held(Value[o]))
Tricolour == \A o \in marked : IsGray(o) \/ Done(o)

(* deferred_marking_stack_ holds the temporaries until they are scanned,   *)
(* and Instructions until the end.                                         *)
DeferredOK ==
  /\ stage = "concurrent" => temp \subseteq deferred
  /\ stage = "parallel" => \A m \in Thread :
       at[m] \notin {"slice", "in_slice", "deferred"} => deferred \subseteq Code
  /\ Now = "final" => \A m \in Thread :
       at[m] # "final_deferred" => deferred = {}
  /\ Now \in {"weak", "end"} => deferred = {}

RootsOK ==
  stage = "parallel" =>
    /\ root_slices_started > 0 => \A o \in local : Held(o)
    /\ root_slices_started > 1 => \A o \in young : Held(o)
    /\ \A m \in Thread :
         at[m] \notin {"slice", "in_slice"} => root_slices_started > 1

(* A task that found a weak property with a marked key in this round. *)
Moved(m) ==
  at[m] \in {"round_pending", "sync2", "decide", "sync3", "enter"} /\ more[m]

RoundsOK ==
  /\ \/ Now = "drain"
     \/ Now \in {"round", "decide"} /\ \E m \in Thread : Moved(m)
     \/ \A m \in Thread :
          at[m] = "round" \/ \A w \in delayed[m] : Key[w] \notin marked
  /\ \A w \in cleared : Key[w] \notin marked
  /\ cleared # {} => Now = "end"

WeakOK ==
  /\ \A s \in 0 .. 3 :
       weak_set[s] = IF s < weak_slices_started THEN marked ELSE Object
  /\ Now \notin {"weak", "end"} => weak_slices_started = 0
  /\ Now = "weak" => \A m \in Thread : at[m] # "weak" => weak_slices_started > 3
  /\ Now = "end" => weak_slices_started > 3

Known(o) == o \in marked \/ IsGray(o) \/ IsComing(o) \/ IsWaiting(o)
OnlyReachable ==
  quiet => /\ stored = Null /\ block = {}
           /\ \A o \in Object : Known(o) => o \in Reachable

MarkerTypes ==
  /\ field \in [Plain -> Object \cup {Null}]
  /\ local \subseteq Object /\ young \subseteq Object /\ temp \subseteq Plain
  /\ marked \subseteq Object /\ deferred \subseteq Plain \cup Code
  /\ shared \subseteq SUBSET Object /\ block \subseteq Object
  /\ stored \in Object \cup {Null} /\ cleared \subseteq Weak
  /\ work \in [Thread -> SUBSET Object] /\ todo \in [Thread -> SUBSET Object]
  /\ delayed \in [Thread -> SUBSET Weak] /\ list \in [Thread -> SUBSET Weak]
  /\ more \in [Thread -> BOOLEAN] /\ at \in [Thread -> Labels]
  /\ stage \in {"concurrent", "parallel"} /\ quiet \in BOOLEAN
  /\ root_slices_started \in Nat /\ weak_slices_started \in Nat
  /\ weak_set \in [0 .. 3 -> SUBSET Object]

MarkerInv ==
  /\ BarrierInv /\ MarkerTypes /\ InStep
  /\ \A m \in Thread : LocalOK(m)
  /\ CountOK /\ SharedOK
  /\ Tricolour /\ DeferredOK /\ RootsOK /\ RoundsOK /\ WeakOK
  /\ OnlyReachable

(* What the parts of the invariant say of a task outside the barrier. *)
LEMMA Outside ==
  ASSUME MarkerInv, NEW m \in Thread, pc[m] = "out"
  PROVE  /\ ~InWait(m) /\ ~InRound(m) /\ ~Gone(m)
         /\ at[m] \in Labels \ {"end"}
         /\ Now = Segment(at[m])
<1>1. ~InWait(m) /\ ~InRound(m) /\ ~Gone(m)
  BY Zenon DEF InWait, InRound, Gone
<1>2. at[m] \in Labels /\ at[m] # "end" /\ Seg(m) = Now
  BY Zenon, <1>1 DEF MarkerInv, MarkerTypes, InStep
<1> QED
  BY Zenon, <1>1, <1>2 DEF Seg

(* A step of task m within its segment, which leaves the mutator and the   *)
(* other tasks alone.                                                      *)
TaskMoves(m, l) ==
  /\ pc[m] = "out" /\ l \in Labels \ {"end"}
  /\ at' = [at EXCEPT ![m] = l]
  /\ Segment(l) = Segment(at[m])
  /\ stage = "concurrent" => l \in Concurrent
  /\ UNCHANGED <<barrier, mutator, stage>>
  /\ \A n \in Thread \ {m} :
       /\ work'[n] = work[n] /\ todo'[n] = todo[n] /\ list'[n] = list[n]
       /\ delayed'[n] = delayed[n] /\ more'[n] = more[n]

(* num_busy_ follows the task, and it leaves no shared work behind. *)
KeepsCount(m) ==
  /\ \/ (Busy(m)' <=> Busy(m)) /\ num_busy' = num_busy
     \/ Busy(m) /\ ~Busy(m)' /\ num_busy' = num_busy - 1
     \/ ~Busy(m) /\ Busy(m)' /\ num_busy' = num_busy + 1
  /\ Pushes(m)' \/ shared' = {} \/ (shared # {} /\ ~Pushes(m))

(* num_busy_ is the number of busy tasks. *)
LEMMA NumBusy ==
  ASSUME CountFacts, CountOK
  PROVE  /\ num_busy \in 0 .. num_threads
         /\ num_threads \in Nat
         /\ (\E m \in Thread : Busy(m)) => num_busy > 0
         /\ (\A m \in Thread : ~Busy(m)) => num_busy = 0
<1> DEFINE S == {m \in Thread : Busy(m)}
<1>1. num_busy = Cardinality(S)
  BY Zenon DEF CountOK
<1>2. num_busy \in 0 .. num_threads /\ num_threads \in Nat
  BY Zenon, <1>1 DEF CountFacts
<1>3. ASSUME NEW m \in Thread, Busy(m)
      PROVE  num_busy > 0
  <2>1. S \ {m} \in SUBSET Thread /\ m \in Thread \ (S \ {m})
        /\ (S \ {m}) \cup {m} = S
    BY Zenon, <1>3
  <2> HIDE DEF S
  <2>2. /\ Cardinality(S \ {m}) \in 0 .. num_threads
        /\ Cardinality((S \ {m}) \cup {m}) = Cardinality(S \ {m}) + 1
    BY Zenon, <2>1 DEF CountFacts
  <2> QED
    BY <1>1, <1>2, <2>1, <2>2
<1>4. ASSUME \A m \in Thread : ~Busy(m)
      PROVE  num_busy = 0
  <2>1. S = {}
    BY Zenon, <1>4
  <2> QED
    BY Zenon, <1>1, <2>1 DEF CountFacts
<1> QED
  BY Zenon, <1>2, <1>3, <1>4

(* num_busy_ after one task has changed. *)
LEMMA CountStep ==
  ASSUME CountFacts, CountOK, NEW m \in Thread,
         \A n \in Thread \ {m} : Busy(n)' <=> Busy(n),
         \/ (Busy(m)' <=> Busy(m)) /\ num_busy' = num_busy
         \/ Busy(m) /\ ~Busy(m)' /\ num_busy' = num_busy - 1
         \/ ~Busy(m) /\ Busy(m)' /\ num_busy' = num_busy + 1
  PROVE  num_busy' = Cardinality({n \in Thread : Busy(n)'})
<1> DEFINE S == {n \in Thread : Busy(n)}
           T == {n \in Thread : Busy(n)'}
<1>1. num_busy = Cardinality(S) /\ num_busy \in Nat
  BY NumBusy DEF CountOK
<1>2. S \in SUBSET Thread /\ T \in SUBSET Thread
  BY Zenon
<1>3. CASE (Busy(m)' <=> Busy(m)) /\ num_busy' = num_busy
  <2>1. S = T
    BY Zenon, <1>3
  <2> QED
    BY Zenon, <1>1, <1>3, <2>1
<1>4. CASE Busy(m) /\ ~Busy(m)' /\ num_busy' = num_busy - 1
  <2>1. m \in Thread \ T /\ T \cup {m} = S
    BY Zenon, <1>4
  <2> HIDE DEF S, T
  <2>2. Cardinality(T \cup {m}) = Cardinality(T) + 1 /\ Cardinality(T) \in Nat
    BY <1>2, <2>1 DEF CountFacts
  <2>3. num_busy = Cardinality(T) + 1
    BY Zenon, <1>1, <2>1, <2>2
  <2>4. num_busy' = Cardinality(T)
    BY <1>4, <2>2, <2>3
  <2> QED
    BY Zenon, <2>4 DEF T
<1>5. CASE ~Busy(m) /\ Busy(m)' /\ num_busy' = num_busy + 1
  <2>1. m \in Thread \ S /\ S \cup {m} = T
    BY Zenon, <1>5
  <2> HIDE DEF S, T
  <2>2. Cardinality(S \cup {m}) = Cardinality(S) + 1
    BY Zenon, <1>2, <2>1 DEF CountFacts
  <2>3. num_busy' = Cardinality(T)
    BY Zenon, <1>1, <1>5, <2>1, <2>2
  <2> QED
    BY Zenon, <2>3 DEF T
<1> QED
  BY Zenon, <1>3, <1>4, <1>5

(* The tasks stay in step and agree with what they have in hand. *)
LEMMA TaskStep ==
  ASSUME CountFacts, MarkerInv, NEW m \in Thread, NEW l,
         TaskMoves(m, l), LocalOK(m)', KeepsCount(m)
  PROVE  /\ BarrierInv' /\ InStep' /\ SharedOK'
         /\ \A n \in Thread : LocalOK(n)'
         /\ (num_busy = Cardinality({n \in Thread : Busy(n)}))'
         /\ Now = Segment(at[m]) /\ Now' = Now
         /\ at'[m] = l /\ \A n \in Thread \ {m} : at'[n] = at[n]
<1> USE DEF TaskMoves
<1>1. BarrierInv /\ UNCHANGED vars
  BY Zenon DEF MarkerInv, barrier
<1>2. /\ BarrierInv'
      /\ \A n \in Thread : /\ InRound(n)' <=> InRound(n)
                           /\ InWait(n)' <=> InWait(n)
                           /\ Gone(n)' <=> Gone(n)
  BY Zenon, <1>1, StillBarrier
<1>3. at'[m] = l /\ \A n \in Thread \ {m} : at'[n] = at[n]
  BY Zenon DEF MarkerInv, MarkerTypes
<1>4. /\ ~InWait(m) /\ ~InRound(m) /\ ~Gone(m) /\ at[m] # "end"
      /\ Now = Segment(at[m])
  BY Zenon, Outside
<1>5. \A n \in Thread : Seg(n)' = Seg(n)
  BY <1>2, <1>3, <1>4 DEF Seg
<1>6. Now' = Now
  BY Zenon, <1>5, BarrierAssumption DEF Now
<1>7. InStep'
  <2>1. ASSUME NEW n \in Thread
        PROVE  /\ InWait(n)' => at'[n] \in AfterSync
               /\ Gone(n)' <=> at'[n] = "end"
               /\ Seg(n)' = Now'
    <3>1. /\ InWait(n) => at[n] \in AfterSync
          /\ Gone(n) <=> at[n] = "end"
          /\ Seg(n) = Now
      BY Zenon DEF MarkerInv, InStep
    <3> QED
      BY Zenon, <1>2, <1>3, <1>4, <1>5, <1>6, <3>1
  <2>2. ASSUME stage' = "concurrent", NEW n \in Thread
        PROVE  pc'[n] = "out" /\ at'[n] \in Concurrent
    BY Zenon, <1>1, <1>3, <2>2 DEF MarkerInv, InStep, vars
  <2> QED
    BY Zenon, <2>1, <2>2 DEF InStep
<1>8. \A n \in Thread \ {m} : /\ LocalOK(n)'
                              /\ Busy(n)' <=> Busy(n)
                              /\ Pushes(n)' <=> Pushes(n)
  BY Zenon, <1>1, <1>3 DEF MarkerInv, LocalOK, Busy, Pushes, vars
<1>9. (num_busy = Cardinality({n \in Thread : Busy(n)}))'
  BY Zenon, <1>8, CountStep DEF KeepsCount, MarkerInv
<1>10. SharedOK'
  <2>1. stored' = stored /\ block' = block
    BY Zenon DEF mutator
  <2>2. ASSUME stage = "parallel", shared' # {}
        PROVE  \E n \in Thread : Pushes(n)'
    BY Zenon, <1>8, <2>2 DEF KeepsCount, MarkerInv, SharedOK
  <2> QED
    BY Zenon, <2>1, <2>2 DEF MarkerInv, SharedOK
<1> QED
  BY Zenon, <1>2, <1>3, <1>4, <1>6, <1>7, <1>8, <1>9, <1>10

(* What the mutator can reach is closed, and the least such set. *)
LEMMA ReachableClosed ==
  ASSUME MarkerTypes
  PROVE  Closed(Reachable)
<1>1. local \cup young \subseteq Reachable
  BY Zenon DEF MarkerTypes, Reachable, Closed
<1>2. ASSUME NEW o \in Reachable \cap Plain
      PROVE  field[o] \in Reachable \cup {Null}
  BY Zenon DEF MarkerTypes, Reachable, Closed
<1>3. ASSUME NEW w \in Reachable \cap Weak, Key[w] \in Reachable
      PROVE  Value[w] \in Reachable
  BY Zenon, <1>3, MarkerAssumption DEF Reachable, Closed
<1> QED
  BY Zenon, <1>1, <1>2, <1>3 DEF Closed

(* The tricolour invariant after a step that does not store: what was held *)
(* still is, and whatever is no longer gray has been scanned.              *)
LEMMA TricolourStep ==
  ASSUME MarkerInv, field' = field, marked \subseteq marked',
         \A o \in Object : Held(o) => Held(o)',
         \A w \in Weak : IsWaiting(w) => IsWaiting(w)' \/ Done(w)',
         \A o \in marked' :
           IsGray(o)' \/ Done(o)' \/ (o \in marked /\ ~IsGray(o))
  PROVE  Tricolour'
<1> SUFFICES ASSUME NEW o \in marked', o \in marked, ~IsGray(o)
             PROVE  Done(o)'
  BY Zenon DEF Tricolour
<1>1. Done(o)
  BY Zenon DEF MarkerInv, Tricolour
<1>2. CASE o \in Plain
  <2>1. field[o] = Null \/ (field[o] \in Object /\ Held(field[o]))
    BY Zenon, <1>1, <1>2 DEF Done, MarkerInv, MarkerTypes
  <2>2. o \notin Weak
    BY Zenon, <1>2, MarkerAssumption
  <2> QED
    BY Zenon, <2>1, <2>2 DEF Done
<1>3. CASE o \in Weak
  <2>1. IsWaiting(o) \/ (Key[o] \in marked /\ Held(Value[o]))
    BY Zenon, <1>1, <1>3 DEF Done
  <2>2. o \notin Plain /\ Value[o] \in Object
    BY Zenon, <1>3, MarkerAssumption
  <2> QED
    BY Zenon, <1>3, <2>1, <2>2 DEF Done
<1> QED
  BY Zenon, <1>2, <1>3 DEF Done

(* The heap seen by the tasks after a step of one of them. *)
HeapGrows ==
  /\ MarkerTypes' /\ Tricolour' /\ OnlyReachable'
  /\ \A o \in Object : Held(o) => Held(o)'

(* Nothing new is known but reachable objects. *)
LEMMA ReachableStep ==
  ASSUME MarkerInv, UNCHANGED mutator,
         \A o \in Object : Known(o)' /\ quiet => Known(o) \/ o \in Reachable
  PROVE  OnlyReachable'
<1>1. Reachable' = Reachable
  BY Zenon DEF Reachable, Closed, mutator
<1>2. UNCHANGED <<quiet, stored, block>>
  BY Zenon DEF mutator
<1> QED
  BY Zenon, <1>1, <1>2 DEF MarkerInv, OnlyReachable

(* A step that leaves the heap and the lists alone. *)
LEMMA HeapStill ==
  ASSUME MarkerInv, UNCHANGED <<mutator, lists, cleared, todo, list>>
  PROVE  /\ Tricolour' /\ OnlyReachable'
         /\ \A o \in Object : Held(o)' <=> Held(o)
<1>1. UNCHANGED <<field, local, young, quiet, stored, block, marked, work,
                  shared, deferred, delayed, cleared, todo, list>>
  BY Zenon DEF mutator, lists
<1>2. \A o : /\ IsGray(o)' <=> IsGray(o)
             /\ IsComing(o)' <=> IsComing(o)
             /\ IsWaiting(o)' <=> IsWaiting(o)
  BY Zenon, <1>1 DEF IsGray, IsComing, IsWaiting
<1>3. \A o : (Held(o)' <=> Held(o)) /\ (Known(o)' <=> Known(o))
  BY Zenon, <1>1, <1>2 DEF Held, Known
<1>4. Tricolour'
  BY Zenon, <1>1, <1>2, <1>3, TricolourStep
<1>5. OnlyReachable'
  BY Zenon, <1>3, ReachableStep
<1> QED
  BY Zenon, <1>3, <1>4, <1>5

(* A step of a task before the second of the three barriers. *)
LEMMA DrainStep ==
  ASSUME CountFacts, MarkerInv, NEW m \in Thread, NEW l,
         TaskMoves(m, l), LocalOK(m)', KeepsCount(m), HeapGrows,
         \/ Segment(l) = "drain"
         \/ /\ Segment(l) = "round"
            /\ \/ \E n \in Thread : Moved(n)'
               \/ \A n \in Thread : \/ at'[n] = "round"
                                    \/ \A w \in delayed'[n] : Key[w] \notin marked',
         UNCHANGED <<results, weak_slices_started>>,
         stage = "concurrent" => deferred \subseteq deferred',
         stage = "parallel" => deferred' \subseteq deferred \cup Code,
         stage = "parallel" /\ l \notin {"slice", "in_slice", "deferred"} =>
           deferred' \subseteq Code,
         RootsOK'
  PROVE  MarkerInv'
<1>1. /\ BarrierInv' /\ InStep' /\ SharedOK'
      /\ \A n \in Thread : LocalOK(n)'
      /\ (num_busy = Cardinality({n \in Thread : Busy(n)}))'
      /\ Now = Segment(at[m]) /\ Now' = Now
      /\ at'[m] = l /\ \A n \in Thread \ {m} : at'[n] = at[n]
  BY Zenon, TaskStep
<1>2. Now \in {"drain", "round"} /\ Now' = Now /\ Now = Segment(l)
  BY Zenon, <1>1 DEF TaskMoves
<1>3. CountOK'
  BY Zenon, <1>1, <1>2 DEF CountOK
<1>4. DeferredOK'
  <2>1. stage' = stage /\ temp' = temp
    BY Zenon DEF TaskMoves, mutator
  <2>2. ASSUME stage = "parallel", NEW n \in Thread,
               at'[n] \notin {"slice", "in_slice", "deferred"}
        PROVE  deferred' \subseteq Code
    BY Zenon, <1>1, <2>2 DEF MarkerInv, DeferredOK
  <2> QED
    BY Zenon, <1>2, <2>1, <2>2 DEF DeferredOK, MarkerInv
<1>5. cleared' = {}
  BY Zenon, <1>2 DEF MarkerInv, RoundsOK, results
<1>6. RoundsOK'
  BY Zenon, <1>2, <1>5 DEF RoundsOK
<1>7. WeakOK'
  <2>1. weak_slices_started = 0 /\ UNCHANGED <<weak_set, weak_slices_started>>
    BY Zenon, <1>2 DEF MarkerInv, WeakOK, results
  <2>2. \A s \in 0 .. 3 : ~(s < 0)
    OBVIOUS
  <2>3. \A s \in 0 .. 3 : weak_set[s] = Object
    BY Zenon, <2>1, <2>2 DEF MarkerInv, WeakOK
  <2> QED
    BY Zenon, <1>2, <2>1, <2>2, <2>3 DEF WeakOK
<1> QED
  BY Zenon, <1>1, <1>3, <1>4, <1>6, <1>7 DEF HeapGrows, MarkerInv

(* The roots after a step of a task that takes no slice. *)
LEMMA RootsKept ==
  ASSUME MarkerInv, NEW m \in Thread, NEW l, TaskMoves(m, l),
         \A o \in Object : Held(o) => Held(o)',
         UNCHANGED root_slices_started,
         at[m] \in {"slice", "in_slice"} /\ l \notin {"slice", "in_slice"} =>
           root_slices_started > 1
  PROVE  RootsOK'
<1>1. UNCHANGED <<local, young, stage>> /\ local \subseteq Object /\ young \subseteq Object
  BY Zenon DEF TaskMoves, mutator, MarkerInv, MarkerTypes
<1>2. at'[m] = l /\ \A n \in Thread \ {m} : at'[n] = at[n]
  BY Zenon DEF TaskMoves, MarkerInv, MarkerTypes
<1>3. RootsOK
  BY Zenon DEF MarkerInv
<1> QED
  BY Zenon, <1>1, <1>2, <1>3 DEF RootsOK

(* A step before the first of the three barriers that changes where the    *)
(* task is and nothing else of it.                                         *)
LEMMA DrainMove ==
  ASSUME CountFacts, MarkerInv, NEW m \in Thread, NEW l, At(m, at[m]),
         l \in Labels, at' = [at EXCEPT ![m] = l],
         Segment(at[m]) = "drain", Segment(l) = "drain",
         stage = "concurrent" => l \in Concurrent,
         UNCHANGED <<barrier, mutator, stage, lists, todo, list, more, results,
                     weak_slices_started>>,
         list[m] # {} => l \in {"enter_pending", "loop_pending"},
         work[m] # {} => Pushes(m)',
         KeepsCount(m),
         root_slices_started' \in Nat,
         RootsOK',
         stage = "parallel" /\ at[m] \in {"slice", "in_slice", "deferred"}
           /\ l \notin {"slice", "in_slice", "deferred"} => deferred \subseteq Code
  PROVE  MarkerInv'
<1>0. UNCHANGED <<work, shared, deferred, marked, delayed>>
  BY Zenon DEF lists
<1>1. l \in Labels \ {"end"}
  BY Zenon DEF Segment
<1>2. TaskMoves(m, l)
  BY Zenon, <1>0, <1>1 DEF TaskMoves, At
<1>3. MarkerTypes /\ at'[m] = l
  BY Zenon DEF MarkerInv, MarkerTypes
<1>4. LocalOK(m)'
  <2>1. todo[m] = {} /\ l \notin {"exit", "end"}
    BY Zenon DEF At, Segment
  <2> QED
    BY Zenon, <1>0, <1>3, <2>1 DEF LocalOK
<1>5. MarkerTypes'
  BY Zenon, <1>3 DEF MarkerTypes, mutator, lists, results
<1>6. HeapGrows
  BY Zenon, <1>5, HeapStill DEF HeapGrows, results
<1>7. stage = "parallel" /\ l \notin {"slice", "in_slice", "deferred"} =>
        deferred \subseteq Code
  BY Zenon DEF MarkerInv, DeferredOK
<1> QED
  BY Zenon, <1>0, <1>2, <1>4, <1>6, <1>7, DrainStep

(* IterateRoots(). *)
LEMMA IterateRootsStep ==
  ASSUME CountFacts, MarkerInv, NEW m \in Thread, IterateRoots(m)
  PROVE  MarkerInv'
<1>0. /\ UNCHANGED <<weak_slices_started, lists, list, more, barrier, mutator,
                     results, stage, num_busy>>
      /\ UNCHANGED <<marked, work, shared, deferred, delayed>>
      /\ UNCHANGED <<field, local, young, temp, block, stored, ops, quiet>>
      /\ UNCHANGED <<cleared, weak_set>>
      /\ MarkerTypes
  BY Zenon DEF IterateRoots, lists, mutator, results, MarkerInv
<1>1. CASE /\ At(m, "slice") /\ root_slices_started < 2
           /\ todo' = [todo EXCEPT ![m] = Roots(root_slices_started) \ marked]
           /\ at' = [at EXCEPT ![m] = "in_slice"]
           /\ root_slices_started' = root_slices_started + 1
  <2> DEFINE R == Roots(root_slices_started)
  <2>1. /\ root_slices_started \in {0, 1}
        /\ root_slices_started = 0 => R = local
        /\ root_slices_started = 1 => R = young
        /\ R \subseteq Object
        /\ root_slices_started' \in Nat
    BY <1>0, <1>1 DEF MarkerTypes, Roots
  <2> HIDE DEF R
  <2>2. /\ todo'[m] = R \ marked /\ at'[m] = "in_slice"
        /\ todo[m] = {} /\ at[m] = "slice" /\ pc[m] = "out"
        /\ \A n \in Thread \ {m} : todo'[n] = todo[n] /\ at'[n] = at[n]
    BY Zenon, <1>0, <1>1 DEF MarkerTypes, R, At
  <2>3. TaskMoves(m, "in_slice")
    BY Zenon, <1>0, <1>1, <2>2
       DEF TaskMoves, Segment, Labels, Phase1, Concurrent
  <2>4. LocalOK(m)'
    BY Zenon, <1>0, <2>2, <2>3
       DEF LocalOK, MarkerInv, Pushes, TaskMoves, barrier, vars
  <2>5. KeepsCount(m)
    BY Zenon, <1>0, <2>2 DEF KeepsCount, Busy, Pushes, Concurrent
  <2>6. \A o : /\ IsGray(o)' <=> IsGray(o)
               /\ IsWaiting(o)' <=> IsWaiting(o)
               /\ IsComing(o) => IsComing(o)'
               /\ IsComing(o)' => IsComing(o) \/ o \in R
    BY Zenon, <1>0, <2>2 DEF IsGray, IsWaiting, IsComing
  <2>7. \A o : Held(o) => Held(o)'
    BY Zenon, <1>0, <2>6 DEF Held
  <2>8. Tricolour'
    BY Zenon, <1>0, <2>6, <2>7, TricolourStep
  <2>9. \A o \in Object : Known(o)' => Known(o) \/ o \in Reachable
    <3>1. R \subseteq Reachable
      BY Zenon, <1>0, <2>1, ReachableClosed DEF Closed
    <3> QED
      BY Zenon, <1>0, <2>6, <3>1 DEF Known
  <2>10. OnlyReachable'
    BY Zenon, <1>0, <2>9, ReachableStep
  <2>11. MarkerTypes'
    <3>1. todo' \in [Thread -> SUBSET Object] /\ at' \in [Thread -> Labels]
      BY Zenon, <1>0, <1>1, <2>1 DEF MarkerTypes, R, Labels, Phase1
    <3> QED
      BY Zenon, <1>0, <2>1, <3>1 DEF MarkerTypes
  <2>12. \A o \in R : Held(o)'
    BY Zenon, <1>0, <2>2 DEF Held, IsComing
  <2>13. RootsOK'
    <3>1. ASSUME stage = "parallel"
          PROVE  /\ root_slices_started' > 0 => \A o \in local : Held(o)'
                 /\ root_slices_started' > 1 => \A o \in young : Held(o)'
                 /\ root_slices_started > 1 => root_slices_started' > 1
      BY <1>0, <1>1, <2>1, <2>7, <2>12, <3>1
         DEF MarkerInv, RootsOK, MarkerTypes
    <3> QED
      BY Zenon, <1>0, <2>2, <3>1 DEF MarkerInv, RootsOK
  <2> QED
    BY Zenon, <1>0, <2>3, <2>4, <2>5, <2>7, <2>8, <2>10, <2>11, <2>13, DrainStep
    DEF HeapGrows, Segment, MarkerInv, DeferredOK
<1>2. CASE /\ At(m, "slice") /\ ~(root_slices_started < 2)
           /\ at' = [at EXCEPT ![m] = IF stage = "concurrent" THEN "enter"
                                      ELSE "deferred"]
           /\ root_slices_started' = root_slices_started + 1
           /\ UNCHANGED todo
  <2> DEFINE l == IF stage = "concurrent" THEN "enter" ELSE "deferred"
  <2>1. /\ at'[m] = l /\ at[m] = "slice" /\ l \in {"enter", "deferred"}
        /\ stage = "concurrent" <=> l = "enter"
        /\ at' = [at EXCEPT ![m] = l]
        /\ \A n \in Thread \ {m} : at'[n] = at[n]
    BY Zenon, <1>0, <1>2 DEF MarkerTypes, At
  <2> HIDE DEF l
  <2>2. root_slices_started > 1 /\ root_slices_started' > 1
        /\ root_slices_started' \in Nat
    BY <1>0, <1>2 DEF MarkerTypes
  <2>3. KeepsCount(m) /\ Pushes(m)'
    BY Zenon, <1>0, <2>1 DEF KeepsCount, Busy, Pushes, Concurrent
  <2>4. list[m] = {}
    BY Zenon, <2>1 DEF MarkerInv, LocalOK
  <2>5. \A o \in Object : Held(o)' <=> Held(o)
    BY Zenon, <1>0, <1>2, HeapStill
  <2>6. RootsOK'
    BY <1>0, <2>2, <2>5 DEF MarkerInv, RootsOK, MarkerTypes
  <2> QED
    BY Zenon, <1>0, <1>2, <2>1, <2>2, <2>3, <2>4, <2>6, DrainMove
    DEF Segment, Labels, Phase1, Concurrent
<1>3. CASE /\ At(m, "in_slice") /\ Goto(m, "slice")
           /\ UNCHANGED <<root_slices_started, todo>>
  <2>1. /\ at'[m] = "slice" /\ at[m] = "in_slice"
        /\ at' = [at EXCEPT ![m] = "slice"]
        /\ \A n \in Thread \ {m} : at'[n] = at[n]
    BY Zenon, <1>0, <1>3 DEF MarkerTypes, At, Goto
  <2>2. KeepsCount(m) /\ Pushes(m)'
    BY Zenon, <1>0, <2>1 DEF KeepsCount, Busy, Pushes, Concurrent
  <2>3. list[m] = {}
    BY Zenon, <2>1 DEF MarkerInv, LocalOK
  <2>4. \A o \in Object : Held(o)' <=> Held(o)
    BY Zenon, <1>0, <1>3, HeapStill
  <2>5. RootsOK' /\ root_slices_started' \in Nat
    BY Zenon, <1>0, <1>3, <2>1, <2>4 DEF MarkerInv, RootsOK, MarkerTypes
  <2> QED
    BY Zenon, <1>0, <1>3, <2>1, <2>2, <2>3, <2>5, DrainMove
    DEF Segment, Labels, Phase1, Concurrent
<1> QED
  BY Zenon, <1>1, <1>2, <1>3 DEF IterateRoots, root_slices_count, Goto

(* DrainMarkingStack(), FindWork(): the steps that only change where the   *)
(* task is, and num_busy_.                                                 *)
DrainsTo(m, k, l) ==
  \/ /\ UNCHANGED num_busy
     /\ \/ k = "enter_pending" /\ l = IF more[m] THEN "again" ELSE "drained"
        \/ k = "loop_pending" /\ l = "again"
        \/ k = "again" /\ l = "drained" /\ NoWork(m)
        \/ k = "spin" /\ l = "check" /\ stage = "parallel"
        \/ k = "check" /\ l \in {"sync1", "add"} /\ stage = "parallel"
  \/ /\ k = "drained" /\ l \in {"sync1", "spin"} /\ stage = "parallel"
     /\ num_busy' = num_busy - 1
  \/ /\ k = "add" /\ l = "enter" /\ stage = "parallel"
     /\ num_busy' = num_busy + 1

(* They keep the invariant. *)
LEMMA DrainControlStep ==
  ASSUME CountFacts, MarkerInv, NEW m \in Thread, NEW k, NEW l,
         At(m, k), Goto(m, l), DrainsTo(m, k, l),
         UNCHANGED <<lists, todo, list, more, barrier, mutator, slices, results,
                     stage>>,
         list[m] = {}
  PROVE  MarkerInv'
<1>1. /\ at'[m] = l /\ at[m] = k /\ MarkerTypes
      /\ at' = [at EXCEPT ![m] = l]
      /\ more'[m] = more[m] /\ shared' = shared /\ UNCHANGED root_slices_started
  BY Zenon DEF MarkerInv, MarkerTypes, At, Goto, lists, slices
<1>2. /\ k \notin {"slice", "in_slice", "deferred"} /\ l \in Labels
      /\ Segment(k) = "drain" /\ Segment(l) = "drain"
      /\ l \notin {"slice", "in_slice", "deferred"}
      /\ k \in Labels
      /\ k \in {"enter_pending", "loop_pending", "again"} => l \in Concurrent
      /\ k \notin {"enter_pending", "loop_pending", "again"} => stage = "parallel"
  BY Zenon DEF DrainsTo, Segment, Labels, Phase1, Concurrent
<1>3. work[m] # {} => Pushes(m)'
  BY Zenon, <1>1 DEF DrainsTo, MarkerInv, LocalOK, Pushes, NoWork
<1>4. KeepsCount(m)
  BY Zenon, <1>1 DEF DrainsTo, KeepsCount, Busy, Pushes, NoWork, Concurrent
<1>5. \A o \in Object : Held(o)' <=> Held(o)
  BY Zenon, HeapStill DEF results
<1>6. RootsOK'
  <2>1. UNCHANGED <<local, young, stage>>
    BY Zenon DEF mutator
  <2>2. \A n \in Thread \ {m} : at'[n] = at[n]
    BY Zenon, <1>1 DEF MarkerTypes
  <2> QED
    BY Zenon, <1>1, <1>2, <1>5, <2>1, <2>2 DEF MarkerInv, RootsOK, MarkerTypes
<1>7. /\ At(m, at[m]) /\ root_slices_started' \in Nat
      /\ UNCHANGED <<barrier, mutator, stage, lists, todo, list, more, results,
                     weak_slices_started>>
  BY Zenon, <1>1 DEF slices, MarkerTypes, At
<1>8. stage = "concurrent" => l \in Concurrent
  BY Zenon, <1>2
<1>9. Segment(at[m]) = "drain" /\ at[m] \notin {"slice", "in_slice", "deferred"}
  BY Zenon, <1>1, <1>2
<1> QED
  BY Zenon, <1>1, <1>2, <1>3, <1>4, <1>6, <1>7, <1>8, <1>9, DrainMove

(* MarkObject(). *)
LEMMA MarkObjectStep ==
  ASSUME CountFacts, MarkerInv, NEW m \in Thread, MarkObject(m)
  PROVE  MarkerInv'
<1>1. PICK o \in todo[m] :
        /\ todo' = [todo EXCEPT ![m] = @ \ {o}]
        /\ \/ o \in marked /\ UNCHANGED <<marked, work, shared, deferred>>
           \/ /\ o \in Code \ marked
              /\ deferred' = deferred \cup {o}
              /\ UNCHANGED <<marked, work, shared>>
           \/ /\ o \notin marked \cup Code
              /\ marked' = marked \cup {o}
              /\ Push(m, o)
              /\ UNCHANGED deferred
  BY Zenon DEF MarkObject
<1>2. /\ UNCHANGED <<delayed, barrier, mutator, slices, results, stage,
                     num_busy, at, list, more>>
      /\ UNCHANGED <<field, local, young, temp, block, stored, quiet, cleared,
                     weak_set, root_slices_started, weak_slices_started>>
      /\ MarkerTypes /\ LocalOK(m)
  BY Zenon DEF MarkObject, mutator, slices, results, MarkerInv
<1>3. /\ todo'[m] = todo[m] \ {o} /\ o \in Object
      /\ \A n \in Thread \ {m} : todo'[n] = todo[n]
      /\ todo' \in [Thread -> SUBSET Object]
  BY Zenon, <1>1, <1>2 DEF MarkerTypes
<1>4. /\ pc[m] = "out" /\ Pushes(m)
      /\ \/ at[m] \in {"in_slice", "deferred", "loop", "loop_pending"}
         \/ at[m] \in {"enter_pending", "round_pending"} /\ more[m]
  BY Zenon, <1>2 DEF LocalOK, Pushes
<1>5. /\ marked \subseteq marked' /\ marked' \subseteq marked \cup {o}
      /\ \A n \in Thread \ {m} : work'[n] = work[n]
      /\ deferred \subseteq deferred' /\ deferred' \subseteq deferred \cup Code
      /\ o \in marked' \cup deferred'
      /\ \A x : IsGray(x) => IsGray(x)'
      /\ \A x \in marked' : x \in marked \/ IsGray(x)'
      /\ \A x : IsGray(x)' => IsGray(x) \/ x = o
      /\ MarkerTypes'
  <2>1. CASE o \in marked /\ UNCHANGED <<marked, work, shared, deferred>>
    BY Zenon, <1>2, <1>3, <2>1 DEF IsGray, MarkerTypes
  <2>2. CASE /\ o \in Code \ marked
             /\ deferred' = deferred \cup {o}
             /\ UNCHANGED <<marked, work, shared>>
    BY Zenon, <1>2, <1>3, <2>2 DEF IsGray, MarkerTypes
  <2>3. CASE /\ o \notin marked \cup Code
             /\ marked' = marked \cup {o}
             /\ Push(m, o)
             /\ UNCHANGED deferred
    <3>1. \/ /\ shared' = shared \cup {work[m]}
             /\ work' = [work EXCEPT ![m] = {o}]
          \/ /\ work' = [work EXCEPT ![m] = @ \cup {o}]
             /\ UNCHANGED shared
      BY Zenon, <2>3 DEF Push
    <3>2. /\ work' \in [Thread -> SUBSET Object]
          /\ shared' \subseteq SUBSET Object
          /\ o \in work'[m] /\ \A n \in Thread \ {m} : work'[n] = work[n]
          /\ work[m] \in shared' \/ work[m] \subseteq work'[m]
          /\ shared \subseteq shared' /\ shared' \subseteq shared \cup {work[m]}
          /\ work'[m] \subseteq work[m] \cup {o}
      BY <1>2, <1>3, <3>1 DEF MarkerTypes
    <3>3. \A x : /\ IsGray(x) => IsGray(x)'
                 /\ IsGray(x)' => IsGray(x) \/ x = o
      BY Zenon, <1>2, <2>3, <3>2 DEF IsGray
    <3>4. IsGray(o)'
      BY Zenon, <3>2 DEF IsGray
    <3>5. MarkerTypes'
      BY Zenon, <1>2, <1>3, <2>3, <3>2 DEF MarkerTypes
    <3> QED
      BY Zenon, <2>3, <3>2, <3>3, <3>4, <3>5
  <2> QED
    BY Zenon, <1>1, <2>1, <2>2, <2>3
<1>6. \A x : /\ IsComing(x) => IsComing(x)' \/ x \in marked'
             /\ IsComing(x)' => IsComing(x)
             /\ IsWaiting(x)' <=> IsWaiting(x)
             /\ IsComing(o)
  <2>1. IsComing(o)
    BY Zenon, <1>1 DEF IsComing
  <2>2. \A x : IsWaiting(x)' <=> IsWaiting(x)
    BY Zenon, <1>2 DEF IsWaiting
  <2>3. ASSUME NEW x, IsComing(x) PROVE IsComing(x)' \/ x \in marked'
    <3>1. CASE \E n \in Thread : x \in todo[n]
      BY Zenon, <1>3, <1>5, <3>1 DEF IsComing
    <3>2. CASE x \in deferred \/ x = stored
      BY Zenon, <1>2, <1>5, <3>2 DEF IsComing
    <3> QED
      BY Zenon, <2>3, <3>1, <3>2 DEF IsComing
  <2>4. ASSUME NEW x, IsComing(x)' PROVE IsComing(x)
    <3>1. CASE \E n \in Thread : x \in todo'[n]
      BY Zenon, <1>3, <3>1 DEF IsComing
    <3>2. CASE x \in deferred'
      BY Zenon, <1>1, <2>1, <3>2 DEF IsComing
    <3>3. CASE x = stored'
      BY Zenon, <1>2, <3>3 DEF IsComing
    <3> QED
      BY Zenon, <2>4, <3>1, <3>2, <3>3 DEF IsComing
  <2> QED
    BY Zenon, <2>1, <2>2, <2>3, <2>4
<1>7. \A x \in Object : Held(x) => Held(x)'
  BY Zenon, <1>5, <1>6 DEF Held
<1>8. Tricolour'
  BY Zenon, <1>2, <1>5, <1>6, <1>7, TricolourStep
<1>9. OnlyReachable'
  <2>1. \A x \in Object : Known(x)' => Known(x)
    BY Zenon, <1>5, <1>6 DEF Known
  <2> QED
    BY Zenon, <1>2, <2>1, ReachableStep
<1>10. TaskMoves(m, at[m])
  <2>1. at[m] \in Labels \ {"end"} /\ (stage = "concurrent" => at[m] \in Concurrent)
    BY Zenon, <1>4, Outside DEF MarkerInv, InStep
  <2>2. at' = [at EXCEPT ![m] = at[m]]
    BY Zenon, <1>2 DEF MarkerTypes
  <2> QED
    BY Zenon, <1>2, <1>3, <1>4, <1>5, <2>1, <2>2 DEF TaskMoves
<1>11. Pushes(m)' /\ (Busy(m)' <=> Busy(m))
  BY Zenon, <1>2, <1>4 DEF Pushes, Busy
<1>12. KeepsCount(m)
  BY Zenon, <1>2, <1>11 DEF KeepsCount
<1>13. LocalOK(m)'
  BY Zenon, <1>2, <1>3, <1>4, <1>11 DEF LocalOK, barrier, vars
<1>14. RootsOK'
  BY Zenon, <1>2, <1>7, <1>10, RootsKept
<1>15. /\ \/ Segment(at[m]) = "drain"
          \/ Segment(at[m]) = "round" /\ Moved(m)'
       /\ stage = "parallel" /\ at[m] \notin {"slice", "in_slice", "deferred"} =>
            deferred \subseteq Code
  BY Zenon, <1>2, <1>4 DEF Segment, Moved, MarkerInv, DeferredOK
<1> QED
  BY Zenon, <1>2, <1>5, <1>7, <1>8, <1>9, <1>10, <1>12, <1>13, <1>14, <1>15,
     DrainStep
  DEF HeapGrows

(* Scan: the object is done with, and what it refers to is to be marked.   *)
LEMMA ScanStep ==
  ASSUME MarkerTypes, NEW m \in Thread, NEW o \in Object, NEW did_mark,
         todo[m] = {}, Scan(m, o, did_mark), o \in Weak => did_mark,
         field' = field, marked \subseteq marked', UNCHANGED <<list, cleared>>
  PROVE  /\ todo' \in [Thread -> SUBSET Object]
         /\ delayed' \in [Thread -> SUBSET Weak]
         /\ \A n \in Thread \ {m} : todo'[n] = todo[n] /\ delayed'[n] = delayed[n]
         /\ \A n \in Thread : todo[n] \subseteq todo'[n]
         /\ Done(o)'
         /\ \A x : IsWaiting(x) => IsWaiting(x)'
         /\ \A x : IsWaiting(x)' => IsWaiting(x) \/ x = o
         /\ \A x \in todo'[m] :
              \/ o \in Plain /\ x = field[o]
              \/ o \in Weak /\ Key[o] \in marked /\ x = Value[o]
         /\ o \in Code => todo'[m] = {} /\ delayed' = delayed
<1>0. /\ o \in Weak => o \notin Plain \cup Code /\ Key[o] \in Object /\ Value[o] \in Object
      /\ o \in Plain => o \notin Code /\ field[o] \in Object \cup {Null}
  BY Zenon, MarkerAssumption DEF MarkerTypes, Object
<1>1. CASE o \in Weak /\ Key[o] \notin marked
  <2>1. delayed' = [delayed EXCEPT ![m] = @ \cup {o}] /\ todo' = todo
    BY Zenon, <1>1 DEF Scan, EnqueueWeakProperty
  <2>2. /\ delayed' \in [Thread -> SUBSET Weak]
        /\ delayed'[m] = delayed[m] \cup {o}
        /\ \A n \in Thread \ {m} : delayed'[n] = delayed[n]
    BY Zenon, <1>1, <2>1 DEF MarkerTypes
  <2>3. \A x : /\ IsWaiting(x) => IsWaiting(x)'
               /\ IsWaiting(x)' => IsWaiting(x) \/ x = o
               /\ IsWaiting(o)'
    BY Zenon, <2>2 DEF IsWaiting
  <2>4. Done(o)'
    BY Zenon, <1>0, <1>1, <2>3 DEF Done
  <2> QED
    BY Zenon, <1>0, <1>1, <2>1, <2>2, <2>3, <2>4 DEF MarkerTypes
<1>2. CASE ~(o \in Weak /\ Key[o] \notin marked)
  <2> DEFINE T == IF o \in Weak THEN {Key[o], Value[o]} \ marked
                  ELSE IF o \in Plain THEN {field[o]} \ (marked \cup {Null})
                  ELSE {}
  <2>1. delayed' = delayed /\ todo' = [todo EXCEPT ![m] = T]
    BY Zenon, <1>2 DEF Scan
  <2>2. /\ T \subseteq Object
        /\ \A x \in T : \/ o \in Plain /\ x = field[o]
                        \/ o \in Weak /\ Key[o] \in marked /\ x = Value[o]
        /\ o \in Code => T = {}
        /\ o \in Plain => field[o] \in marked \cup T \cup {Null}
        /\ o \in Weak => Key[o] \in marked /\ Value[o] \in marked \cup T
    BY Zenon, <1>0, <1>2
  <2> HIDE DEF T
  <2>3. /\ todo' \in [Thread -> SUBSET Object] /\ todo'[m] = T
        /\ \A n \in Thread \ {m} : todo'[n] = todo[n]
    BY Zenon, <2>1, <2>2 DEF MarkerTypes
  <2>4. \A x : IsWaiting(x)' <=> IsWaiting(x)
    BY Zenon, <2>1 DEF IsWaiting
  <2>5. \A x \in marked \cup T : Held(x)'
    BY Zenon, <2>3 DEF Held, IsComing
  <2>6. Done(o)'
    BY Zenon, <1>0, <2>2, <2>5 DEF Done
  <2> QED
    BY Zenon, <2>1, <2>2, <2>3, <2>4, <2>6 DEF MarkerTypes
<1> QED
  BY Zenon, <1>1, <1>2

(* What a known object refers to is reachable if it is. *)
LEMMA ScanReaches ==
  ASSUME MarkerInv, NEW o \in Object, Known(o), NEW x \in Object, quiet,
         \/ o \in Plain /\ x = field[o]
         \/ o \in Weak /\ Key[o] \in marked /\ x = Value[o]
  PROVE  x \in Reachable
<1>1. Closed(Reachable)
  BY Zenon, ReachableClosed DEF MarkerInv
<1>2. o \in Reachable /\ \A k \in Object : k \in marked => k \in Reachable
  BY Zenon DEF MarkerInv, OnlyReachable, Known
<1>3. x # Null /\ (o \in Weak => Key[o] \in Object)
  BY Zenon, MarkerAssumption DEF Object
<1> QED
  BY Zenon, <1>1, <1>2, <1>3 DEF Closed

(* Pop() and the scan of what it returned. *)
LEMMA PopAndScanStep ==
  ASSUME CountFacts, MarkerInv, NEW m \in Thread,
         NEW k \in {"enter", "loop", "again"}, NEW o \in Object,
         At(m, k), PopAndScan(m, o)
  PROVE  MarkerInv'
<1>1. /\ UNCHANGED <<marked, deferred, barrier, mutator, slices, results, stage,
                     num_busy, list, more>>
      /\ UNCHANGED <<field, local, young, temp, block, stored, quiet, cleared,
                     weak_set, root_slices_started, weak_slices_started>>
      /\ MarkerTypes /\ LocalOK(m)
      /\ todo[m] = {} /\ pc[m] = "out" /\ at[m] = k
      /\ Scan(m, o, TRUE) /\ at' = [at EXCEPT ![m] = "loop"]
  BY Zenon DEF PopAndScan, mutator, slices, results, MarkerInv, At, Goto
<1>2. /\ work' \in [Thread -> SUBSET Object] /\ shared' \subseteq SUBSET Object
      /\ \A n \in Thread \ {m} : work'[n] = work[n]
      /\ \A x : IsGray(x) => IsGray(x)' \/ x = o
      /\ \A x : IsGray(x)' => IsGray(x)
      /\ IsGray(o)
  <2>1. CASE /\ o \in work[m]
             /\ work' = [work EXCEPT ![m] = @ \ {o}]
             /\ UNCHANGED shared
    BY Zenon, <1>1, <2>1 DEF MarkerTypes, IsGray
  <2>2. CASE /\ work[m] = {}
             /\ \E b \in shared : /\ o \in b
                                  /\ shared' = shared \ {b}
                                  /\ work' = [work EXCEPT ![m] = b \ {o}]
    <3>1. PICK b \in shared : /\ o \in b
                              /\ shared' = shared \ {b}
                              /\ work' = [work EXCEPT ![m] = b \ {o}]
      BY Zenon, <2>2
    <3>2. /\ work' \in [Thread -> SUBSET Object] /\ work'[m] = b \ {o}
          /\ \A n \in Thread \ {m} : work'[n] = work[n]
      BY Zenon, <1>1, <3>1 DEF MarkerTypes
    <3> QED
      BY <1>1, <2>2, <3>1, <3>2 DEF MarkerTypes, IsGray
  <2> QED
    BY Zenon, <2>1, <2>2 DEF PopAndScan
<1>3. /\ todo' \in [Thread -> SUBSET Object]
      /\ delayed' \in [Thread -> SUBSET Weak]
      /\ \A n \in Thread \ {m} : todo'[n] = todo[n] /\ delayed'[n] = delayed[n]
      /\ \A n \in Thread : todo[n] \subseteq todo'[n]
      /\ Done(o)'
      /\ \A x : IsWaiting(x) => IsWaiting(x)'
      /\ \A x : IsWaiting(x)' => IsWaiting(x) \/ x = o
      /\ \A x \in todo'[m] : \/ o \in Plain /\ x = field[o]
                             \/ o \in Weak /\ Key[o] \in marked /\ x = Value[o]
  BY Zenon, <1>1, ScanStep
<1>4. at' \in [Thread -> Labels] /\ at'[m] = "loop"
  BY Zenon, <1>1 DEF MarkerTypes, Labels, Phase1
<1>5. MarkerTypes'
  BY Zenon, <1>1, <1>2, <1>3, <1>4 DEF MarkerTypes
<1>6. \A x : IsComing(x) => IsComing(x)'
  BY Zenon, <1>1, <1>3 DEF IsComing
<1>7. \A x : Held(x) => Held(x)'
  BY Zenon, <1>1, <1>6 DEF Held
<1>8. Tricolour'
  BY Zenon, <1>1, <1>2, <1>3, <1>7, TricolourStep
<1>9. OnlyReachable'
  <2>1. ASSUME NEW x \in Object, quiet, IsComing(x)'
        PROVE  IsComing(x) \/ x \in Reachable
    <3>1. CASE x \in todo'[m]
      BY Zenon, <1>2, <1>3, <2>1, <3>1, ScanReaches DEF Known
    <3>2. CASE x \notin todo'[m]
      BY Zenon, <1>1, <1>3, <2>1, <3>2 DEF IsComing
    <3> QED
      BY Zenon, <3>1, <3>2
  <2>2. \A x \in Object : Known(x)' /\ quiet => Known(x) \/ x \in Reachable
    BY Zenon, <1>1, <1>2, <1>3, <2>1 DEF Known
  <2> QED
    BY Zenon, <1>1, <2>2, ReachableStep
<1>10. TaskMoves(m, "loop")
  BY Zenon, <1>1, <1>2, <1>3 DEF TaskMoves, Segment, Labels, Phase1, Concurrent
<1>11. KeepsCount(m) /\ Pushes(m)'
  BY Zenon, <1>1, <1>4 DEF KeepsCount, Busy, Pushes, Concurrent
<1>12. LocalOK(m)'
  BY Zenon, <1>1, <1>4, <1>11 DEF LocalOK, barrier, vars
<1>13. RootsOK'
  BY Zenon, <1>1, <1>7, <1>10, RootsKept
<1>14. Segment("loop") = "drain" /\ (stage = "parallel" => deferred \subseteq Code)
  BY Zenon, <1>1 DEF Segment, MarkerInv, DeferredOK
<1> QED
  BY Zenon, <1>1, <1>5, <1>7, <1>8, <1>9, <1>10, <1>11, <1>12, <1>13, <1>14,
     DrainStep
  DEF HeapGrows

(* ProcessPendingWeakProperties() takes the list. *)
LEMMA StartPendingStep ==
  ASSUME CountFacts, MarkerInv, NEW m \in Thread, NEW k, NEW l,
         At(m, k), StartPending(m, l),
         \/ k = "enter" /\ l = "enter_pending" /\ NoWork(m)
         \/ k = "loop" /\ l = "loop_pending" /\ NoWork(m)
         \/ k = "round" /\ l = "round_pending",
         UNCHANGED <<marked, work, shared, deferred, todo, barrier, mutator,
                     slices, results, stage, num_busy>>
  PROVE  MarkerInv'
<1>1. /\ UNCHANGED <<field, local, young, temp, block, stored, quiet, cleared,
                     weak_set, root_slices_started, weak_slices_started>>
      /\ MarkerTypes /\ LocalOK(m)
      /\ todo[m] = {} /\ pc[m] = "out" /\ at[m] = k
      /\ at' = [at EXCEPT ![m] = l]
  BY Zenon DEF mutator, slices, results, MarkerInv, At, StartPending, Goto
<1>2. /\ k \in {"enter", "loop", "round"}
      /\ l \in {"enter_pending", "loop_pending", "round_pending"}
      /\ Segment(l) = Segment(k) /\ (k = "round" <=> l = "round_pending")
      /\ list[m] = {} /\ work[m] = {}
      /\ k # "round" => shared = {}
  BY Zenon, <1>1 DEF Segment, LocalOK, NoWork, Pushes
<1>3. /\ list' \in [Thread -> SUBSET Weak] /\ delayed' \in [Thread -> SUBSET Weak]
      /\ more' \in [Thread -> BOOLEAN] /\ at' \in [Thread -> Labels]
      /\ list'[m] = delayed[m] /\ delayed'[m] = {} /\ at'[m] = l /\ ~more'[m]
      /\ \A n \in Thread \ {m} : /\ list'[n] = list[n] /\ delayed'[n] = delayed[n]
                                 /\ more'[n] = more[n] /\ at'[n] = at[n]
  BY Zenon, <1>1, <1>2 DEF MarkerTypes, StartPending, Labels, Phase1
<1>4. \A x : /\ IsGray(x)' <=> IsGray(x)
             /\ IsComing(x)' <=> IsComing(x)
  BY Zenon, <1>1 DEF IsGray, IsComing
<1>5. \A x : IsWaiting(x)' <=> IsWaiting(x)
  BY Zenon, <1>1, <1>2, <1>3 DEF IsWaiting
<1>6. \A x : (Held(x)' <=> Held(x)) /\ (Known(x)' <=> Known(x))
  BY Zenon, <1>4, <1>5 DEF Held, Known
<1>7. MarkerTypes'
  BY Zenon, <1>1, <1>3 DEF MarkerTypes
<1>8. Tricolour' /\ OnlyReachable'
  BY Zenon, <1>1, <1>4, <1>5, <1>6, TricolourStep, ReachableStep
<1>9. TaskMoves(m, l)
  <2>1. stage = "concurrent" => k \in Concurrent
    BY Zenon, <1>1 DEF MarkerInv, InStep
  <2> QED
    BY Zenon, <1>1, <1>2, <1>3, <2>1 DEF TaskMoves, Labels, Phase1, Concurrent
<1>10. LocalOK(m)'
  BY Zenon, <1>1, <1>2, <1>3 DEF LocalOK
<1>11. KeepsCount(m)
  BY Zenon, <1>1, <1>2, <1>3 DEF KeepsCount, Busy, Pushes, Concurrent
<1>12. RootsOK'
  BY Zenon, <1>1, <1>2, <1>6, <1>9, RootsKept
<1>13. \/ Segment(l) = "drain"
       \/ /\ Segment(l) = "round"
          /\ \/ \E n \in Thread : Moved(n)'
             \/ \A n \in Thread : \/ at'[n] = "round"
                                  \/ \A w \in delayed'[n] : Key[w] \notin marked'
  <2>1. CASE k # "round"
    BY Zenon, <1>2, <2>1 DEF Segment
  <2>2. CASE k = "round"
    <3>1. Now = "round" /\ Segment(l) = "round"
      BY Zenon, <1>1, <1>2, <2>2, Outside DEF Segment
    <3>2. CASE \E n \in Thread : Moved(n)
      <4>1. PICK n \in Thread : Moved(n)
        BY Zenon, <3>2
      <4>2. n # m
        BY Zenon, <1>1, <2>2, <4>1 DEF Moved
      <4> QED
        BY Zenon, <1>3, <3>1, <4>1, <4>2 DEF Moved
    <3>3. CASE \A n \in Thread :
                 at[n] = "round" \/ \A w \in delayed[n] : Key[w] \notin marked
      BY Zenon, <1>3, <3>1, <3>3
    <3> QED
      BY Zenon, <3>1, <3>2, <3>3 DEF MarkerInv, RoundsOK
  <2> QED
    BY Zenon, <2>1, <2>2
<1>14. stage = "parallel" => deferred \subseteq Code
  BY Zenon, <1>1, <1>2 DEF MarkerInv, DeferredOK
<1> QED
  BY Zenon, <1>1, <1>6, <1>7, <1>8, <1>9, <1>10, <1>11, <1>12, <1>13, <1>14,
     DrainStep
  DEF HeapGrows

(* ProcessPendingWeakProperties() looks at one weak property. *)
LEMMA PendingOneStep ==
  ASSUME CountFacts, MarkerInv, NEW m \in Thread,
         NEW l \in {"enter_pending", "loop_pending", "round_pending"},
         PendingOne(m, l)
  PROVE  MarkerInv'
<1>1. PICK w \in list[m] :
        /\ list' = [list EXCEPT ![m] = @ \ {w}]
        /\ IF Key[w] \in marked
           THEN /\ more' = [more EXCEPT ![m] = @ \/ Value[w] \notin marked]
                /\ todo' = [todo EXCEPT ![m] = {Value[w]} \ marked]
                /\ UNCHANGED delayed
           ELSE EnqueueWeakProperty(m, w) /\ UNCHANGED <<more, todo>>
  BY Zenon DEF PendingOne
<1>2. /\ UNCHANGED <<marked, work, shared, deferred, barrier, mutator, slices,
                     results, stage, num_busy, at>>
      /\ UNCHANGED <<field, local, young, temp, block, stored, quiet, cleared,
                     weak_set, root_slices_started, weak_slices_started>>
      /\ MarkerTypes /\ LocalOK(m)
      /\ todo[m] = {} /\ pc[m] = "out" /\ at[m] = l
  BY Zenon DEF PendingOne, mutator, slices, results, MarkerInv, At
<1>3. /\ w \in Weak /\ w \in Object /\ Key[w] \in Object /\ Value[w] \in Object
      /\ list' \in [Thread -> SUBSET Weak] /\ list'[m] = list[m] \ {w}
      /\ \A n \in Thread \ {m} : list'[n] = list[n]
      /\ w \notin Plain
  <2>1. /\ list \in [Thread -> SUBSET Weak] /\ w \in list[m]
        /\ list' = [list EXCEPT ![m] = list[m] \ {w}]
    BY Zenon, <1>1, <1>2 DEF MarkerTypes
  <2>2. list[m] \subseteq Weak /\ list[m] \ {w} \in SUBSET Weak
    BY Zenon, <2>1
  <2>3. w \in Weak
    BY Zenon, <2>1, <2>2
  <2>4. w \in Object /\ Key[w] \in Object /\ Value[w] \in Object /\ w \notin Plain
    BY Zenon, <2>3, MarkerAssumption DEF Object
  <2>5. /\ list' \in [Thread -> SUBSET Weak] /\ list'[m] = list[m] \ {w}
        /\ \A n \in Thread \ {m} : list'[n] = list[n]
    BY Zenon, <2>1, <2>2
  <2> QED
    BY Zenon, <2>3, <2>4, <2>5
<1>4. /\ todo' \in [Thread -> SUBSET Object] /\ delayed' \in [Thread -> SUBSET Weak]
      /\ more' \in [Thread -> BOOLEAN]
      /\ \A n \in Thread \ {m} : /\ todo'[n] = todo[n] /\ delayed'[n] = delayed[n]
                                 /\ more'[n] = more[n]
      /\ more[m] => more'[m]
      /\ todo'[m] # {} => more'[m]
      /\ \/ w \in delayed'[m]
         \/ Key[w] \in marked /\ (Value[w] \in marked \/ Value[w] \in todo'[m])
      /\ delayed[m] \subseteq delayed'[m]
      /\ \A x \in delayed'[m] : x \in delayed[m] \/ (x = w /\ Key[w] \notin marked)
      /\ \A x \in todo'[m] : Key[w] \in marked /\ x = Value[w]
  <2>1. CASE Key[w] \in marked
    <3>1. /\ delayed' = delayed
          /\ todo' = [todo EXCEPT ![m] = {Value[w]} \ marked]
          /\ more' = [more EXCEPT ![m] = more[m] \/ Value[w] \notin marked]
      BY Zenon, <1>1, <2>1
    <3>2. /\ todo' \in [Thread -> SUBSET Object]
          /\ todo'[m] = {Value[w]} \ marked
          /\ \A n \in Thread \ {m} : todo'[n] = todo[n]
      <4>1. todo \in [Thread -> SUBSET Object]
        BY Zenon, <1>2 DEF MarkerTypes
      <4>2. {Value[w]} \ marked \in SUBSET Object
        BY Zenon, <1>3
      <4> QED
        BY Zenon, <3>1, <4>1, <4>2
    <3>3. /\ more' \in [Thread -> BOOLEAN]
          /\ more'[m] <=> (more[m] \/ Value[w] \notin marked)
          /\ \A n \in Thread \ {m} : more'[n] = more[n]
      <4>1. more \in [Thread -> BOOLEAN]
        BY Zenon, <1>2 DEF MarkerTypes
      <4> QED
        BY Zenon, <3>1, <4>1
    <3> QED
      BY Zenon, <1>2, <2>1, <3>1, <3>2, <3>3 DEF MarkerTypes
  <2>2. CASE Key[w] \notin marked
    BY <1>1, <1>2, <1>3, <2>2 DEF MarkerTypes, EnqueueWeakProperty
  <2> QED
    BY Zenon, <2>1, <2>2
<1>5. \A x : /\ IsGray(x)' <=> IsGray(x)
             /\ IsComing(x) => IsComing(x)'
  BY Zenon, <1>2, <1>4 DEF IsGray, IsComing
<1>6. \A x : Held(x) => Held(x)'
  BY Zenon, <1>2, <1>5 DEF Held
<1>7. Done(w)'
  BY Zenon, <1>2, <1>3, <1>4 DEF Done, IsWaiting, Held, IsComing
<1>8. \A x : /\ IsWaiting(x) => IsWaiting(x)' \/ x = w
             /\ IsWaiting(x)' => IsWaiting(x)
             /\ IsWaiting(w)
  BY <1>2, <1>3, <1>4 DEF IsWaiting
<1>9. Tricolour'
  BY Zenon, <1>2, <1>5, <1>6, <1>7, <1>8, TricolourStep
<1>10. OnlyReachable'
  <2>1. ASSUME NEW x \in Object, quiet, IsComing(x)'
        PROVE  IsComing(x) \/ x \in Reachable
    <3>1. CASE x \in todo'[m]
      BY Zenon, <1>3, <1>4, <1>8, <2>1, <3>1, ScanReaches DEF Known
    <3>2. CASE x \notin todo'[m]
      BY Zenon, <1>2, <1>4, <2>1, <3>2 DEF IsComing
    <3> QED
      BY Zenon, <3>1, <3>2
  <2>2. \A x \in Object : Known(x)' /\ quiet => Known(x) \/ x \in Reachable
    BY Zenon, <1>2, <1>5, <1>8, <2>1 DEF Known
  <2> QED
    BY Zenon, <1>2, <2>2, ReachableStep
<1>11. MarkerTypes'
  BY Zenon, <1>2, <1>3, <1>4 DEF MarkerTypes
<1>12. TaskMoves(m, l)
  <2>1. stage = "concurrent" => l \in Concurrent
    BY Zenon, <1>2 DEF MarkerInv, InStep
  <2>2. at' = [at EXCEPT ![m] = l]
    BY Zenon, <1>2 DEF MarkerTypes
  <2>3. l \in Labels \ {"end"}
    BY Zenon DEF Labels, Phase1
  <2> QED
    BY Zenon, <1>2, <1>3, <1>4, <2>1, <2>2, <2>3 DEF TaskMoves
<1>13. Pushes(m) => Pushes(m)'
  BY Zenon, <1>2, <1>4 DEF Pushes
<1>14. LocalOK(m)'
  BY Zenon, <1>2, <1>3, <1>4, <1>13 DEF LocalOK, barrier, vars
<1>15. KeepsCount(m)
  <2>1. Busy(m)' <=> Busy(m)
    BY Zenon, <1>2 DEF Busy, Concurrent
  <2> QED
    BY Zenon, <1>2, <1>13, <2>1 DEF KeepsCount
<1>16. RootsOK'
  BY Zenon, <1>2, <1>6, <1>12, RootsKept
<1>17. \/ Segment(l) = "drain"
       \/ /\ Segment(l) = "round"
          /\ \/ \E n \in Thread : Moved(n)'
             \/ \A n \in Thread : \/ at'[n] = "round"
                                  \/ \A x \in delayed'[n] : Key[x] \notin marked'
  <2>1. CASE l # "round_pending"
    BY Zenon, <2>1 DEF Segment
  <2>2. CASE l = "round_pending"
    <3>1. Now = "round" /\ Segment(l) = "round"
      BY Zenon, <1>2, <2>2, Outside DEF Segment
    <3>2. CASE \E n \in Thread : Moved(n)
      BY Zenon, <1>2, <1>4, <3>1, <3>2 DEF Moved
    <3>3. CASE \A n \in Thread :
                 at[n] = "round" \/ \A x \in delayed[n] : Key[x] \notin marked
      BY Zenon, <1>2, <1>4, <3>1, <3>3
    <3> QED
      BY Zenon, <3>1, <3>2, <3>3 DEF MarkerInv, RoundsOK
  <2> QED
    BY Zenon, <2>1, <2>2
<1>18. stage = "parallel" => deferred \subseteq Code
  BY Zenon, <1>2 DEF MarkerInv, DeferredOK
<1> QED
  BY Zenon, <1>2, <1>6, <1>9, <1>10, <1>11, <1>12, <1>14, <1>15, <1>16, <1>17,
     <1>18, DrainStep
  DEF HeapGrows

(* Where a task can be in each segment. *)
LEMMA Where ==
  ASSUME MarkerInv, NEW n \in Thread
  PROVE  /\ Now = "round" => at[n] \in {"round", "round_pending", "sync2", "decide"}
         /\ Now = "decide" => at[n] \in {"decide", "sync3", "enter", "final_deferred"}
         /\ Now = "final" => at[n] \in {"final_deferred", "sync4", "weak"}
         /\ Now = "weak" => at[n] \in {"weak", "sync5", "finalize"}
         /\ Now = "end" => at[n] \in {"finalize", "exit", "end"}
<1>1. InRound(n) => at[n] \in AfterSync
  BY Zenon DEF MarkerInv, InStep, InRound
<1>2. Seg(n) = Now
  BY Zenon DEF MarkerInv, InStep
<1>3. CASE InRound(n)
  BY Zenon, <1>1, <1>2, <1>3 DEF Seg, BeforeSync, AfterSync
<1>4. CASE ~InRound(n)
  BY Zenon, <1>2, <1>4 DEF Seg, Segment
<1> QED
  BY Zenon, <1>3, <1>4

(* Once the tasks have left phase 1 there is no work and nobody is busy. *)
LEMMA NoMoreWork ==
  ASSUME CountFacts, MarkerInv, Now \in {"final", "weak", "end"}
  PROVE  /\ stage = "parallel" /\ shared = {} /\ num_busy = 0
         /\ \A n \in Thread : /\ ~Busy(n) /\ ~Pushes(n) /\ at[n] \notin Phase1
                              /\ work[n] = {} /\ todo[n] = {} /\ list[n] = {}
                              /\ \A w \in delayed[n] : Key[w] \notin marked
<1>1. \A n \in Thread : at[n] \in {"final_deferred", "sync4", "weak", "sync5",
                                   "finalize", "exit", "end"}
  BY Zenon, Where
<1>2. \A n \in Thread : ~Busy(n) /\ ~Pushes(n) /\ at[n] \notin Phase1 /\ at[n] # "round"
  BY Zenon, <1>1 DEF Busy, Pushes, Concurrent, Phase1
<1>3. ASSUME NEW n \in Thread
      PROVE  work[n] = {} /\ todo[n] = {} /\ list[n] = {}
  <2>1. LocalOK(n)
    BY Zenon DEF MarkerInv
  <2> QED
    BY Zenon, <1>1, <1>2, <2>1 DEF LocalOK
<1>4. stage = "parallel"
  <2>1. at[Main] \notin Concurrent
    BY Zenon, <1>1, BarrierAssumption DEF Concurrent
  <2> QED
    BY Zenon, <2>1, BarrierAssumption DEF MarkerInv, InStep, MarkerTypes
<1>5. shared = {}
  BY Zenon, <1>2, <1>4 DEF MarkerInv, SharedOK
<1>6. num_busy = 0
  BY Zenon, <1>2, NumBusy DEF MarkerInv
<1>7. ASSUME NEW n \in Thread, NEW w \in delayed[n]
      PROVE  Key[w] \notin marked
  BY Zenon, <1>2, <1>7 DEF MarkerInv, RoundsOK
<1> QED
  BY Zenon, <1>2, <1>3, <1>4, <1>5, <1>6, <1>7

(* ProcessDeferredMarking() scans one object. *)
LEMMA DeferredOneStep ==
  ASSUME CountFacts, MarkerInv, NEW m \in Thread,
         NEW l \in {"deferred", "final_deferred"}, At(m, l),
         NEW o \in deferred,
         deferred' = deferred \ {o}, marked' = marked \cup {o},
         Scan(m, o, o \notin marked),
         UNCHANGED <<work, shared, at, list, more, barrier, mutator, slices,
                     results, stage, num_busy>>
  PROVE  MarkerInv'
<1>1. /\ UNCHANGED <<field, local, young, temp, block, stored, quiet, cleared,
                     weak_set, root_slices_started, weak_slices_started>>
      /\ MarkerTypes /\ LocalOK(m)
      /\ todo[m] = {} /\ pc[m] = "out" /\ at[m] = l
      /\ Now = Segment(l)
  BY Zenon, Outside DEF mutator, slices, results, MarkerInv, At
<1>2. o \in Object /\ o \notin Weak /\ marked \subseteq marked'
  BY Zenon, <1>1, MarkerAssumption DEF MarkerTypes, Object
<1>3. /\ todo' \in [Thread -> SUBSET Object]
      /\ delayed' \in [Thread -> SUBSET Weak]
      /\ \A n \in Thread \ {m} : todo'[n] = todo[n] /\ delayed'[n] = delayed[n]
      /\ \A n \in Thread : todo[n] \subseteq todo'[n]
      /\ Done(o)'
      /\ \A x : IsWaiting(x) => IsWaiting(x)'
      /\ \A x : IsWaiting(x)' => IsWaiting(x) \/ x = o
      /\ \A x \in todo'[m] : \/ o \in Plain /\ x = field[o]
                             \/ o \in Weak /\ Key[o] \in marked /\ x = Value[o]
      /\ o \in Code => todo'[m] = {} /\ delayed' = delayed
  BY Zenon, <1>1, <1>2, ScanStep
<1>4. \A x : /\ IsGray(x) => IsGray(x)' \/ x = o
             /\ IsGray(x)' => IsGray(x)
             /\ IsComing(x) => IsComing(x)' \/ x = o
             /\ IsGray(o)
  BY Zenon, <1>1, <1>3 DEF IsGray, IsComing
<1>5. \A x : /\ Held(x) => Held(x)'
             /\ x \in marked' <=> x \in marked \/ x = o
  BY Zenon, <1>4 DEF Held
<1>6. Tricolour'
  BY Zenon, <1>1, <1>2, <1>3, <1>4, <1>5, TricolourStep
<1>7. OnlyReachable'
  <2>1. ASSUME NEW x \in Object, quiet, IsComing(x)'
        PROVE  IsComing(x) \/ x \in Reachable
    <3>1. CASE x \in todo'[m]
      BY Zenon, <1>2, <1>3, <1>4, <2>1, <3>1, ScanReaches DEF Known
    <3>2. CASE x \notin todo'[m]
      BY Zenon, <1>1, <1>3, <2>1, <3>2 DEF IsComing
    <3> QED
      BY Zenon, <3>1, <3>2
  <2>2. \A x \in Object : Known(x)' /\ quiet => Known(x) \/ x \in Reachable
    BY Zenon, <1>3, <1>4, <1>5, <2>1 DEF Known
  <2> QED
    BY Zenon, <2>2, ReachableStep
<1>8. MarkerTypes'
  <2>1. deferred' \subseteq Plain \cup Code /\ marked' \subseteq Object
    BY Zenon, <1>1, <1>2 DEF MarkerTypes
  <2> QED
    BY Zenon, <1>1, <1>3, <2>1 DEF MarkerTypes
<1>9. TaskMoves(m, l) /\ stage = "parallel"
  <2>1. stage = "parallel"
    BY Zenon, <1>1 DEF MarkerInv, InStep, MarkerTypes, Concurrent
  <2>2. at' = [at EXCEPT ![m] = l]
    BY Zenon, <1>1 DEF MarkerTypes
  <2>3. l \in Labels \ {"end"}
    BY Zenon DEF Labels, Phase1
  <2> QED
    BY Zenon, <1>1, <1>3, <2>1, <2>2, <2>3 DEF TaskMoves
<1>10. RootsOK'
  BY Zenon, <1>1, <1>5, <1>9, RootsKept
<1>11. HeapGrows
  BY Zenon, <1>5, <1>6, <1>7, <1>8 DEF HeapGrows
<1>12. CASE l = "deferred"
  <2>1. LocalOK(m)' /\ KeepsCount(m)
    BY Zenon, <1>1, <1>12 DEF LocalOK, KeepsCount, Pushes, Busy, barrier, vars
  <2>2. Segment(l) = "drain" /\ deferred' \subseteq deferred \cup Code
    BY Zenon, <1>12 DEF Segment
  <2> QED
    BY Zenon, <1>1, <1>9, <1>10, <1>11, <1>12, <2>1, <2>2, DrainStep
<1>13. CASE l = "final_deferred"
  <2>1. /\ Now = "final" /\ deferred \subseteq Code /\ o \in Code
        /\ todo'[m] = {} /\ delayed' = delayed /\ cleared = {}
        /\ \A w \in Weak : Key[w] # o
    <3>1. Now = "final" /\ deferred \subseteq Code
      BY Zenon, <1>1, <1>9, <1>13 DEF Segment, MarkerInv, DeferredOK
    <3>2. \A w \in Weak : Key[w] # o
      BY Zenon, <3>1, MarkerAssumption
    <3> QED
      BY Zenon, <1>3, <3>1, <3>2 DEF MarkerInv, RoundsOK
  <2>2. /\ shared = {} /\ work[m] = {} /\ list[m] = {}
        /\ \A n \in Thread : \A w \in delayed[n] : Key[w] \notin marked
    BY Zenon, <2>1, NoMoreWork
  <2>3. LocalOK(m)' /\ KeepsCount(m)
    BY Zenon, <1>1, <1>13, <2>1, <2>2 DEF LocalOK, KeepsCount, Busy, Concurrent
  <2>4. /\ BarrierInv' /\ InStep' /\ SharedOK'
        /\ \A n \in Thread : LocalOK(n)'
        /\ (num_busy = Cardinality({n \in Thread : Busy(n)}))'
        /\ Now' = "final"
        /\ \A n \in Thread : at'[n] = at[n]
    BY Zenon, <1>1, <1>9, <2>1, <2>3, TaskStep
  <2>5. CountOK'
    BY Zenon, <2>4 DEF CountOK
  <2>6. DeferredOK'
    BY Zenon, <1>1, <1>9, <2>1, <2>4 DEF MarkerInv, DeferredOK
  <2>7. RoundsOK'
    <3>1. \A n \in Thread : \A w \in delayed'[n] : Key[w] \notin marked'
      BY Zenon, <1>1, <1>5, <2>1, <2>2 DEF MarkerTypes
    <3> QED
      BY Zenon, <1>1, <2>1, <3>1 DEF RoundsOK
  <2>8. WeakOK'
    <3>1. weak_slices_started = 0
      BY Zenon, <2>1 DEF MarkerInv, WeakOK
    <3>2. \A s \in 0 .. 3 : ~(s < 0)
      OBVIOUS
    <3>3. \A s \in 0 .. 3 : weak_set[s] = Object
      BY Zenon, <3>1, <3>2 DEF MarkerInv, WeakOK
    <3> QED
      BY Zenon, <1>1, <2>4, <3>1, <3>2, <3>3 DEF WeakOK
  <2> QED
    BY Zenon, <1>10, <1>11, <2>4, <2>5, <2>6, <2>7, <2>8
       DEF HeapGrows, MarkerInv
<1> QED
  BY Zenon, <1>12, <1>13

(* A step that leaves the heap and the lists alone and does not start a    *)
(* slice: the parts of the invariant that depend on the segment remain.    *)
LEMMA ControlMove ==
  ASSUME CountFacts, MarkerInv, NEW m \in Thread, NEW l, At(m, at[m]),
         l \in Labels \ {"end"}, at' = [at EXCEPT ![m] = l],
         Segment(l) = Segment(at[m]), stage = "parallel",
         at[m] \notin {"slice", "in_slice", "deferred"},
         l \notin {"slice", "in_slice", "deferred"},
         UNCHANGED <<lists, todo, list, barrier, mutator, cleared, stage,
                     root_slices_started>>,
         more' \in [Thread -> BOOLEAN], \A n \in Thread \ {m} : more'[n] = more[n],
         weak_slices_started' \in Nat, weak_set' \in [0 .. 3 -> SUBSET Object],
         list[m] = {}, l \in {"exit", "end"} => delayed[m] = {},
         work[m] # {} => Pushes(m)', KeepsCount(m),
         Now = "decide" => \A n \in Thread :
           /\ at'[n] = "sync3" => (more'[n] <=> num_busy' > 0)
           /\ at'[n] = "enter" => num_busy' > 0 /\ more'[n]
           /\ at'[n] = "final_deferred" => num_busy' = 0,
         Now = "final" /\ l # "final_deferred" => deferred = {},
         Moved(m) => Moved(m)',
         at[m] = "round" => \A w \in delayed[m] : Key[w] \notin marked,
         Now # "weak" => UNCHANGED <<weak_set, weak_slices_started>>,
         Now = "weak" =>
           /\ \A s \in 0 .. 3 :
                weak_set'[s] = IF s < weak_slices_started' THEN marked ELSE Object
           /\ weak_slices_started > 3 => weak_slices_started' > 3
           /\ l # "weak" => weak_slices_started' > 3
  PROVE  MarkerInv'
<1>0. /\ UNCHANGED <<work, shared, deferred, marked, delayed, local, young, temp,
                     quiet, stored, block, field>>
      /\ MarkerTypes /\ at'[m] = l /\ todo[m] = {} /\ pc[m] = "out"
      /\ \A n \in Thread \ {m} : at'[n] = at[n]
  BY DEF lists, mutator, MarkerInv, MarkerTypes, At
<1>1. TaskMoves(m, l)
  BY Zenon, <1>0 DEF TaskMoves
<1>2. LocalOK(m)'
  BY Zenon, <1>0 DEF LocalOK
<1>3. /\ BarrierInv' /\ InStep' /\ SharedOK'
      /\ \A n \in Thread : LocalOK(n)'
      /\ (num_busy = Cardinality({n \in Thread : Busy(n)}))'
      /\ Now' = Now
  BY Zenon, <1>1, <1>2, TaskStep
<1>4. Tricolour' /\ OnlyReachable' /\ \A o \in Object : Held(o)' <=> Held(o)
  BY Zenon, HeapStill
<1>5. MarkerTypes'
  <2>1. at' \in [Thread -> Labels]
    BY Zenon, <1>0 DEF MarkerTypes
  <2> QED
    BY Zenon, <1>0, <2>1 DEF MarkerTypes
<1>6. RootsOK'
  BY Zenon, <1>1, <1>4, RootsKept
<1>7. CountOK'
  BY Zenon, <1>3 DEF CountOK
<1>8. DeferredOK'
  <2>1. stage' = "parallel" /\ deferred \subseteq Code
    BY Zenon DEF MarkerInv, DeferredOK
  <2>2. Now = "final" => \A n \in Thread : at'[n] # "final_deferred" => deferred = {}
    BY Zenon, <1>0 DEF MarkerInv, DeferredOK
  <2> QED
    BY Zenon, <1>0, <1>3, <2>1, <2>2 DEF MarkerInv, DeferredOK
<1>9. RoundsOK'
  <2>1. ASSUME NEW n \in Thread
        PROVE  /\ Moved(n) => Moved(n)'
               /\ (at[n] = "round" \/ \A w \in delayed[n] : Key[w] \notin marked) =>
                  (at'[n] = "round" \/ \A w \in delayed'[n] : Key[w] \notin marked')
    <3>1. CASE n = m
      BY Zenon, <1>0, <3>1
    <3>2. CASE n # m
      BY Zenon, <1>0, <3>2 DEF Moved
    <3> QED
      BY Zenon, <3>1, <3>2
  <2>2. RoundsOK
    BY Zenon DEF MarkerInv
  <2> QED
    BY Zenon, <1>0, <1>3, <2>1, <2>2 DEF RoundsOK
<1>10. WeakOK'
  <2>1. WeakOK
    BY Zenon DEF MarkerInv
  <2>2. CASE Now = "weak"
    BY Zenon, <1>0, <1>3, <2>1, <2>2 DEF WeakOK
  <2>3. CASE Now # "weak"
    <3>1. UNCHANGED <<weak_set, weak_slices_started>>
      BY Zenon, <1>0, <2>3
    <3>2. /\ weak_set' = weak_set /\ weak_slices_started' = weak_slices_started
      BY Zenon, <3>1
    <3> QED
      BY Zenon, <1>0, <1>3, <2>1, <2>3, <3>2 DEF WeakOK
  <2> QED
    BY Zenon, <2>2, <2>3
<1> QED
  BY Zenon, <1>3, <1>4, <1>5, <1>6, <1>7, <1>8, <1>9, <1>10 DEF MarkerInv

(* What a task at one of the later labels has in hand. *)
LEMMA AtLabel ==
  ASSUME MarkerInv, NEW m \in Thread, NEW k, At(m, k),
         k \in {"round_pending", "sync2", "decide", "sync3", "final_deferred",
                "weak", "finalize", "exit"}
  PROVE  /\ at[m] = k /\ At(m, at[m]) /\ stage = "parallel" /\ Now = Segment(k)
         /\ pc[m] = "out" /\ todo[m] = {}
         /\ k # "round_pending" => list[m] = {}
         /\ MarkerTypes /\ LocalOK(m)
<1>1. at[m] = k /\ At(m, at[m]) /\ pc[m] = "out" /\ todo[m] = {} /\ Now = Segment(k)
  BY Zenon, Outside DEF At
<1>2. MarkerTypes /\ LocalOK(m)
  BY Zenon DEF MarkerInv
<1>3. stage = "parallel"
  BY Zenon, <1>1, <1>2 DEF MarkerInv, InStep, MarkerTypes, Concurrent
<1>4. k # "round_pending" => list[m] = {}
  BY Zenon, <1>1, <1>2 DEF LocalOK
<1> QED
  BY Zenon, <1>1, <1>2, <1>3, <1>4

(* The end of ProcessPendingWeakProperties() in a round. *)
LEMMA RoundEndStep ==
  ASSUME CountFacts, MarkerInv, NEW m \in Thread,
         At(m, "round_pending"), list[m] = {},
         num_busy' = IF more[m] THEN num_busy + 1 ELSE num_busy,
         Goto(m, "sync2"),
         UNCHANGED <<lists, todo, list, more, barrier, mutator, slices,
                     results, stage>>
  PROVE  MarkerInv'
<1>1. /\ at[m] = "round_pending" /\ At(m, at[m]) /\ stage = "parallel"
      /\ Now = Segment("round_pending") /\ MarkerTypes /\ LocalOK(m)
  BY Zenon, AtLabel
<1>2. /\ at' = [at EXCEPT ![m] = "sync2"] /\ at'[m] = "sync2"
      /\ UNCHANGED <<shared, root_slices_started, weak_slices_started, weak_set, cleared>>
      /\ Now = "round"
  BY Zenon, <1>1 DEF Goto, MarkerTypes, lists, slices, results, Segment
<1>3. KeepsCount(m) /\ (Pushes(m) => Pushes(m)') /\ (Moved(m) => Moved(m)')
  BY Zenon, <1>1, <1>2 DEF KeepsCount, Busy, Pushes, Moved, Concurrent
<1>4. work[m] # {} => Pushes(m)'
  BY Zenon, <1>1, <1>3 DEF LocalOK
<1>5. more' \in [Thread -> BOOLEAN] /\ \A n \in Thread \ {m} : more'[n] = more[n]
  BY Zenon, <1>1 DEF MarkerTypes
<1>6. weak_slices_started' \in Nat /\ weak_set' \in [0 .. 3 -> SUBSET Object]
  BY Zenon, <1>1, <1>2 DEF MarkerTypes
<1> QED
  BY Zenon, <1>1, <1>2, <1>3, <1>4, <1>5, <1>6, ControlMove
     DEF Segment, Labels, Phase1

(* Labels that the provers have to tell apart. *)
LEMMA LaterLabels == "round_pending" \notin {"decide", "finalize", "exit"}
OBVIOUS

(* After the second barrier: a task that found nothing sees from num_busy_ *)
(* that another one did.                                                   *)
LEMMA DecideStep ==
  ASSUME CountFacts, MarkerInv, NEW m \in Thread,
         At(m, "decide"),
         more' = [more EXCEPT ![m] = @ \/ num_busy > 0],
         num_busy' = IF ~more[m] /\ num_busy > 0 THEN num_busy + 1 ELSE num_busy,
         Goto(m, "sync3"),
         UNCHANGED <<lists, todo, list, barrier, mutator, slices, results,
                     stage>>
  PROVE  MarkerInv'
<1>1. /\ at[m] = "decide" /\ At(m, at[m]) /\ stage = "parallel"
      /\ Now = Segment("decide") /\ MarkerTypes /\ LocalOK(m) /\ list[m] = {}
  <2>1. /\ at[m] = "decide" /\ At(m, at[m]) /\ stage = "parallel"
        /\ Now = Segment("decide") /\ MarkerTypes /\ LocalOK(m)
        /\ "decide" # "round_pending" => list[m] = {}
    BY Zenon, AtLabel
  <2> QED
    BY Zenon, <2>1, LaterLabels
<1>2. /\ at' = [at EXCEPT ![m] = "sync3"] /\ at'[m] = "sync3"
      /\ \A n \in Thread \ {m} : at'[n] = at[n]
      /\ UNCHANGED <<shared, root_slices_started, weak_slices_started, weak_set, cleared>>
      /\ Now = "decide"
  BY Zenon, <1>1 DEF Goto, MarkerTypes, lists, slices, results, Segment
<1>3. num_busy \in Nat /\ (more[m] => num_busy > 0) /\ CountOK
  <2>1. CountOK
    BY Zenon DEF MarkerInv
  <2>2. more[m] => Busy(m)
    BY Zenon, <1>1 DEF Busy
  <2> QED
    BY <2>1, <2>2, NumBusy
<1>4. /\ more' \in [Thread -> BOOLEAN] /\ \A n \in Thread \ {m} : more'[n] = more[n]
      /\ more'[m] <=> num_busy > 0
  <2>1. more \in [Thread -> BOOLEAN]
    BY Zenon, <1>1 DEF MarkerTypes
  <2>2. (num_busy > 0) \in BOOLEAN
    BY <1>3
  <2> QED
    BY Zenon, <1>3, <2>1, <2>2
<1>5. num_busy' > 0 <=> num_busy > 0
  BY <1>3
<1>6. /\ more[m] => more'[m]
      /\ \/ (more'[m] <=> more[m]) /\ num_busy' = num_busy
         \/ ~more[m] /\ more'[m] /\ num_busy' = num_busy + 1
  BY Zenon, <1>3, <1>4
<1>7. KeepsCount(m) /\ (Pushes(m) => Pushes(m)') /\ (Moved(m) => Moved(m)')
  BY Zenon, <1>1, <1>2, <1>6 DEF KeepsCount, Busy, Pushes, Moved, Concurrent
<1>8. work[m] # {} => Pushes(m)'
  BY Zenon, <1>1, <1>7 DEF LocalOK
<1>9. \A n \in Thread :
        /\ at'[n] = "sync3" => (more'[n] <=> num_busy' > 0)
        /\ at'[n] = "enter" => num_busy' > 0 /\ more'[n]
        /\ at'[n] = "final_deferred" => num_busy' = 0
  <2>1. num_busy = 0 => num_busy' = 0
    BY <1>5, <1>3
  <2> QED
    BY Zenon, <1>2, <1>3, <1>4, <1>5, <2>1 DEF CountOK
<1>10. weak_slices_started' \in Nat /\ weak_set' \in [0 .. 3 -> SUBSET Object]
  BY Zenon, <1>1, <1>2 DEF MarkerTypes
<1> QED
  BY Zenon, <1>1, <1>2, <1>4, <1>7, <1>8, <1>9, <1>10, ControlMove
     DEF Segment, Labels, Phase1

(* The calls of Sync(). *)
SyncsTo(m, l, next) ==
  \/ l = "sync1" /\ next = "round"
  \/ l = "sync2" /\ next = "decide"
  \/ l = "sync3" /\ next = "enter" /\ more[m]
  \/ l = "sync3" /\ next = "final_deferred" /\ ~more[m]
  \/ l = "sync4" /\ next = "weak"
  \/ l = "sync5" /\ next = "finalize"

(* What a call of Sync() does to the caller, apart from the barrier.       *)
SyncCall(m, l, next) ==
  /\ At(m, l) /\ SyncsTo(m, l, next) /\ Goto(m, next)
  /\ UNCHANGED <<lists, todo, list, more, mutator, slices, results, stage,
                 num_busy>>

(* It changes no list, and neither who is busy nor who may have work.      *)
LEMMA SyncKeeps ==
  ASSUME CountFacts, MarkerInv, NEW m \in Thread, NEW l, NEW next,
         SyncCall(m, l, next),
         \A n \in Thread \ {m} : pc[n] = "out" => pc'[n] = "out"
  PROVE  /\ at[m] = l /\ at'[m] = next /\ \A n \in Thread \ {m} : at'[n] = at[n]
         /\ pc[m] = "out" /\ stage = "parallel" /\ Now = Segment(l)
         /\ MarkerTypes' /\ SharedOK' /\ Tricolour' /\ OnlyReachable' /\ RootsOK'
         /\ \A n \in Thread : LocalOK(n)'
         /\ (num_busy = Cardinality({n \in Thread : Busy(n)}))'
         /\ deferred \subseteq Code
         /\ UNCHANGED <<deferred, marked, delayed, more, stage, num_busy, cleared,
                        weak_set, weak_slices_started>>
<1>1. /\ at[m] = l /\ at'[m] = next /\ todo[m] = {} /\ pc[m] = "out"
      /\ \A n \in Thread \ {m} : at'[n] = at[n]
      /\ MarkerTypes /\ LocalOK(m) /\ at' = [at EXCEPT ![m] = next]
      /\ next \in Labels
      /\ l \in {"sync1", "sync2", "sync3", "sync4", "sync5"}
  BY Zenon
     DEF SyncCall, SyncsTo, At, Goto, MarkerInv, MarkerTypes, Labels, Phase1
<1>2. /\ UNCHANGED <<lists, todo, list, more, mutator, slices, results, stage,
                     num_busy>>
      /\ UNCHANGED <<work, shared, deferred, marked, delayed, local, young, temp,
                     quiet, stored, block, field, cleared, weak_set,
                     root_slices_started, weak_slices_started>>
  BY Zenon DEF SyncCall, lists, mutator, slices, results
<1>3. stage = "parallel" /\ Now = Segment(l)
  BY Zenon, <1>1, Outside DEF MarkerInv, InStep, MarkerTypes, Concurrent
<1>4. \A n \in Thread : (Busy(n)' <=> Busy(n)) /\ (Pushes(n)' <=> Pushes(n))
  <2>1. (Busy(m)' <=> Busy(m)) /\ (Pushes(m)' <=> Pushes(m))
    BY Zenon, <1>1, <1>2 DEF SyncCall, SyncsTo, Busy, Pushes, Concurrent
  <2>2. \A n \in Thread \ {m} : (Busy(n)' <=> Busy(n)) /\ (Pushes(n)' <=> Pushes(n))
    BY Zenon, <1>1, <1>2 DEF Busy, Pushes
  <2> QED
    BY Zenon, <2>1, <2>2
<1>5. LocalOK(m)'
  <2>1. list[m] = {} /\ next \notin {"exit", "end"}
    BY Zenon, <1>1 DEF LocalOK, SyncCall, SyncsTo
  <2> QED
    BY Zenon, <1>1, <1>2, <1>4, <2>1 DEF LocalOK
<1>6. \A n \in Thread \ {m} : LocalOK(n)'
  <2>1. \A n \in Thread \ {m} : LocalOK(n)
    BY Zenon DEF MarkerInv
  <2> QED
    BY Zenon, <1>1, <1>2, <1>4, <2>1 DEF LocalOK
<1>7. (num_busy = Cardinality({n \in Thread : Busy(n)}))'
  BY Zenon, <1>2, <1>4, CountStep DEF MarkerInv
<1>8. Tricolour' /\ OnlyReachable' /\ \A o \in Object : Held(o)' <=> Held(o)
  BY Zenon, <1>2, HeapStill
<1>9. MarkerTypes'
  <2>1. at' \in [Thread -> Labels]
    BY Zenon, <1>1 DEF MarkerTypes
  <2> QED
    BY Zenon, <1>1, <1>2, <2>1 DEF MarkerTypes
<1>10. SharedOK'
  BY Zenon, <1>2, <1>4 DEF MarkerInv, SharedOK
<1>11. RootsOK'
  <2>1. /\ RootsOK /\ root_slices_started > 1
        /\ local \subseteq Object /\ young \subseteq Object
    BY Zenon, <1>1, <1>3 DEF MarkerInv, RootsOK, MarkerTypes
  <2> QED
    BY Zenon, <1>2, <1>3, <1>8, <2>1 DEF RootsOK
<1>12. deferred \subseteq Code
  BY Zenon, <1>1, <1>3 DEF MarkerInv, DeferredOK
<1>13. \A n \in Thread : LocalOK(n)'
  BY Zenon, <1>5, <1>6
<1> QED
  BY Zenon, <1>1, <1>2, <1>3, <1>7, <1>8, <1>9, <1>10, <1>11, <1>12, <1>13

(* Sync() by a task that waits: it is still in the segment it was in. *)
LEMMA MarkerSyncWait ==
  ASSUME CountFacts, MarkerInv, NEW m \in Thread, NEW l, NEW next,
         SyncCall(m, l, next), SyncWait(m)
  PROVE  MarkerInv'
<1>1. /\ BarrierInv' /\ InRound(m)'
      /\ \A u \in Thread \ {m} : InRound(u)' <=> InRound(u)
      /\ \A u \in Thread : Gone(u)' <=> Gone(u)
      /\ \A u \in Thread \ {m} : pc'[u] = pc[u]
  <2>1. BarrierInv
    BY Zenon DEF MarkerInv
  <2> QED
    BY Zenon, <2>1, SyncWaitStep DEF SyncWait, BarrierInv, TypeOK
<1>2. /\ at[m] = l /\ at'[m] = next /\ \A n \in Thread \ {m} : at'[n] = at[n]
      /\ pc[m] = "out" /\ stage = "parallel" /\ Now = Segment(l)
      /\ MarkerTypes' /\ SharedOK' /\ Tricolour' /\ OnlyReachable' /\ RootsOK'
      /\ \A n \in Thread : LocalOK(n)'
      /\ (num_busy = Cardinality({n \in Thread : Busy(n)}))'
      /\ deferred \subseteq Code
      /\ UNCHANGED <<deferred, marked, delayed, more, stage, num_busy, cleared,
                     weak_set, weak_slices_started>>
  BY Zenon, <1>1, SyncKeeps
<1>3. ~InWait(m) /\ ~InRound(m) /\ ~Gone(m)
  BY Zenon, <1>2, Outside
<1>4. /\ next \in AfterSync /\ BeforeSync(next) = Segment(l) /\ next # "end"
      /\ Segment(l) # "end" /\ l \notin {"end", "round"}
  BY Zenon DEF SyncCall, SyncsTo, AfterSync, BeforeSync, Segment
<1>5. \A n \in Thread : Seg(n)' = Now
  <2>1. \A n \in Thread : Seg(n) = Now
    BY Zenon DEF MarkerInv, InStep
  <2>2. Seg(m)' = Now
    BY Zenon, <1>1, <1>2, <1>4 DEF Seg
  <2>3. \A n \in Thread \ {m} : Seg(n)' = Seg(n)
    BY Zenon, <1>1, <1>2 DEF Seg
  <2> QED
    BY Zenon, <2>1, <2>2, <2>3
<1>6. Now' = Now
  BY Zenon, <1>5, BarrierAssumption DEF Now
<1>7. InStep'
  <2>1. ASSUME NEW n \in Thread
        PROVE  /\ InWait(n)' => at'[n] \in AfterSync
               /\ Gone(n)' <=> at'[n] = "end"
    <3>1. (InWait(n) => at[n] \in AfterSync) /\ (Gone(n) <=> at[n] = "end")
      BY Zenon DEF MarkerInv, InStep
    <3>2. n # m => (InWait(n)' <=> InWait(n))
      BY Zenon, <1>1 DEF InWait
    <3> QED
      BY Zenon, <1>1, <1>2, <1>3, <1>4, <3>1, <3>2
  <2> QED
    BY Zenon, <1>2, <1>5, <1>6, <2>1 DEF InStep
<1>8. CountOK'
  <2>1. CountOK /\ num_busy \in Nat
    BY NumBusy DEF MarkerInv
  <2>2. ASSUME Now = "decide", NEW n \in Thread
        PROVE  /\ at'[n] = "sync3" => (more[n] <=> num_busy > 0)
               /\ at'[n] = "enter" => num_busy > 0 /\ more[n]
               /\ at'[n] = "final_deferred" => num_busy = 0
    <3>1. CASE n = m
      <4>1. l = "sync3"
        BY Zenon, <1>2, <2>2 DEF SyncCall, SyncsTo, Segment
      <4>2. /\ \/ next = "enter" /\ more[m]
               \/ next = "final_deferred" /\ ~more[m]
            /\ more[m] <=> num_busy > 0
        BY Zenon, <1>2, <2>1, <2>2, <4>1 DEF SyncCall, SyncsTo, CountOK
      <4> QED
        BY <1>2, <2>1, <3>1, <4>2
    <3>2. CASE n # m
      BY Zenon, <1>2, <2>1, <2>2, <3>2 DEF CountOK
    <3> QED
      BY Zenon, <3>1, <3>2
  <2> QED
    BY Zenon, <1>2, <1>6, <2>2 DEF CountOK
<1>9. DeferredOK'
  <2>1. Now = "final" => \A n \in Thread : at'[n] # "final_deferred" => deferred = {}
    <3>1. Now = "final" => l # "final_deferred"
      BY Zenon, <1>2 DEF SyncCall, SyncsTo
    <3> QED
      BY Zenon, <1>2, <3>1 DEF MarkerInv, DeferredOK
  <2> QED
    BY Zenon, <1>2, <1>6, <2>1 DEF MarkerInv, DeferredOK
<1>10. RoundsOK'
  <2>1. Moved(m) => Moved(m)'
    BY Zenon, <1>2 DEF SyncCall, SyncsTo, Moved
  <2>2. ASSUME NEW n \in Thread
        PROVE  /\ Moved(n) => Moved(n)'
               /\ (at[n] = "round" \/ \A w \in delayed[n] : Key[w] \notin marked) =>
                  (at'[n] = "round" \/ \A w \in delayed'[n] : Key[w] \notin marked')
    <3>1. CASE n = m
      BY Zenon, <1>2, <1>4, <2>1, <3>1
    <3>2. CASE n # m
      BY Zenon, <1>2, <3>2 DEF Moved
    <3> QED
      BY Zenon, <3>1, <3>2
  <2>3. RoundsOK
    BY Zenon DEF MarkerInv
  <2> QED
    BY Zenon, <1>2, <1>6, <2>2, <2>3 DEF RoundsOK
<1>11. WeakOK'
  <2>1. WeakOK
    BY Zenon DEF MarkerInv
  <2>2. Now = "weak" => l # "weak"
    BY Zenon, <1>2 DEF SyncCall, SyncsTo
  <2> QED
    BY Zenon, <1>2, <1>6, <2>1, <2>2 DEF WeakOK
<1> QED
  BY Zenon, <1>1, <1>2, <1>7, <1>8, <1>9, <1>10, <1>11 DEF MarkerInv

(* Sync() by the last task: all of them are in the next segment. *)
LEMMA MarkerSyncLast ==
  ASSUME CountFacts, MarkerInv, NEW m \in Thread, NEW l, NEW next,
         SyncCall(m, l, next), SyncLast(m)
  PROVE  MarkerInv'
<1>0. /\ pc[m] = "out" /\ at[m] = l /\ BarrierInv
      /\ Segment(l) # "end" /\ next # "end" /\ next \in AfterSync
      /\ BeforeSync(next) = Segment(l)
  BY Zenon
     DEF SyncLast, SyncCall, SyncsTo, At, Segment, AfterSync, BeforeSync, MarkerInv
<1>1. \A u \in Thread : ~Gone(u)
  <2>1. Now # "end"
    BY Zenon, <1>0, Outside
  <2>2. ASSUME NEW u \in Thread, Gone(u)
        PROVE  FALSE
    <3>1. at[u] = "end" /\ Seg(u) = Now
      BY Zenon, <2>2 DEF MarkerInv, InStep
    <3>2. ~InRound(u)
      BY Zenon, <2>2 DEF InRound, InWait, Gone
    <3> QED
      BY Zenon, <2>1, <3>1, <3>2 DEF Seg, Segment
  <2> QED
    BY Zenon, <2>2
<1>2. /\ BarrierInv'
      /\ \A u \in Thread : ~InRound(u)' /\ ~Gone(u)'
      /\ \A u \in Thread \ {m} : InRound(u)
  BY Zenon, <1>0, <1>1, SyncLastStep
<1>3. \A u \in Thread : /\ pc[u] = "out" => pc'[u] = "out"
                        /\ InWait(u)' => InWait(u)
  BY Zenon, <1>0 DEF SyncLast, BarrierInv, TypeOK, InWait
<1>4. /\ at'[m] = next /\ \A n \in Thread \ {m} : at'[n] = at[n]
      /\ stage = "parallel" /\ Now = Segment(l)
      /\ MarkerTypes' /\ SharedOK' /\ Tricolour' /\ OnlyReachable' /\ RootsOK'
      /\ \A n \in Thread : LocalOK(n)'
      /\ (num_busy = Cardinality({n \in Thread : Busy(n)}))'
      /\ deferred \subseteq Code
      /\ UNCHANGED <<deferred, marked, delayed, more, stage, num_busy, cleared,
                     weak_set, weak_slices_started>>
  BY Zenon, <1>3, SyncKeeps
<1>5. /\ CountOK /\ num_busy \in Nat
      /\ next = "enter" => num_busy > 0 /\ more[m]
      /\ next = "final_deferred" => num_busy = 0 /\ ~more[m]
  <2>1. CountOK /\ num_busy \in Nat
    BY NumBusy DEF MarkerInv
  <2>2. /\ next = "enter" => l = "sync3" /\ more[m]
        /\ next = "final_deferred" => l = "sync3" /\ ~more[m]
    BY Zenon DEF SyncCall, SyncsTo
  <2>3. l = "sync3" => (more[m] <=> num_busy > 0)
    BY Zenon, <1>0, <1>4, <2>1 DEF CountOK, Segment
  <2> QED
    BY <2>1, <2>2, <2>3
<1>6. \A n \in Thread : at'[n] = next
  <2>1. ASSUME NEW n \in Thread \ {m}
        PROVE  at[n] = next
    <3>1. BeforeSync(at[n]) = Segment(l) /\ at[n] \in AfterSync
      BY Zenon, <1>2, <1>4 DEF MarkerInv, InStep, Seg, InRound
    <3>2. CASE l = "sync3"
      <4>1. at[n] \in {"enter", "final_deferred"} /\ next \in {"enter", "final_deferred"}
        BY Zenon, <3>1, <3>2
           DEF BeforeSync, AfterSync, Segment, SyncCall, SyncsTo
      <4>2. at[n] = "enter" => num_busy > 0
        BY Zenon, <1>4, <1>5, <3>2 DEF CountOK, Segment
      <4>3. at[n] = "final_deferred" => num_busy = 0
        BY Zenon, <1>4, <1>5, <3>2 DEF CountOK, Segment
      <4> QED
        BY <1>5, <4>1, <4>2, <4>3
    <3>3. CASE l # "sync3"
      BY Zenon, <3>1, <3>3 DEF BeforeSync, AfterSync, Segment, SyncCall, SyncsTo
    <3> QED
      BY Zenon, <3>2, <3>3
  <2> QED
    BY <1>4, <2>1
<1>7. Now' = Segment(next) /\ \A n \in Thread : Seg(n)' = Segment(next)
  BY Zenon, <1>2, <1>6, BarrierAssumption DEF Seg, Now
<1>8. InStep'
  BY Zenon, <1>0, <1>2, <1>4, <1>6, <1>7 DEF InStep
<1>9. CountOK'
  BY Zenon, <1>4, <1>6, <1>7 DEF CountOK, Segment, SyncCall, SyncsTo
<1>10. DeferredOK'
  <2>1. next \in {"weak", "finalize"} => deferred = {}
    BY Zenon, <1>0, <1>4 DEF MarkerInv, DeferredOK, SyncCall, SyncsTo, Segment
  <2> QED
    BY Zenon, <1>0, <1>4, <1>6, <1>7, <2>1 DEF DeferredOK, Segment, AfterSync
<1>11. RoundsOK'
  <2>1. cleared = {} /\ RoundsOK
    BY Zenon, <1>0, <1>4 DEF MarkerInv, RoundsOK
  <2>2. CASE next \in {"round", "enter"}
    BY Zenon, <1>4, <1>6, <1>7, <2>1, <2>2 DEF RoundsOK, Segment
  <2>3. CASE next \notin {"round", "enter"}
    <3>1. /\ Now # "drain" /\ l # "round"
          /\ \A n \in Thread : at[n] # "round"
      <4>1. Now # "drain" /\ l # "round"
        BY Zenon, <1>4, <2>3 DEF SyncCall, SyncsTo, Segment
      <4> QED
        BY Zenon, <1>0, <1>4, <1>6, <2>3, <4>1
    <3>2. CASE \E n \in Thread : Moved(n)
      <4>1. PICK n \in Thread : Moved(n)
        BY Zenon, <3>2
      <4>2. CASE next = "decide"
        BY Zenon, <1>4, <1>6, <1>7, <2>1, <4>1, <4>2
           DEF RoundsOK, Segment, Moved
      <4>3. CASE next # "decide"
        <5>1. n = m
          BY Zenon, <1>4, <1>6, <2>3, <4>1, <4>3 DEF Moved, SyncCall, SyncsTo
        <5>2. l # "sync3"
          BY Zenon, <1>0, <1>5, <2>3, <4>1, <5>1 DEF Moved, SyncCall, SyncsTo
        <5> QED
          BY Zenon, <1>0, <2>3, <4>1, <4>3, <5>1, <5>2
             DEF Moved, SyncCall, SyncsTo
      <4> QED
        BY Zenon, <4>2, <4>3
    <3>3. CASE ~\E n \in Thread : Moved(n)
      <4>1. \A n \in Thread : \A w \in delayed[n] : Key[w] \notin marked
        BY Zenon, <2>1, <3>1, <3>3 DEF RoundsOK
      <4> QED
        BY Zenon, <1>4, <2>1, <4>1 DEF RoundsOK
    <3> QED
      BY Zenon, <3>2, <3>3
  <2> QED
    BY Zenon, <2>2, <2>3
<1>12. WeakOK'
  <2>1. WeakOK
    BY Zenon DEF MarkerInv
  <2>2. CASE next = "finalize"
    <3>1. Now = "weak" /\ at[m] # "weak" /\ Segment(next) = "end"
      BY Zenon, <1>0, <1>4, <2>2 DEF SyncCall, SyncsTo, Segment
    <3>2. weak_slices_started > 3
      BY Zenon, <2>1, <3>1 DEF WeakOK
    <3> QED
      BY Zenon, <1>4, <1>7, <2>1, <3>1, <3>2 DEF WeakOK
  <2>3. CASE next # "finalize"
    <3>1. /\ Now \notin {"weak", "end"} /\ Segment(next) # "end"
          /\ Segment(next) = "weak" => next = "weak"
      BY Zenon, <1>4, <2>3 DEF SyncCall, SyncsTo, Segment
    <3>2. weak_slices_started = 0
      BY Zenon, <2>1, <3>1 DEF WeakOK
    <3> QED
      BY Zenon, <1>4, <1>6, <1>7, <2>1, <3>1, <3>2 DEF WeakOK
  <2> QED
    BY Zenon, <2>2, <2>3
<1> QED
  BY Zenon, <1>2, <1>4, <1>8, <1>9, <1>10, <1>11, <1>12 DEF MarkerInv

(* ProcessDeferredMarking() finds its stack empty. *)
LEMMA DeferredEndStep ==
  ASSUME CountFacts, MarkerInv, NEW m \in Thread, NEW l, NEW next,
         \/ l = "deferred" /\ next = "enter"
         \/ l = "final_deferred" /\ next = "sync4",
         At(m, l), deferred = {}, Goto(m, next),
         UNCHANGED <<lists, todo, list, more, barrier, mutator, slices, results,
                     stage, num_busy>>
  PROVE  MarkerInv'
<1>1. /\ at[m] = l /\ at'[m] = next /\ At(m, at[m]) /\ at' = [at EXCEPT ![m] = next]
      /\ MarkerTypes /\ LocalOK(m)
      /\ UNCHANGED <<shared, root_slices_started, weak_slices_started, weak_set, cleared>>
      /\ Now = Segment(l) /\ list[m] = {} /\ stage = "parallel"
  <2>1. /\ at[m] = l /\ at'[m] = next /\ At(m, at[m]) /\ at' = [at EXCEPT ![m] = next]
        /\ MarkerTypes /\ LocalOK(m) /\ pc[m] = "out"
        /\ UNCHANGED <<shared, root_slices_started, weak_slices_started, weak_set, cleared>>
    BY Zenon DEF MarkerInv, MarkerTypes, At, Goto, lists, slices, results
  <2>2. list[m] = {} /\ stage = "parallel"
    BY Zenon, <2>1 DEF LocalOK, MarkerInv, InStep, MarkerTypes, Concurrent
  <2> QED
    BY Zenon, <2>1, <2>2, Outside
<1>2. CASE l = "deferred" /\ next = "enter"
  <2>1. KeepsCount(m) /\ Pushes(m)'
    BY Zenon, <1>1, <1>2 DEF KeepsCount, Busy, Pushes, Concurrent
  <2>2. \A o \in Object : Held(o)' <=> Held(o)
    BY Zenon, <1>1, HeapStill
  <2>3. RootsOK'
    <3>1. UNCHANGED <<local, young, stage>> /\ root_slices_started > 1
      BY Zenon, <1>1, <1>2 DEF mutator, MarkerInv, RootsOK
    <3> QED
      BY Zenon, <1>1, <2>2, <3>1 DEF MarkerInv, RootsOK, MarkerTypes
  <2>4. /\ root_slices_started' \in Nat
        /\ UNCHANGED <<barrier, mutator, stage, lists, todo, list, more, results,
                       weak_slices_started>>
    BY Zenon, <1>1 DEF MarkerTypes
  <2> QED
    BY Zenon, <1>1, <1>2, <2>1, <2>3, <2>4, DrainMove
       DEF Segment, Labels, Phase1, Concurrent
<1>3. CASE l = "final_deferred" /\ next = "sync4"
  <2>1. shared = {} /\ work[m] = {}
    BY Zenon, <1>1, <1>3, NoMoreWork DEF Segment
  <2>2. KeepsCount(m) /\ ~Moved(m)
    BY Zenon, <1>1, <1>3, <2>1 DEF KeepsCount, Busy, Moved, Concurrent
  <2>3. more' \in [Thread -> BOOLEAN] /\ \A n \in Thread \ {m} : more'[n] = more[n]
    BY Zenon, <1>1 DEF MarkerTypes
  <2>4. weak_slices_started' \in Nat /\ weak_set' \in [0 .. 3 -> SUBSET Object]
    BY Zenon, <1>1 DEF MarkerTypes
  <2>5. Now = "final"
    BY Zenon, <1>1, <1>3 DEF Segment
  <2> QED
    BY Zenon, <1>1, <1>3, <2>1, <2>2, <2>3, <2>4, <2>5, ControlMove
       DEF Segment, Labels, Phase1
<1> QED
  BY Zenon, <1>2, <1>3

(* IterateWeakRoots(). *)
LEMMA IterateWeakRootsStep ==
  ASSUME CountFacts, MarkerInv, NEW m \in Thread, IterateWeakRoots(m)
  PROVE  MarkerInv'
<1>1. /\ At(m, "weak") /\ weak_slices_started' = weak_slices_started + 1
      /\ UNCHANGED <<lists, todo, list, more, barrier, mutator, cleared, stage,
                     num_busy, root_slices_started>>
      /\ UNCHANGED shared
  BY Zenon DEF IterateWeakRoots, lists
<1>2. /\ at[m] = "weak" /\ At(m, at[m]) /\ stage = "parallel" /\ Now = Segment("weak")
      /\ list[m] = {} /\ MarkerTypes /\ LocalOK(m)
  BY <1>1, AtLabel
<1>3. Now = "weak"
  BY Zenon, <1>2 DEF Segment
<1>4. shared = {} /\ work[m] = {} /\ ~Busy(m) /\ ~Moved(m)
  BY Zenon, <1>2, <1>3, NoMoreWork DEF Moved
<1>5. more' \in [Thread -> BOOLEAN] /\ \A n \in Thread \ {m} : more'[n] = more[n]
  BY Zenon, <1>1, <1>2 DEF MarkerTypes
<1>6. /\ weak_slices_started \in Nat /\ weak_set \in [0 .. 3 -> SUBSET Object]
      /\ \A s \in 0 .. 3 :
           weak_set[s] = IF s < weak_slices_started THEN marked ELSE Object
      /\ marked \subseteq Object
  BY Zenon, <1>2 DEF MarkerTypes, MarkerInv, WeakOK
<1>7. PICK l \in {"weak", "sync5"} :
        /\ at' = [at EXCEPT ![m] = l]
        /\ weak_set' \in [0 .. 3 -> SUBSET Object]
        /\ \A s \in 0 .. 3 :
             weak_set'[s] = IF s < weak_slices_started' THEN marked ELSE Object
        /\ l # "weak" => weak_slices_started' > 3
  <2>1. CASE weak_slices_started < 4
    <3>1. /\ weak_set' = [weak_set EXCEPT ![weak_slices_started] = @ \cap marked]
          /\ at' = at
      BY Zenon, <2>1 DEF IterateWeakRoots, kNumWeakSlices
    <3>2. at' = [at EXCEPT ![m] = "weak"]
      BY Zenon, <1>2, <3>1 DEF MarkerTypes
    <3>3. weak_slices_started \in 0 .. 3 /\ ~(weak_slices_started < weak_slices_started)
      BY <1>6, <2>1
    <3>4. weak_set[weak_slices_started] = Object
      BY Zenon, <1>6, <3>3
    <3>5. Object \cap marked = marked
      BY Zenon, <1>6
    <3>6. /\ weak_set' \in [0 .. 3 -> SUBSET Object]
          /\ weak_set'[weak_slices_started] = marked
          /\ \A s \in 0 .. 3 : s # weak_slices_started => weak_set'[s] = weak_set[s]
      BY Zenon, <1>6, <3>1, <3>3, <3>4, <3>5
    <3>7. ASSUME NEW s \in 0 .. 3
          PROVE  weak_set'[s] = IF s < weak_slices_started' THEN marked ELSE Object
      <4>1. CASE s = weak_slices_started
        BY <1>1, <1>6, <3>6, <4>1
      <4>2. CASE s # weak_slices_started
        BY <1>1, <1>6, <3>6, <4>2
      <4> QED
        BY Zenon, <4>1, <4>2
    <3> QED
      BY Zenon, <3>2, <3>6, <3>7
  <2>2. CASE ~(weak_slices_started < 4)
    <3>1. weak_set' = weak_set /\ at' = [at EXCEPT ![m] = "sync5"]
      BY Zenon, <2>2 DEF IterateWeakRoots, kNumWeakSlices, Goto
    <3>2. \A s \in 0 .. 3 : s < weak_slices_started /\ s < weak_slices_started'
      BY <1>1, <1>6, <2>2
    <3>3. weak_slices_started' > 3
      BY <1>1, <1>6, <2>2
    <3> QED
      BY Zenon, <1>6, <3>1, <3>2, <3>3
  <2> QED
    BY Zenon, <2>1, <2>2
<1>8. at'[m] = l
  BY Zenon, <1>2, <1>7 DEF MarkerTypes
<1>9. KeepsCount(m)
  <2>1. ~Busy(m)'
    BY Zenon, <1>8 DEF Busy, Concurrent
  <2> QED
    BY Zenon, <1>1, <1>4, <2>1 DEF KeepsCount
<1>10. /\ weak_slices_started' \in Nat
       /\ weak_slices_started > 3 => weak_slices_started' > 3
  BY <1>1, <1>6
<1>11. /\ l \in Labels \ {"end"} /\ Segment(l) = Segment(at[m])
       /\ l \notin {"slice", "in_slice", "deferred", "exit", "end"}
  BY Zenon, <1>2 DEF Labels, Segment
<1> QED
  BY Zenon, <1>1, <1>2, <1>3, <1>4, <1>5, <1>7, <1>9, <1>10, <1>11, ControlMove

(* FinalizeResultsFrom(). *)
LEMMA FinalizeStep ==
  ASSUME CountFacts, MarkerInv, NEW m \in Thread, Finalize(m)
  PROVE  MarkerInv'
<1>1. /\ At(m, "finalize")
      /\ cleared' = cleared \cup delayed[m]
      /\ delayed' = [delayed EXCEPT ![m] = {}]
      /\ at' = [at EXCEPT ![m] = "exit"]
      /\ UNCHANGED <<marked, work, shared, deferred, weak_set, todo, list, more,
                     barrier, mutator, slices, stage, num_busy>>
      /\ UNCHANGED <<field, local, young, temp, block, stored, quiet,
                     root_slices_started, weak_slices_started>>
  BY Zenon DEF Finalize, Goto, mutator, slices
<1>2. /\ at[m] = "finalize" /\ stage = "parallel" /\ Now = "end"
      /\ list[m] = {} /\ MarkerTypes /\ todo[m] = {} /\ pc[m] = "out"
  <2>1. /\ at[m] = "finalize" /\ stage = "parallel" /\ Now = Segment("finalize")
        /\ "finalize" # "round_pending" => list[m] = {}
        /\ MarkerTypes /\ todo[m] = {} /\ pc[m] = "out"
    BY Zenon, <1>1, AtLabel
  <2> QED
    BY Zenon, <2>1, LaterLabels DEF Segment
<1>3. /\ shared = {} /\ work[m] = {} /\ ~Busy(m)
      /\ \A n \in Thread : \A w \in delayed[n] : Key[w] \notin marked
  BY Zenon, <1>2, NoMoreWork
<1>4. /\ delayed' \in [Thread -> SUBSET Weak] /\ delayed'[m] = {}
      /\ at' \in [Thread -> Labels] /\ at'[m] = "exit" /\ cleared' \subseteq Weak
      /\ \A n \in Thread \ {m} : delayed'[n] = delayed[n] /\ at'[n] = at[n]
  BY Zenon, <1>1, <1>2 DEF MarkerTypes, Labels
<1>5. MarkerTypes'
  BY Zenon, <1>1, <1>2, <1>4 DEF MarkerTypes
<1>6. \A x : /\ IsGray(x)' <=> IsGray(x)
             /\ IsComing(x)' <=> IsComing(x)
  BY Zenon, <1>1 DEF IsGray, IsComing
<1>7. \A x : IsWaiting(x)' <=> IsWaiting(x)
  BY Zenon, <1>1, <1>2, <1>4 DEF IsWaiting
<1>8. \A x : (Held(x)' <=> Held(x)) /\ (Known(x)' <=> Known(x))
  BY Zenon, <1>1, <1>6, <1>7 DEF Held, Known
<1>9. Tricolour' /\ OnlyReachable'
  BY Zenon, <1>1, <1>6, <1>7, <1>8, TricolourStep, ReachableStep
<1>10. TaskMoves(m, "exit")
  BY Zenon, <1>1, <1>2, <1>4 DEF TaskMoves, Segment, Labels
<1>11. LocalOK(m)' /\ KeepsCount(m)
  BY Zenon, <1>1, <1>2, <1>3, <1>4 DEF LocalOK, KeepsCount, Busy, Concurrent
<1>12. /\ BarrierInv' /\ InStep' /\ SharedOK'
       /\ \A n \in Thread : LocalOK(n)'
       /\ (num_busy = Cardinality({n \in Thread : Busy(n)}))'
       /\ Now' = "end"
  BY Zenon, <1>2, <1>10, <1>11, TaskStep
<1>13. RootsOK'
  BY Zenon, <1>1, <1>2, <1>8, <1>10, RootsKept
<1>14. CountOK'
  BY Zenon, <1>12 DEF CountOK
<1>15. DeferredOK'
  BY Zenon, <1>1, <1>2, <1>12 DEF DeferredOK, MarkerInv
<1>16. RoundsOK'
  <2>1. \A w \in cleared : Key[w] \notin marked
    BY Zenon DEF MarkerInv, RoundsOK
  <2>2. \A w \in cleared' : Key[w] \notin marked'
    BY Zenon, <1>1, <1>3, <2>1
  <2>3. \A n \in Thread : \A w \in delayed'[n] : Key[w] \notin marked'
    BY Zenon, <1>1, <1>3, <1>4
  <2> QED
    BY Zenon, <1>12, <2>2, <2>3 DEF RoundsOK
<1>17. WeakOK'
  BY Zenon, <1>1, <1>2, <1>12 DEF MarkerInv, WeakOK
<1> QED
  BY Zenon, <1>5, <1>9, <1>12, <1>13, <1>14, <1>15, <1>16, <1>17 DEF MarkerInv

(* A step inside the barrier, which the rest of the marker does not see. *)
LEMMA BarrierOnly ==
  ASSUME MarkerInv, BarrierInv',
         \A u \in Thread : /\ InRound(u)' <=> InRound(u)
                           /\ Gone(u)' <=> Gone(u)
                           /\ InWait(u)' => InWait(u)
                           /\ pc[u] = "out" => pc'[u] = "out",
         UNCHANGED <<at, lists, todo, list, more, mutator, slices, results, stage,
                     num_busy>>
  PROVE  MarkerInv'
<1>1. UNCHANGED <<at, todo, list, more, stage, num_busy, marked, work, shared,
                  deferred, delayed, field, local, young, temp, block, stored,
                  quiet, cleared, weak_set, root_slices_started,
                  weak_slices_started>>
  BY Zenon DEF lists, mutator, slices, results
<1>2. Tricolour' /\ OnlyReachable' /\ \A o \in Object : Held(o)' <=> Held(o)
  BY Zenon, <1>1, HeapStill
<1>3. \A n \in Thread : Seg(n)' = Seg(n)
  BY Zenon, <1>1 DEF Seg
<1>4. Now' = Now
  BY Zenon, <1>3, BarrierAssumption DEF Now
<1>5. \A n \in Thread : /\ Busy(n)' <=> Busy(n)
                        /\ Pushes(n)' <=> Pushes(n)
                        /\ Moved(n)' <=> Moved(n)
  BY Zenon, <1>1 DEF Busy, Pushes, Moved
<1>6. InStep'
  <2>1. InStep
    BY Zenon DEF MarkerInv
  <2> QED
    BY Zenon, <1>1, <1>3, <1>4, <2>1 DEF InStep
<1>7. \A n \in Thread : LocalOK(n)'
  <2>1. \A n \in Thread : LocalOK(n)
    BY Zenon DEF MarkerInv
  <2> QED
    BY Zenon, <1>1, <1>5, <2>1 DEF LocalOK
<1>8. CountOK' /\ SharedOK'
  <2>1. CountOK /\ SharedOK
    BY Zenon DEF MarkerInv
  <2>2. {n \in Thread : Busy(n)'} = {n \in Thread : Busy(n)}
    BY Zenon, <1>5
  <2>3. CountOK'
    BY Zenon, <1>1, <1>4, <2>1, <2>2 DEF CountOK
  <2> QED
    BY Zenon, <1>1, <1>5, <2>1, <2>3 DEF SharedOK
<1>9. MarkerTypes'
  <2>1. MarkerTypes
    BY Zenon DEF MarkerInv
  <2> QED
    BY Zenon, <1>1, <2>1 DEF MarkerTypes
<1>10. DeferredOK' /\ WeakOK'
  <2>1. DeferredOK /\ WeakOK
    BY Zenon DEF MarkerInv
  <2> QED
    BY Zenon, <1>1, <1>4, <2>1 DEF DeferredOK, WeakOK
<1>11. RoundsOK'
  <2>1. RoundsOK
    BY Zenon DEF MarkerInv
  <2> QED
    BY Zenon, <1>1, <1>4, <1>5, <2>1 DEF RoundsOK
<1>12. RootsOK'
  <2>1. RootsOK /\ local \subseteq Object /\ young \subseteq Object
    BY Zenon DEF MarkerInv, MarkerTypes
  <2> QED
    BY Zenon, <1>1, <1>2, <2>1 DEF RootsOK
<1> QED
  BY Zenon, <1>2, <1>6, <1>7, <1>8, <1>9, <1>10, <1>11, <1>12 DEF MarkerInv

(* The task has finished and calls Exit(). *)
LEMMA MarkerExit ==
  ASSUME CountFacts, MarkerInv, NEW m \in Thread, Exit(m), At(m, "exit"),
         Goto(m, "end"),
         UNCHANGED <<lists, todo, list, more, mutator, slices, results, stage,
                     num_busy>>
  PROVE  MarkerInv'
<1>1. /\ at[m] = "exit" /\ stage = "parallel" /\ Now = "end"
      /\ list[m] = {} /\ MarkerTypes /\ todo[m] = {} /\ pc[m] = "out" /\ LocalOK(m)
  <2>1. /\ at[m] = "exit" /\ stage = "parallel" /\ Now = Segment("exit")
        /\ "exit" # "round_pending" => list[m] = {}
        /\ MarkerTypes /\ todo[m] = {} /\ pc[m] = "out" /\ LocalOK(m)
    BY Zenon, AtLabel
  <2> QED
    BY Zenon, <2>1, LaterLabels DEF Segment
<1>2. UNCHANGED <<todo, list, more, stage, num_busy, marked, work, shared,
                  deferred, delayed, field, local, young, temp, block, stored,
                  quiet, cleared, weak_set, root_slices_started,
                  weak_slices_started>>
  BY Zenon DEF lists, mutator, slices, results
<1>3. /\ BarrierInv' /\ Gone(m)'
      /\ \A u \in Thread : InRound(u)' <=> InRound(u)
      /\ \A u \in Thread \ {m} : (Gone(u)' <=> Gone(u)) /\ pc'[u] = pc[u]
  <2>1. BarrierInv
    BY Zenon DEF MarkerInv
  <2> QED
    BY Zenon, <2>1, ExitStep DEF Exit, BarrierInv, TypeOK
<1>4. /\ at'[m] = "end" /\ at' \in [Thread -> Labels]
      /\ \A n \in Thread \ {m} : at'[n] = at[n]
  BY Zenon, <1>1 DEF MarkerTypes, Goto, Labels
<1>5. \A n \in Thread : Seg(n)' = Seg(n)
  <2>1. ~InRound(m)
    BY Zenon, <1>1, Outside
  <2>2. Seg(m)' = Seg(m)
    BY Zenon, <1>1, <1>3, <1>4, <2>1 DEF Seg, Segment
  <2>3. \A n \in Thread \ {m} : Seg(n)' = Seg(n)
    BY Zenon, <1>3, <1>4 DEF Seg
  <2> QED
    BY Zenon, <2>2, <2>3
<1>6. Now' = "end"
  BY Zenon, <1>1, <1>5, BarrierAssumption DEF Now
<1>7. InStep'
  <2>1. ASSUME NEW n \in Thread
        PROVE  /\ InWait(n)' => at'[n] \in AfterSync
               /\ Gone(n)' <=> at'[n] = "end"
               /\ Seg(n)' = Now'
    <3>1. /\ InWait(n) => at[n] \in AfterSync
          /\ Gone(n) <=> at[n] = "end"
          /\ Seg(n) = Now
      BY Zenon DEF MarkerInv, InStep
    <3>2. CASE n = m
      BY Zenon, <1>1, <1>3, <1>4, <1>5, <1>6, <3>1, <3>2 DEF InWait, Gone
    <3>3. CASE n # m
      <4>1. InWait(n)' <=> InWait(n)
        BY Zenon, <1>3, <3>3 DEF InWait
      <4> QED
        BY Zenon, <1>1, <1>3, <1>4, <1>5, <1>6, <3>1, <3>3, <4>1
    <3> QED
      BY Zenon, <3>2, <3>3
  <2> QED
    BY Zenon, <1>1, <1>2, <2>1 DEF InStep
<1>8. /\ shared = {} /\ num_busy = 0
      /\ \A n \in Thread : ~Busy(n) /\ work[n] = {} /\ todo[n] = {} /\ list[n] = {}
  BY Zenon, <1>1, NoMoreWork
<1>9. \A n \in Thread : LocalOK(n)'
  <2>1. \A n \in Thread : at'[n] \in {"exit", "end"} => delayed[n] = {}
    BY Zenon, <1>1, <1>4 DEF MarkerInv, LocalOK
  <2> QED
    BY Zenon, <1>2, <1>8, <2>1 DEF LocalOK
<1>10. CountOK' /\ SharedOK'
  <2>1. \A n \in Thread : Busy(n)' <=> Busy(n)
    BY Zenon, <1>1, <1>2, <1>4 DEF Busy, Concurrent
  <2>2. (num_busy = Cardinality({n \in Thread : Busy(n)}))'
    BY Zenon, <1>2, <2>1, CountStep DEF MarkerInv
  <2> QED
    BY Zenon, <1>2, <1>6, <1>8, <2>2 DEF CountOK, SharedOK, MarkerInv
<1>11. Tricolour' /\ OnlyReachable' /\ \A o \in Object : Held(o)' <=> Held(o)
  BY Zenon, <1>2, HeapStill
<1>12. MarkerTypes'
  BY Zenon, <1>1, <1>2, <1>4 DEF MarkerTypes
<1>13. DeferredOK' /\ WeakOK'
  BY Zenon, <1>1, <1>2, <1>6 DEF MarkerInv, DeferredOK, WeakOK
<1>14. RoundsOK'
  BY Zenon, <1>1, <1>2, <1>4, <1>6 DEF MarkerInv, RoundsOK
<1>15. RootsOK'
  <2>1. /\ RootsOK /\ root_slices_started > 1
        /\ local \subseteq Object /\ young \subseteq Object
    BY Zenon, <1>1 DEF MarkerInv, RootsOK, MarkerTypes
  <2> QED
    BY Zenon, <1>2, <1>11, <2>1 DEF RootsOK
<1> QED
  BY Zenon, <1>3, <1>7, <1>9, <1>10, <1>11, <1>12, <1>13, <1>14, <1>15
     DEF MarkerInv

(* While the concurrent tasks mark, nobody is at a barrier. *)
LEMMA BesideMutator ==
  ASSUME MarkerInv, stage = "concurrent"
  PROVE  /\ Now = "drain" /\ cleared = {} /\ weak_slices_started = 0
         /\ \A s \in 0 .. 3 : weak_set[s] = Object
         /\ temp \subseteq deferred
<1>1. Now = "drain"
  <2>1. pc[Main] = "out" /\ at[Main] \in Concurrent
    BY Zenon, BarrierAssumption DEF MarkerInv, InStep
  <2>2. Now = Segment(at[Main])
    BY Zenon, <2>1, BarrierAssumption, Outside
  <2> QED
    BY Zenon, <2>1, <2>2 DEF Concurrent, Segment
<1>2. cleared = {} /\ weak_slices_started = 0 /\ temp \subseteq deferred
  BY Zenon, <1>1 DEF MarkerInv, RoundsOK, WeakOK, DeferredOK
<1>3. \A s \in 0 .. 3 : weak_set[s] = Object
  <2>1. \A s \in 0 .. 3 : ~(s < 0)
    OBVIOUS
  <2> QED
    BY Zenon, <1>2, <2>1 DEF MarkerInv, WeakOK
<1> QED
  BY Zenon, <1>1, <1>2, <1>3

(* A step of the mutator. *)
LEMMA MutatorStep ==
  ASSUME MarkerInv, stage = "concurrent", MarkerTypes', Tricolour', OnlyReachable',
         UNCHANGED <<barrier, at, todo, list, more, work, delayed, slices, results,
                     stage, num_busy, temp>>,
         deferred \subseteq deferred'
  PROVE  MarkerInv'
<1>1. UNCHANGED <<cleared, weak_set, weak_slices_started, pc>> /\ UNCHANGED vars
  BY Zenon DEF slices, results, barrier, vars
<1>2. /\ BarrierInv'
      /\ \A u \in Thread : /\ InRound(u)' <=> InRound(u)
                           /\ InWait(u)' <=> InWait(u)
                           /\ Gone(u)' <=> Gone(u)
  <2>1. BarrierInv
    BY Zenon DEF MarkerInv
  <2> QED
    BY Zenon, <1>1, <2>1, StillBarrier
<1>3. /\ Now = "drain" /\ cleared = {} /\ weak_slices_started = 0
      /\ \A s \in 0 .. 3 : weak_set[s] = Object
      /\ temp \subseteq deferred
  BY Zenon, BesideMutator
<1>4. \A n \in Thread : Seg(n)' = Seg(n)
  BY Zenon, <1>2 DEF Seg
<1>5. Now' = "drain"
  BY Zenon, <1>3, <1>4, BarrierAssumption DEF Now
<1>6. InStep'
  <2>1. InStep
    BY Zenon DEF MarkerInv
  <2> QED
    BY Zenon, <1>1, <1>2, <1>3, <1>4, <1>5, <2>1 DEF InStep
<1>7. \A n \in Thread : (Busy(n)' <=> Busy(n)) /\ (Pushes(n)' <=> Pushes(n))
  BY Zenon DEF Busy, Pushes
<1>8. \A n \in Thread : LocalOK(n)'
  <2>1. \A n \in Thread : LocalOK(n)
    BY Zenon DEF MarkerInv
  <2> QED
    BY Zenon, <1>1, <1>7, <2>1 DEF LocalOK
<1>9. CountOK'
  <2>1. CountOK
    BY Zenon DEF MarkerInv
  <2>2. {n \in Thread : Busy(n)'} = {n \in Thread : Busy(n)}
    BY Zenon, <1>7
  <2> QED
    BY Zenon, <1>5, <2>1, <2>2 DEF CountOK
<1>10. SharedOK' /\ RootsOK'
  BY Zenon DEF SharedOK, RootsOK
<1>11. DeferredOK'
  BY Zenon, <1>3, <1>5 DEF DeferredOK
<1>12. RoundsOK'
  BY Zenon, <1>1, <1>3, <1>5 DEF RoundsOK
<1>13. WeakOK'
  <2>1. \A s \in 0 .. 3 : ~(s < 0)
    OBVIOUS
  <2> QED
    BY Zenon, <1>1, <1>3, <1>5, <2>1 DEF WeakOK
<1> QED
  BY Zenon, <1>2, <1>6, <1>8, <1>9, <1>10, <1>11, <1>12, <1>13 DEF MarkerInv

(* The mutator loads or drops a pointer. *)
LEMMA MutatorLoadStep ==
  ASSUME MarkerInv, MutatorLoad
  PROVE  MarkerInv'
<1>1. /\ stage = "concurrent" /\ quiet' = FALSE
      /\ UNCHANGED <<field, young, temp, block, stored, lists, barrier, slices,
                     results, stage, num_busy, at, todo, list, more>>
      /\ UNCHANGED <<marked, work, shared, deferred, delayed, cleared, weak_set,
                     root_slices_started, weak_slices_started>>
      /\ MarkerTypes
  BY Zenon DEF MutatorLoad, Operation, lists, slices, results, MarkerInv
<1>2. local' \subseteq Object
  <2>1. CASE \E o \in local : local' = local \ {o}
    BY Zenon, <1>1, <2>1 DEF MarkerTypes
  <2>2. CASE \E o \in young \cup (UNION {{Key[w], Value[w]} : w \in local \cap Weak})
                   \cup ({field[o] : o \in local \cap Plain} \ {Null}) :
               o \notin local /\ local' = local \cup {o}
    <3> DEFINE A == UNION {{Key[w], Value[w]} : w \in local \cap Weak}
               B == {field[o] : o \in local \cap Plain} \ {Null}
               S == young \cup A \cup B
    <3>1. \A w \in Weak : Key[w] \in Object /\ Value[w] \in Object
      BY Zenon, MarkerAssumption DEF Object
    <3>2. \A o \in Plain : field[o] \in Object \cup {Null}
      BY Zenon, <1>1 DEF MarkerTypes
    <3>3. A \subseteq Object
      BY Zenon, <3>1
    <3>4. B \subseteq Object
      BY Zenon, <3>2
    <3>5. PICK x \in S : x \notin local /\ local' = local \cup {x}
      BY Zenon, <2>2
    <3> HIDE DEF A, B
    <3>6. S \subseteq Object
      BY Zenon, <1>1, <3>3, <3>4 DEF MarkerTypes
    <3> HIDE DEF S
    <3> QED
      BY Zenon, <1>1, <3>5, <3>6 DEF MarkerTypes
  <2> QED
    BY Zenon, <2>1, <2>2 DEF MutatorLoad
<1>3. MarkerTypes'
  <2>1. quiet' \in BOOLEAN
    BY Zenon, <1>1
  <2> QED
    BY Zenon, <1>1, <1>2, <2>1 DEF MarkerTypes
<1>4. \A x : /\ IsGray(x)' <=> IsGray(x)
             /\ IsComing(x)' <=> IsComing(x)
             /\ IsWaiting(x)' <=> IsWaiting(x)
  BY Zenon, <1>1 DEF IsGray, IsComing, IsWaiting
<1>5. \A x : Held(x)' <=> Held(x)
  BY Zenon, <1>1, <1>4 DEF Held
<1>6. Tricolour'
  BY Zenon, <1>1, <1>4, <1>5, TricolourStep
<1>7. OnlyReachable'
  BY Zenon, <1>1 DEF OnlyReachable
<1> QED
  BY Zenon, <1>1, <1>3, <1>6, <1>7, MutatorStep

(* The mutator stores a pointer: in a temporary, which is still to be      *)
(* scanned, or with a write barrier that is still to come.                 *)
LEMMA MutatorStoreStep ==
  ASSUME MarkerInv, MutatorStore
  PROVE  MarkerInv'
<1>1. /\ stage = "concurrent" /\ quiet' = FALSE /\ stored = Null
      /\ UNCHANGED <<temp, block, lists, barrier, slices, results, stage,
                     num_busy, at, todo, list, more>>
      /\ UNCHANGED <<marked, work, shared, deferred, delayed, cleared, weak_set,
                     root_slices_started, weak_slices_started>>
      /\ MarkerTypes
  BY Zenon DEF MutatorStore, Operation, lists, slices, results, MarkerInv
<1>2. Null \notin Object /\ temp \subseteq deferred
  BY Zenon, <1>1, BesideMutator, MarkerAssumption
<1>3. \A x : /\ IsGray(x)' <=> IsGray(x)
             /\ IsWaiting(x)' <=> IsWaiting(x)
  BY Zenon, <1>1 DEF IsGray, IsWaiting
<1>4. \A x \in Object : Held(x) => Held(x)'
  BY Zenon, <1>1, <1>2 DEF Held, IsComing
<1>5. MarkerTypes' /\ Tricolour'
  <2>1. CASE /\ \/ \E o \in local \ young : young' = young \cup {o}
                \/ \E o \in young : young' = young \ {o}
             /\ UNCHANGED <<field, local, stored>>
    <3>1. young' \subseteq Object
      BY <1>1, <2>1 DEF MarkerTypes
    <3>2. quiet' \in BOOLEAN
      BY Zenon, <1>1
    <3>3. MarkerTypes'
      BY Zenon, <1>1, <2>1, <3>1, <3>2 DEF MarkerTypes
    <3>4. Tricolour'
      BY Zenon, <1>1, <1>3, <1>4, <2>1, TricolourStep
    <3> QED
      BY Zenon, <3>3, <3>4
  <2>2. ASSUME NEW o \in local \cap Plain, NEW v \in local \cup {Null},
               field' = [field EXCEPT ![o] = v],
               stored' = IF o \in temp THEN Null ELSE v,
               local' \in {local, local \ {v}},
               UNCHANGED young
        PROVE  MarkerTypes' /\ Tricolour'
    <3>1. /\ field' \in [Plain -> Object \cup {Null}] /\ local' \subseteq Object
          /\ stored' \in Object \cup {Null} /\ quiet' \in BOOLEAN
          /\ field'[o] = v /\ \A x \in Plain \ {o} : field'[x] = field[x]
      BY Zenon, <1>1, <2>2 DEF MarkerTypes
    <3>2. MarkerTypes'
      BY Zenon, <1>1, <2>2, <3>1 DEF MarkerTypes
    <3>3. ASSUME NEW x \in marked'
          PROVE  IsGray(x)' \/ Done(x)'
      <4>1. x \in marked /\ x \in Object
        BY Zenon, <1>1, <3>3 DEF MarkerTypes
      <4>2. IsGray(x) \/ Done(x)
        BY Zenon, <4>1 DEF MarkerInv, Tricolour
      <4>3. CASE x = o /\ o \in temp
        BY Zenon, <1>1, <1>2, <4>3 DEF IsGray
      <4>4. CASE x = o /\ o \notin temp
        <5>1. x \notin Weak /\ x \in Plain
          BY Zenon, <4>4, MarkerAssumption
        <5>2. Held(v)'
          BY Zenon, <2>2, <4>4 DEF Held, IsComing
        <5> QED
          BY Zenon, <3>1, <4>4, <5>1, <5>2 DEF Done
      <4>5. CASE x # o /\ Done(x)
        <5>1. x \in Plain => field'[x] = field[x] /\ field[x] \in Object \cup {Null}
          BY Zenon, <1>1, <3>1, <4>5 DEF MarkerTypes
        <5>2. x \in Weak => Value[x] \in Object
          BY Zenon, MarkerAssumption
        <5> QED
          BY Zenon, <1>1, <1>3, <1>4, <4>5, <5>1, <5>2 DEF Done
      <4> QED
        BY Zenon, <1>3, <4>2, <4>3, <4>4, <4>5
    <3> QED
      BY Zenon, <3>2, <3>3 DEF Tricolour
  <2> QED
    BY Zenon, <2>1, <2>2 DEF MutatorStore
<1>6. OnlyReachable'
  BY Zenon, <1>1 DEF OnlyReachable
<1> QED
  BY Zenon, <1>1, <1>5, <1>6, MutatorStep

(* The write barrier. *)
LEMMA WriteBarrierStep ==
  ASSUME MarkerInv, WriteBarrier
  PROVE  MarkerInv'
<1>1. /\ stored # Null /\ stored' = Null
      /\ UNCHANGED <<field, local, young, temp, ops, quiet, work, delayed, barrier,
                     slices, results, stage, num_busy, at, todo, list, more>>
      /\ UNCHANGED <<cleared, weak_set, root_slices_started, weak_slices_started>>
      /\ MarkerTypes
  BY Zenon DEF WriteBarrier, slices, results, MarkerInv
<1>2. stage = "concurrent" /\ ~quiet /\ stored \in Object
  BY Zenon, <1>1 DEF MarkerInv, SharedOK, OnlyReachable, MarkerTypes
<1>3. /\ marked \subseteq marked' /\ deferred \subseteq deferred'
      /\ stored \in marked' \cup deferred'
      /\ \A x : IsGray(x) => IsGray(x)'
      /\ \A x \in marked' : x \in marked \/ IsGray(x)'
      /\ marked' \subseteq Object /\ deferred' \subseteq Plain \cup Code
      /\ shared' \subseteq SUBSET Object /\ block' \subseteq Object
  <2>1. CASE stored \in marked /\ UNCHANGED <<marked, block, shared, deferred>>
    BY Zenon, <1>1, <2>1 DEF IsGray, MarkerTypes
  <2>2. CASE /\ stored \in Code \ marked
             /\ deferred' = deferred \cup {stored}
             /\ UNCHANGED <<marked, block, shared>>
    BY Zenon, <1>1, <2>2 DEF IsGray, MarkerTypes
  <2>3. CASE /\ stored \notin marked \cup Code
             /\ marked' = marked \cup {stored}
             /\ IF Cardinality(block) + 1 = BlockSize
                THEN shared' = shared \cup {block \cup {stored}} /\ block' = {}
                ELSE block' = block \cup {stored} /\ UNCHANGED shared
             /\ UNCHANGED deferred
    <3>0. PICK v \in Object : v = stored
      BY Zenon, <1>2
    <3>1. \/ shared' = shared \cup {block \cup {v}} /\ block' = {}
          \/ block' = block \cup {v} /\ shared' = shared
      BY Zenon, <2>3, <3>0
    <3>2. /\ shared \subseteq shared'
          /\ block \cup {v} \in shared' \/ block \cup {v} \subseteq block'
          /\ shared' \subseteq SUBSET Object /\ block' \subseteq Object
      BY Zenon, <1>1, <1>2, <3>1 DEF MarkerTypes
    <3>3. IsGray(v)' /\ \A x : IsGray(x) => IsGray(x)'
      BY Zenon, <1>1, <2>3, <3>2 DEF IsGray
    <3> QED
      BY Zenon, <1>1, <1>2, <2>3, <3>0, <3>2, <3>3 DEF MarkerTypes
  <2> QED
    BY Zenon, <2>1, <2>2, <2>3 DEF WriteBarrier
<1>4. \A x : /\ Held(x) => Held(x)'
             /\ IsWaiting(x)' <=> IsWaiting(x)
  BY Zenon, <1>1, <1>3 DEF Held, IsComing, IsWaiting
<1>5. Tricolour'
  BY Zenon, <1>1, <1>3, <1>4, TricolourStep
<1>6. MarkerTypes'
  <2>1. stored' \in Object \cup {Null}
    BY Zenon, <1>1
  <2> QED
    BY Zenon, <1>1, <1>3, <2>1 DEF MarkerTypes
<1>7. OnlyReachable'
  BY Zenon, <1>1, <1>2 DEF OnlyReachable
<1> QED
  BY Zenon, <1>1, <1>2, <1>3, <1>5, <1>6, <1>7, MutatorStep

(* MarkObjects() starts the parallel tasks. *)
LEMMA MarkObjectsStep ==
  ASSUME CountFacts, MarkerInv, MarkObjects
  PROVE  MarkerInv'
<1>1. /\ stage = "concurrent" /\ stage' = "parallel" /\ stored = Null
      /\ root_slices_started' = 0 /\ weak_slices_started' = 0 /\ num_busy' = num_threads
      /\ shared' = shared \cup ({block} \ {{}}) /\ block' = {}
      /\ at' = [n \in Thread |-> "slice"]
      /\ UNCHANGED <<field, local, young, temp, stored, ops, quiet, marked, work,
                     deferred, delayed, barrier, results, todo, list, more>>
      /\ UNCHANGED <<cleared, weak_set, pc>> /\ UNCHANGED vars
      /\ MarkerTypes
      /\ \A n \in Thread : at[n] = "drained" /\ todo[n] = {} /\ pc[n] = "out"
  BY Zenon DEF MarkObjects, results, MarkerInv, At, barrier, vars
<1>2. /\ Now = "drain" /\ cleared = {} /\ \A s \in 0 .. 3 : weak_set[s] = Object
  BY Zenon, <1>1, BesideMutator
<1>3. /\ BarrierInv'
      /\ \A u \in Thread : ~InRound(u)' /\ ~InWait(u)' /\ ~Gone(u)'
  <2>1. BarrierInv
    BY Zenon DEF MarkerInv
  <2>2. BarrierInv'
    BY Zenon, <1>1, <2>1, StillBarrier
  <2> QED
    BY Zenon, <1>1, <2>2 DEF InRound, InWait, Gone
<1>4. \A n \in Thread : at'[n] = "slice"
  BY Zenon, <1>1
<1>5. Now' = "drain" /\ \A n \in Thread : Seg(n)' = "drain"
  BY Zenon, <1>3, <1>4, BarrierAssumption DEF Now, Seg, Segment
<1>6. InStep'
  BY Zenon, <1>1, <1>3, <1>4, <1>5 DEF InStep
<1>7. \A n \in Thread : LocalOK(n)'
  <2>1. \A n \in Thread : list[n] = {} /\ todo[n] = {}
    BY Zenon, <1>1 DEF MarkerInv, LocalOK
  <2> QED
    BY Zenon, <1>1, <1>4, <2>1 DEF LocalOK, Pushes
<1>8. CountOK'
  <2>1. {n \in Thread : Busy(n)'} = Thread
    BY Zenon, <1>4 DEF Busy, Concurrent
  <2> QED
    BY Zenon, <1>1, <1>5, <2>1 DEF CountOK, num_threads
<1>9. SharedOK'
  <2>1. Pushes(Main)'
    BY Zenon, <1>4, BarrierAssumption DEF Pushes
  <2> QED
    BY Zenon, <1>1, <2>1, BarrierAssumption DEF SharedOK
<1>10. \A x : /\ IsGray(x)' <=> IsGray(x)
              /\ IsComing(x)' <=> IsComing(x)
              /\ IsWaiting(x)' <=> IsWaiting(x)
  <2>1. \A x : /\ IsComing(x)' <=> IsComing(x)
               /\ IsWaiting(x)' <=> IsWaiting(x)
    BY Zenon, <1>1 DEF IsComing, IsWaiting
  <2>2. \A x : IsGray(x)' <=> IsGray(x)
    BY Zenon, <1>1 DEF IsGray
  <2> QED
    BY Zenon, <2>1, <2>2
<1>11. \A x : (Held(x)' <=> Held(x)) /\ (Known(x)' <=> Known(x))
  BY Zenon, <1>1, <1>10 DEF Held, Known
<1>12. Tricolour'
  BY Zenon, <1>1, <1>10, <1>11, TricolourStep
<1>13. OnlyReachable'
  <2>1. Reachable' = Reachable
    BY Zenon, <1>1 DEF Reachable, Closed
  <2> QED
    BY Zenon, <1>1, <1>11, <2>1 DEF OnlyReachable, MarkerInv
<1>14. MarkerTypes'
  <2>1. /\ stage' \in {"concurrent", "parallel"}
        /\ root_slices_started' \in Nat /\ weak_slices_started' \in Nat
    BY Zenon, <1>1, NoneStarted
  <2>2. at' \in [Thread -> Labels]
    <3>1. "slice" \in Labels
      BY Zenon DEF Labels, Phase1
    <3> QED
      BY Zenon, <1>1, <3>1
  <2>3. shared' \subseteq SUBSET Object /\ block' \subseteq Object
    <3>1. shared \subseteq SUBSET Object /\ block \in SUBSET Object
      BY Zenon, <1>1 DEF MarkerTypes
    <3>2. shared \cup ({block} \ {{}}) \subseteq SUBSET Object /\ {} \subseteq Object
      BY Zenon, <3>1
    <3>3. shared' = shared \cup ({block} \ {{}}) /\ block' = {}
      BY Zenon, <1>1
    <3> QED
      BY Zenon, <3>2, <3>3
  <2> QED
    BY Zenon, <1>1, <2>1, <2>2, <2>3 DEF MarkerTypes
<1>15. DeferredOK' /\ RoundsOK'
  BY Zenon, <1>1, <1>2, <1>4, <1>5 DEF DeferredOK, RoundsOK
<1>16. RootsOK'
  <2>1. root_slices_started' = 0
    BY Zenon, <1>1
  <2>2. ~(root_slices_started' > 0) /\ ~(root_slices_started' > 1)
    BY Zenon, <2>1, NoneStarted
  <2> QED
    BY Zenon, <1>4, <2>2 DEF RootsOK
<1>17. WeakOK'
  BY Zenon, <1>1, <1>2, <1>5, NoneStarted DEF WeakOK
<1> QED
  BY Zenon, <1>3, <1>6, <1>7, <1>8, <1>9, <1>12, <1>13, <1>14, <1>15, <1>16,
     <1>17
  DEF MarkerInv

(* The start of a marking. *)
LEMMA MarkerInitInv ==
  ASSUME CountFacts, MarkerInit
  PROVE  MarkerInv
<1>1. PICK h \in Heaps : /\ field = h.field /\ local = h.local
                         /\ young = h.young /\ temp = h.temp /\ ops = h.ops
  BY Zenon DEF MarkerInit
<1>2. /\ Init /\ stage \in {"concurrent", "parallel"}
      /\ deferred = IF stage = "concurrent" THEN temp ELSE {}
      /\ cleared = {} /\ weak_set = [s \in 0 .. 3 |-> Object]
      /\ marked = {} /\ shared = {} /\ block = {}
      /\ work = [n \in Thread |-> {}] /\ delayed = [n \in Thread |-> {}]
      /\ stored = Null /\ quiet = TRUE
      /\ root_slices_started = 0 /\ weak_slices_started = 0 /\ num_busy = num_threads
      /\ at = [n \in Thread |-> "slice"]
      /\ todo = [n \in Thread |-> {}] /\ list = [n \in Thread |-> {}]
      /\ more = [n \in Thread |-> FALSE]
  BY Zenon, NoneStarted DEF MarkerInit
<1>3. /\ field \in [Plain -> Object \cup {Null}] /\ local \subseteq Object
      /\ young \subseteq Object /\ temp \subseteq Plain /\ temp \subseteq local
      /\ Null \notin Object
  BY Zenon, <1>1, MarkerAssumption
<1>4. /\ BarrierInv
      /\ \A u \in Thread : ~InRound(u) /\ ~InWait(u) /\ ~Gone(u) /\ pc[u] = "out"
  BY Zenon, <1>2, InitBarrier DEF Init, InRound, InWait, Gone
<1>5. \A n \in Thread : at[n] = "slice"
  BY Zenon, <1>2
<1>6. Now = "drain" /\ \A n \in Thread : Seg(n) = "drain"
  BY Zenon, <1>4, <1>5, BarrierAssumption DEF Now, Seg, Segment
<1>7. InStep
  BY Zenon, <1>4, <1>5, <1>6 DEF InStep, Concurrent
<1>8. \A n \in Thread : LocalOK(n)
  BY Zenon, <1>2, <1>5 DEF LocalOK
<1>9. CountOK
  <2>1. {n \in Thread : Busy(n)} = Thread
    BY Zenon, <1>5 DEF Busy, Concurrent
  <2> QED
    BY Zenon, <1>2, <1>6, <2>1 DEF CountOK, num_threads
<1>10. SharedOK /\ Tricolour
  BY Zenon, <1>2 DEF SharedOK, Tricolour
<1>11. MarkerTypes
  <2>1. deferred \subseteq Plain \cup Code
    BY Zenon, <1>2, <1>3
  <2>2. /\ work \in [Thread -> SUBSET Object] /\ todo \in [Thread -> SUBSET Object]
        /\ delayed \in [Thread -> SUBSET Weak] /\ list \in [Thread -> SUBSET Weak]
        /\ more \in [Thread -> BOOLEAN] /\ at \in [Thread -> Labels]
    BY Zenon, <1>2 DEF Labels, Phase1
  <2>3. weak_set \in [0 .. 3 -> SUBSET Object]
    BY Zenon, <1>2
  <2> QED
    BY Zenon, <1>2, <1>3, <2>1, <2>2, <2>3 DEF MarkerTypes
<1>12. DeferredOK /\ RoundsOK
  BY Zenon, <1>2, <1>5, <1>6 DEF DeferredOK, RoundsOK
<1>13. RootsOK
  <2>1. ~(root_slices_started > 0) /\ ~(root_slices_started > 1)
    BY <1>2
  <2> QED
    BY Zenon, <1>5, <2>1 DEF RootsOK
<1>14. WeakOK
  <2>1. \A s \in 0 .. 3 : ~(s < 0) /\ weak_set[s] = Object
    BY <1>2
  <2> QED
    BY Zenon, <1>2, <1>6, <2>1 DEF WeakOK
<1>15. OnlyReachable
  <2>1. \A n \in Thread : work[n] = {} /\ todo[n] = {} /\ delayed[n] = {} /\ list[n] = {}
    BY Zenon, <1>2
  <2>2. \A o \in Object : Known(o) => o \in local
    BY Zenon, <1>2, <1>3, <2>1 DEF Known, IsGray, IsComing, IsWaiting
  <2>3. local \subseteq Reachable
    BY Zenon, <1>11, ReachableClosed DEF Closed
  <2> QED
    BY Zenon, <1>2, <2>2, <2>3 DEF OnlyReachable
<1> QED
  BY Zenon, <1>4, <1>7, <1>8, <1>9, <1>10, <1>11, <1>12, <1>13, <1>14, <1>15
     DEF MarkerInv

(* Every step of a task keeps the invariant. *)
LEMMA TaskInductive ==
  ASSUME CountFacts, MarkerInv, NEW m \in Thread, Task(m) \/ SpuriousWakeup(m)
  PROVE  MarkerInv'
<1>0. BarrierInv
  BY Zenon DEF MarkerInv
<1>1. ASSUME NEW l, NEW next, Sync(m, l, next), SyncsTo(m, l, next)
      PROVE  MarkerInv'
  <2>1. SyncCall(m, l, next) /\ (SyncWait(m) \/ SyncLast(m))
    BY Zenon, <1>1 DEF Sync, SyncCall
  <2> QED
    BY Zenon, <2>1, MarkerSyncWait, MarkerSyncLast
<1>2. ASSUME NEW l, NEW next, ProcessDeferredMarking(m, l, next),
             \/ l = "deferred" /\ next = "enter"
             \/ l = "final_deferred" /\ next = "sync4"
      PROVE  MarkerInv'
  <2>1. /\ At(m, l) /\ l \in {"deferred", "final_deferred"}
        /\ UNCHANGED <<list, more, barrier, mutator, slices, results, stage, num_busy>>
    BY Zenon, <1>2 DEF ProcessDeferredMarking
  <2>2. CASE deferred = {} /\ Goto(m, next) /\ UNCHANGED <<lists, todo>>
    BY Zenon, <1>2, <2>1, <2>2, DeferredEndStep
  <2>3. CASE \E o \in deferred : /\ deferred' = deferred \ {o}
                                 /\ marked' = marked \cup {o}
                                 /\ Scan(m, o, o \notin marked)
                                 /\ UNCHANGED <<work, shared, at>>
    BY Zenon, <2>1, <2>3, DeferredOneStep
  <2> QED
    BY Zenon, <1>2, <2>2, <2>3 DEF ProcessDeferredMarking
<1>3. CASE DrainMarkingStack(m)
  <2>1. CASE \E l \in {"enter", "loop", "again"}, o \in Object :
               At(m, l) /\ PopAndScan(m, o)
    BY Zenon, <2>1, PopAndScanStep
  <2>2. CASE /\ \/ At(m, "enter") /\ NoWork(m) /\ StartPending(m, "enter_pending")
                \/ At(m, "loop") /\ NoWork(m) /\ StartPending(m, "loop_pending")
             /\ UNCHANGED <<marked, work, shared, deferred, todo, barrier, mutator,
                            slices, results, stage, num_busy>>
    BY Zenon, <2>2, StartPendingStep
  <2>3. CASE PendingOne(m, "enter_pending") \/ PendingOne(m, "loop_pending")
    BY Zenon, <2>3, PendingOneStep
  <2>4. CASE /\ list[m] = {}
             /\ \/ At(m, "enter_pending")
                   /\ Goto(m, IF more[m] THEN "again" ELSE "drained")
                \/ At(m, "loop_pending") /\ Goto(m, "again")
             /\ UNCHANGED <<lists, todo, list, more, barrier, mutator, slices,
                            results, stage, num_busy>>
    <3>1. CASE At(m, "enter_pending") /\ Goto(m, IF more[m] THEN "again" ELSE "drained")
      BY Zenon, <2>4, <3>1, DrainControlStep DEF DrainsTo
    <3>2. CASE At(m, "loop_pending") /\ Goto(m, "again")
      BY Zenon, <2>4, <3>2, DrainControlStep DEF DrainsTo
    <3> QED
      BY Zenon, <2>4, <3>1, <3>2
  <2>5. CASE /\ At(m, "again") /\ NoWork(m) /\ Goto(m, "drained")
             /\ UNCHANGED <<lists, todo, list, more, barrier, mutator, slices,
                            results, stage, num_busy>>
    <3>1. list[m] = {}
      BY Zenon, <2>5 DEF MarkerInv, LocalOK, At
    <3> QED
      BY Zenon, <2>5, <3>1, DrainControlStep DEF DrainsTo
  <2> QED
    BY Zenon, <1>3, <2>1, <2>2, <2>3, <2>4, <2>5 DEF DrainMarkingStack
<1>4. CASE FindWork(m)
  <2>1. /\ stage = "parallel"
        /\ UNCHANGED <<lists, todo, list, more, barrier, mutator, slices, results,
                       stage>>
    BY Zenon, <1>4 DEF FindWork
  <2>2. \E k, l : At(m, k) /\ Goto(m, l) /\ DrainsTo(m, k, l)
                  /\ k \in {"drained", "spin", "check", "add"}
    <3>1. CASE /\ At(m, "drained") /\ num_busy' = num_busy - 1
               /\ Goto(m, IF num_busy = 1 THEN "sync1" ELSE "spin")
      BY Zenon, <2>1, <3>1 DEF DrainsTo
    <3>2. CASE At(m, "spin") /\ Goto(m, "check") /\ UNCHANGED num_busy
      BY Zenon, <2>1, <3>2 DEF DrainsTo
    <3>3. CASE /\ At(m, "check") /\ UNCHANGED num_busy
               /\ Goto(m, IF num_busy = 0 THEN "sync1" ELSE "add")
      BY Zenon, <2>1, <3>3 DEF DrainsTo
    <3>4. CASE GetBusy(m)
      BY Zenon, <2>1, <3>4 DEF DrainsTo, GetBusy
    <3> QED
      BY Zenon, <1>4, <3>1, <3>2, <3>3, <3>4 DEF FindWork
  <2>3. PICK k, l : At(m, k) /\ Goto(m, l) /\ DrainsTo(m, k, l)
                    /\ k \in {"drained", "spin", "check", "add"}
    BY Zenon, <2>2
  <2>4. list[m] = {}
    BY Zenon, <2>3 DEF MarkerInv, LocalOK, At
  <2> QED
    BY Zenon, <2>1, <2>3, <2>4, DrainControlStep
<1>5. CASE MarkingRound(m)
  <2>1. CASE Sync(m, "sync1", "round") \/ Sync(m, "sync2", "decide")
    BY Zenon, <1>1, <2>1 DEF SyncsTo
  <2>2. CASE /\ At(m, "round") /\ StartPending(m, "round_pending")
             /\ UNCHANGED <<marked, work, shared, deferred, todo, barrier, mutator,
                            slices, results, stage, num_busy>>
    BY Zenon, <2>2, StartPendingStep
  <2>3. CASE PendingOne(m, "round_pending")
    BY Zenon, <2>3, PendingOneStep
  <2>4. CASE /\ At(m, "round_pending") /\ list[m] = {}
             /\ num_busy' = IF more[m] THEN num_busy + 1 ELSE num_busy
             /\ Goto(m, "sync2")
             /\ UNCHANGED <<lists, todo, list, more, barrier, mutator, slices,
                            results, stage>>
    BY Zenon, <2>4, RoundEndStep
  <2>5. CASE /\ At(m, "decide")
             /\ more' = [more EXCEPT ![m] = @ \/ num_busy > 0]
             /\ num_busy' = IF ~more[m] /\ num_busy > 0 THEN num_busy + 1 ELSE num_busy
             /\ Goto(m, "sync3")
             /\ UNCHANGED <<lists, todo, list, barrier, mutator, slices, results,
                            stage>>
    BY Zenon, <2>5, DecideStep
  <2>6. CASE LastSync(m)
    BY Zenon, <1>1, <2>6 DEF LastSync, SyncsTo
  <2> QED
    BY Zenon, <1>5, <2>1, <2>2, <2>3, <2>4, <2>5, <2>6 DEF MarkingRound
<1>6. CASE Sync(m, "sync4", "weak") \/ Sync(m, "sync5", "finalize")
  BY Zenon, <1>1, <1>6 DEF SyncsTo
<1>7. CASE InBarrier(m) \/ SpuriousWakeup(m)
  <2>1. UNCHANGED <<lists, todo, list, more, mutator, slices, results, stage, num_busy>>
    BY Zenon, <1>7 DEF InBarrier, SpuriousWakeup
  <2>2. CASE Exit(m) /\ At(m, "exit") /\ Goto(m, "end")
    BY Zenon, <2>1, <2>2, MarkerExit
  <2>3. CASE (Wakes(m, "notified") \/ Wakes(m, "waiting")) /\ UNCHANGED at
    <3>1. /\ BarrierInv'
          /\ \A u \in Thread : (InRound(u)' <=> InRound(u)) /\ (Gone(u)' <=> Gone(u))
      BY Zenon, <1>0, <2>3, WakesStep
    <3>2. \A u \in Thread : /\ InWait(u)' => InWait(u)
                            /\ pc[u] = "out" => pc'[u] = "out"
      BY Zenon, <1>0, <2>3 DEF Wakes, InWait, BarrierInv, TypeOK
    <3> QED
      BY Zenon, <2>1, <2>3, <3>1, <3>2, BarrierOnly
  <2>4. CASE ExitLast(m) /\ UNCHANGED at
    <3>1. /\ BarrierInv'
          /\ \A u \in Thread : (InRound(u)' <=> InRound(u)) /\ (Gone(u)' <=> Gone(u))
      BY Zenon, <1>0, <2>4, ExitLastStep
    <3>2. \A u \in Thread : /\ InWait(u)' => InWait(u)
                            /\ pc[u] = "out" => pc'[u] = "out"
      BY Zenon, <1>0, <2>4 DEF ExitLast, InWait, BarrierInv, TypeOK
    <3> QED
      BY Zenon, <2>1, <2>4, <3>1, <3>2, BarrierOnly
  <2>5. ASSUME NEW place \in {"exited", "destructor", "destructor_notified"},
               Destroy(m, place), UNCHANGED at
        PROVE  MarkerInv'
    <3>1. /\ BarrierInv'
          /\ \A u \in Thread : (InRound(u)' <=> InRound(u)) /\ (Gone(u)' <=> Gone(u))
      BY Zenon, <1>0, <2>5, DestroyStep
    <3>2. \A u \in Thread : /\ InWait(u)' => InWait(u)
                            /\ pc[u] = "out" => pc'[u] = "out"
      BY Zenon, <1>0, <2>5 DEF Destroy, InWait, BarrierInv, TypeOK
    <3> QED
      BY Zenon, <2>1, <2>5, <3>1, <3>2, BarrierOnly
  <2> QED
    BY Zenon, <1>7, <2>2, <2>3, <2>4, <2>5 DEF InBarrier, SpuriousWakeup
<1> QED
  BY Zenon, <1>2, <1>3, <1>4, <1>5, <1>6, <1>7, IterateRootsStep,
     MarkObjectStep,
     IterateWeakRootsStep, FinalizeStep DEF Task

(* So does every step of the marker. *)
LEMMA MarkerInductive ==
  ASSUME CountFacts, MarkerInv, [MarkerNext]_marker_vars
  PROVE  MarkerInv'
<1>1. ASSUME UNCHANGED marker_vars PROVE MarkerInv'
  <2>1. /\ UNCHANGED vars
        /\ UNCHANGED <<at, lists, todo, list, more, mutator, slices, results, stage,
                       num_busy>>
    BY Zenon, <1>1 DEF marker_vars, barrier
  <2>2. BarrierInv /\ pc' = pc
    BY Zenon, <2>1 DEF MarkerInv, vars
  <2>3. /\ BarrierInv'
        /\ \A u \in Thread : /\ InRound(u)' <=> InRound(u)
                             /\ InWait(u)' <=> InWait(u)
                             /\ Gone(u)' <=> Gone(u)
    BY Zenon, <2>1, <2>2, StillBarrier
  <2> QED
    BY Zenon, <2>1, <2>2, <2>3, BarrierOnly
<1> QED
  BY Zenon, <1>1, TaskInductive, MutatorLoadStep, MutatorStoreStep,
     WriteBarrierStep,
     MarkObjectsStep DEF MarkerNext, Finished

(* num_busy_ is what PhasesInStep says, and there is no work after phase 1. *)
LEMMA InvPhases ==
  ASSUME CountFacts, MarkerInv
  PROVE  PhasesInStep
<1> DEFINE B == {m \in Thread :
                   \/ at[m] \in Phase1 \ (Idle \cup {"sync2", "decide", "sync3"})
                   \/ at[m] \in {"sync2", "decide", "sync3"} /\ more[m]}
<1>1. B = {m \in Thread : Busy(m)}
  <2>1. \A m \in Thread : at[m] \in Phase1 \ (Idle \cup {"sync2", "decide", "sync3"})
                          <=> at[m] \in Concurrent \cup {"deferred"}
    BY Zenon DEF Phase1, Idle, Concurrent
  <2> QED
    BY Zenon, <2>1 DEF Busy
<1>2. num_busy = Cardinality(B)
  BY Zenon, <1>1 DEF MarkerInv, CountOK
<1>3. ASSUME NEW m \in Thread, at[m] \notin Phase1, pc[m] = "out"
      PROVE  /\ \A n \in Thread : work[n] = {} /\ at[n] \notin Phase1
             /\ shared = {} /\ block = {}
  <2>1. Now \in {"final", "weak", "end"}
    <3>1. at[m] \in Labels /\ Now = Segment(at[m])
      BY Zenon, <1>3, Outside
    <3> QED
      BY Zenon, <1>3, <3>1 DEF Labels, Segment
  <2>2. /\ stage = "parallel" /\ shared = {}
        /\ \A n \in Thread : work[n] = {} /\ at[n] \notin Phase1
    BY Zenon, <2>1, NoMoreWork
  <2> QED
    BY Zenon, <2>2 DEF MarkerInv, SharedOK
<1> QED
  BY Zenon, <1>2, <1>3 DEF PhasesInStep

(* In the last two segments the marked objects are closed. *)
LEMMA MarkingComplete ==
  ASSUME CountFacts, MarkerInv, Now \in {"weak", "end"}
  PROVE  /\ Reachable \subseteq marked
         /\ quiet => marked = Reachable
         /\ \A w \in marked \cap Weak : Key[w] \in marked \/ IsWaiting(w)
         /\ \A n \in Thread : list[n] = {}
<1>1. /\ stage = "parallel" /\ shared = {}
      /\ \A n \in Thread : /\ at[n] \notin Phase1
                           /\ work[n] = {} /\ todo[n] = {} /\ list[n] = {}
                           /\ \A w \in delayed[n] : Key[w] \notin marked
  BY Zenon, NoMoreWork
<1>2. /\ deferred = {} /\ stored = Null /\ block = {} /\ MarkerTypes
      /\ \A w \in cleared : Key[w] \notin marked
  BY Zenon, <1>1 DEF MarkerInv, DeferredOK, SharedOK, RoundsOK
<1>3. \A o : ~IsGray(o) /\ (IsComing(o) => o = Null)
  BY Zenon, <1>1, <1>2 DEF IsGray, IsComing
<1>4. \A o \in Object : Held(o) => o \in marked
  BY Zenon, <1>3, MarkerAssumption DEF Held
<1>5. \A w \in Weak : IsWaiting(w) => Key[w] \notin marked
  BY Zenon, <1>1, <1>2 DEF IsWaiting
<1>6. \A o \in marked : Done(o)
  BY Zenon, <1>3 DEF MarkerInv, Tricolour
<1>7. local \cup young \subseteq marked
  <2>1. root_slices_started > 1
    <3>1. at[Main] \notin {"slice", "in_slice"}
      BY Zenon, <1>1, BarrierAssumption DEF Phase1
    <3> QED
      BY Zenon, <1>1, <3>1, BarrierAssumption DEF MarkerInv, RootsOK
  <2>2. root_slices_started > 0
    BY <1>2, <2>1 DEF MarkerTypes
  <2> QED
    BY Zenon, <1>1, <1>2, <1>4, <2>1, <2>2 DEF MarkerInv, RootsOK, MarkerTypes
<1>8. ASSUME NEW o \in marked \cap Plain
      PROVE  field[o] \in marked \cup {Null}
  BY Zenon, <1>2, <1>4, <1>6 DEF Done, MarkerTypes
<1>9. ASSUME NEW w \in marked \cap Weak
      PROVE  /\ Key[w] \in marked => Value[w] \in marked
             /\ Key[w] \in marked \/ IsWaiting(w)
  <2>1. Value[w] \in Object
    BY Zenon, MarkerAssumption
  <2> QED
    BY Zenon, <1>4, <1>5, <1>6, <2>1 DEF Done
<1>10. Closed(marked) /\ marked \in SUBSET Object
  BY Zenon, <1>2, <1>7, <1>8, <1>9 DEF Closed, MarkerTypes
<1>11. Reachable \subseteq marked
  BY Zenon, <1>10 DEF Reachable
<1>12. quiet => marked \subseteq Reachable
  BY Zenon, <1>10 DEF MarkerInv, OnlyReachable, Known
<1> QED
  BY Zenon, <1>1, <1>9, <1>11, <1>12

(* Marking is complete when its result is used. *)
LEMMA InvMarks ==
  ASSUME CountFacts, MarkerInv
  PROVE  MarksWhatIsReachable
<1> SUFFICES ASSUME NEW m \in Thread, pc[m] = "out",
                    at[m] \in {"weak", "sync5", "finalize", "exit", "end"}
             PROVE  Reachable \subseteq marked /\ (quiet => marked = Reachable)
  BY Zenon DEF MarksWhatIsReachable
<1>1. Now = Segment(at[m])
  BY Zenon, Outside
<1>2. Now \in {"weak", "end"}
  BY Zenon, <1>1 DEF Segment
<1> QED
  BY Zenon, <1>2, MarkingComplete

(* The fate of the weak properties and of the weak references. *)
LEMMA InvWeak ==
  ASSUME CountFacts, MarkerInv
  PROVE  WeakByFateOfKey
<1>1. ASSUME NEW w \in cleared
      PROVE  Key[w] \notin marked \cup Reachable
  <2>1. Key[w] \notin marked /\ Now = "end"
    BY Zenon DEF MarkerInv, RoundsOK
  <2> QED
    BY Zenon, <2>1, MarkingComplete
<1>2. ASSUME destroyed
      PROVE  /\ \A w \in Reachable \cap Weak : w \in cleared <=> Key[w] \notin marked
             /\ \A s \in DOMAIN weak_set : weak_set[s] = marked
  <2>1. Now = "end" /\ remaining = 0
    <3>1. done /\ pc[Main] = "end" /\ remaining = 0
      BY Zenon, <1>2 DEF MarkerInv, BarrierInv, EndInv
    <3>2. Gone(Main) /\ ~InRound(Main)
      BY Zenon, <3>1 DEF Gone, InRound, InWait
    <3>3. at[Main] = "end"
      BY Zenon, <3>2, BarrierAssumption DEF MarkerInv, InStep
    <3> QED
      BY Zenon, <3>1, <3>2, <3>3 DEF Now, Seg, Segment
  <2>2. Counted = Thread
    <3>1. Counted \in SUBSET Thread
      BY Zenon DEF Counted
    <3>2. /\ remaining = num_threads - Cardinality(Counted)
          /\ Cardinality(Counted) \in 0 .. num_threads /\ num_threads \in Nat
          /\ Cardinality(Counted) = num_threads => Counted = Thread
      BY Zenon, <3>1 DEF MarkerInv, BarrierInv, CountFacts
    <3> QED
      BY <2>1, <3>2
  <2>3. ASSUME NEW n \in Thread
        PROVE  delayed[n] = {}
    <3>1. InRound(n) \/ Gone(n)
      BY Zenon, <2>2 DEF Counted
    <3>2. Seg(n) = "end" /\ (Gone(n) <=> at[n] = "end")
      BY Zenon, <2>1 DEF MarkerInv, InStep
    <3>3. ~InRound(n)
      BY Zenon, <3>2 DEF Seg, BeforeSync
    <3>4. at[n] = "end" /\ LocalOK(n)
      BY Zenon, <3>1, <3>2, <3>3 DEF MarkerInv
    <3> QED
      BY Zenon, <3>4 DEF LocalOK
  <2>4. /\ Reachable \subseteq marked
        /\ \A w \in marked \cap Weak : Key[w] \in marked \/ IsWaiting(w)
        /\ \A n \in Thread : list[n] = {}
    BY Zenon, <2>1, MarkingComplete
  <2>5. \A w : IsWaiting(w) => w \in cleared
    BY Zenon, <2>3, <2>4 DEF IsWaiting
  <2>6. \A w \in Reachable \cap Weak : w \in cleared <=> Key[w] \notin marked
    BY Zenon, <1>1, <2>4, <2>5
  <2>7. ASSUME NEW s \in DOMAIN weak_set
        PROVE  weak_set[s] = marked
    <3>1. s \in 0 .. 3 /\ weak_slices_started \in Nat /\ weak_slices_started > 3
      BY Zenon, <2>1 DEF MarkerInv, MarkerTypes, WeakOK
    <3>2. s < weak_slices_started
      BY <3>1
    <3> QED
      BY Zenon, <3>1, <3>2 DEF MarkerInv, WeakOK
  <2> QED
    BY Zenon, <2>6, <2>7
<1> QED
  BY Zenon, <1>1, <1>2 DEF WeakByFateOfKey

-----------------------------------------------------------------------------
(* The library, and the theorems.                                          *)
INSTANCE FiniteSetTheorems

(* The facts assumed above. *)
LEMMA Library == CountFacts
<1>1. IsFiniteSet(Thread) BY Zenon, BarrierAssumption
<1>2. num_threads \in Nat BY Zenon, <1>1, FS_CardinalityType DEF num_threads
<1>3. num_threads # 0 BY Zenon, <1>1, FS_EmptySet, BarrierAssumption
                         DEF num_threads
<1>4. Cardinality({}) = 0 BY Zenon, FS_EmptySet
<1>5. ASSUME NEW S \in SUBSET Thread
      PROVE  /\ Cardinality(S) \in 0..num_threads
             /\ Cardinality(S) = num_threads => S = Thread
             /\ \A t \in Thread \ S : Cardinality(S \cup {t}) = Cardinality(S) + 1
  <2>1. /\ IsFiniteSet(S)
        /\ Cardinality(S) <= num_threads
        /\ Cardinality(S) = num_threads => S = Thread
    BY Zenon, <1>1, FS_Subset DEF num_threads
  <2>2. Cardinality(S) \in Nat BY Zenon, <2>1, FS_CardinalityType
  <2>3. Cardinality(S) \in 0..num_threads BY <1>2, <2>1, <2>2
  <2>4. \A t \in Thread \ S : Cardinality(S \cup {t}) = Cardinality(S) + 1
    BY Zenon, <2>1, FS_AddElement
  <2> QED BY Zenon, <2>1, <2>3, <2>4
<1> QED BY Zenon, <1>2, <1>3, <1>4, <1>5 DEF CountFacts

(* The barrier's fields and the threads keep to IInv, for any number of    *)
(* threads and rounds.                                                     *)
THEOREM BarrierInvariant == Spec => []IInv
<1>1. Init => IInv BY Zenon, InitBarrier, Library
                      DEF IInv, BarrierInv, Init, Gone
<1>2. IInv /\ [Next]_vars => IInv' BY Zenon, IInvInductive, Library
<1> QED BY <1>1, <1>2, PTL DEF Spec

(* remaining_ never becomes negative, as the ASSERTs of Sync() and Exit()  *)
(* demand.                                                                 *)
THEOREM TypeCorrect == Spec => []TypeOK
<1>1. IInv => TypeOK BY Zenon DEF IInv, BarrierInv
<1> QED BY <1>1, BarrierInvariant, PTL

(* No call of Sync() returns before all threads have made theirs.          *)
THEOREM SyncLinesUp == Spec => []RoundsLineUp
<1>1. ASSUME IInv PROVE RoundsLineUp
  <2> SUFFICES ASSUME NEW i \in Thread, NEW j \in Thread
               PROVE  passed[i] <= arrived[j]
    BY Zenon DEF RoundsLineUp
  <2>1. ASSUME NEW t \in Thread
        PROVE  /\ arrived[t] \in Nat /\ passed[t] \in Nat
               /\ passed[t] <= Completed(t) /\ Completed(t) <= arrived[t]
    BY <1>1, BarrierAssumption
       DEF IInv, BarrierInv, TypeOK, ThreadInv, Completed, InRound
  <2>2. Completed(i) = Completed(j) BY Zenon, <1>1 DEF IInv, BarrierInv
  <2>3. Completed(i) \in Nat BY Zenon, <2>1 DEF Completed
  <2> QED BY <2>1, <2>2, <2>3
<1> QED BY <1>1, BarrierInvariant, PTL

(* When the destructor returns, every thread has left its call of Exit().  *)
THEOREM DestroyedAfterLastUse == Spec => []NoUseAfterDestroy
<1>1. ASSUME IInv PROVE NoUseAfterDestroy
  <2> SUFFICES ASSUME destroyed, NEW t \in Thread
               PROVE  pc[t] \in {"exited", "end"}
    BY Zenon DEF NoUseAfterDestroy
  <2>1. done /\ pc[Main] = "end" /\ remaining = 0 BY Zenon, <1>1
                                                     DEF IInv, BarrierInv, EndInv
  <2>2. Counted \in SUBSET Thread BY Zenon DEF Counted
  <2>3. Cardinality(Counted) = num_threads
    <3>1. Cardinality(Counted) \in 0..num_threads BY Zenon, <2>2, Library
                                                     DEF CountFacts
    <3> QED BY <1>1, <2>1, <3>1, Library
               DEF CountFacts, IInv, BarrierInv
  <2>4. Counted = Thread BY Zenon, <2>2, <2>3, Library DEF CountFacts
  <2>5. InRound(t) \/ Gone(t) BY Zenon, <2>4 DEF Counted
  <2>6. Gone(t)
    <3>1. Gone(Main) /\ ~InRound(Main) BY Zenon, <2>1 DEF Gone, InRound, InWait
    <3>2. Completed(Main) = Rounds
      BY Zenon, <1>1, <3>1, BarrierAssumption
         DEF IInv, BarrierInv, ThreadInv, Completed
    <3>3. SUFFICES ASSUME InRound(t) PROVE FALSE BY Zenon, <2>5
    <3>4. arrived[t] = passed[t] + 1 /\ arrived[t] \in 0..Rounds
          /\ passed[t] \in 0..Rounds
      BY Zenon, <1>1, <3>3 DEF IInv, BarrierInv, TypeOK, ThreadInv, InRound
    <3>5. Completed(t) = passed[t] BY Zenon, <3>3 DEF Completed
    <3>6. Completed(t) = Rounds BY Zenon, <1>1, <3>2, BarrierAssumption
                                   DEF IInv, BarrierInv
    <3> QED BY <3>4, <3>5, <3>6, BarrierAssumption
  <2>7. pc[t] # "last" BY Zenon, <1>1, <2>1 DEF IInv, BarrierInv, EndInv
  <2>8. CASE t = Main BY Zenon, <2>1, <2>8
  <2>9. CASE t # Main
    BY Zenon, <1>1, <2>6, <2>7, <2>9 DEF IInv, BarrierInv, ThreadInv, Gone
  <2> QED BY Zenon, <2>8, <2>9
<1> QED BY <1>1, BarrierInvariant, PTL

(* The marker keeps to its inductive invariant, for any number of tasks,   *)
(* any heap, any size of a block and whatever the mutator does.            *)
THEOREM MarkerInvariant == MarkerSpec => []MarkerInv
<1>1. MarkerInit => MarkerInv
  BY Zenon, MarkerInitInv, Library
<1>2. MarkerInv /\ [MarkerNext]_marker_vars => MarkerInv'
  BY Zenon, MarkerInductive, Library
<1> QED
  BY <1>1, <1>2, PTL DEF MarkerSpec

(* The tasks agree on when marking is over, and num_busy_ counts those     *)
(* that may still have work: ParallelMarkTask::RunEnteredIsolateGroup().   *)
THEOREM PhasesCorrect == MarkerSpec => []PhasesInStep
<1>1. MarkerInv => PhasesInStep
  BY Zenon, InvPhases, Library
<1> QED
  BY <1>1, MarkerInvariant, PTL

(* Every reachable object is marked when a task starts to treat unmarked   *)
(* objects as garbage, whatever the mutator did beside the concurrent      *)
(* tasks; without a mutator nothing else is marked.                        *)
THEOREM MarkingCorrect == MarkerSpec => []MarksWhatIsReachable
<1>1. MarkerInv => MarksWhatIsReachable
  BY Zenon, InvMarks, Library
<1> QED
  BY <1>1, MarkerInvariant, PTL

(* Weak properties and weak references are treated by the fate of their    *)
(* keys: Finalize() clears those with an unreachable key and no other.     *)
THEOREM WeakCorrect == MarkerSpec => []WeakByFateOfKey
<1>1. MarkerInv => WeakByFateOfKey
  BY Zenon, InvWeak, Library
<1> QED
  BY <1>1, MarkerInvariant, PTL

=============================================================================
