---------------------------- MODULE ThreadBarrier ----------------------------
(***************************************************************************)
(* ThreadBarrier (runtime/vm/thread_barrier.h), used by the parallel tasks *)
(* of the garbage collector.  A step is a critical section of monitor_ or  *)
(* of done_monitor_.  The barrier lives on the stack of one participant,   *)
(* the main thread, which destroys it after its own call of Exit().        *)
(***************************************************************************)
EXTENDS Integers, FiniteSets

CONSTANTS
  Thread,  \* the participating threads
  Main,    \* the one that constructs and destroys the barrier
  Rounds   \* R: the calls of Sync() that each of them makes

ASSUME BarrierAssumption ==
  /\ IsFiniteSet(Thread)
  /\ Main \in Thread
  /\ Rounds \in Nat

VARIABLES
  remaining,   \* remaining_
  parity,      \* parity_
  done,        \* done_
  destroyed,   \* the destructor has returned
  pc,          \* where a thread is
  old_parity,  \* its old_parity in Sync()
  arrived,     \* history: calls of Sync() it has made
  passed       \* history: calls of Sync() that have returned to it

vars == <<remaining, parity, done, destroyed, pc, old_parity, arrived, passed>>

num_threads == Cardinality(Thread)

(* "last" is the last thread in Exit(), before it locks done_monitor_.     *)
Places == {"out", "waiting", "notified", "last", "exited", "destructor",
           "destructor_notified", "end"}

TypeOK ==
  /\ remaining \in 0..num_threads
  /\ parity \in BOOLEAN /\ done \in BOOLEAN /\ destroyed \in BOOLEAN
  /\ pc \in [Thread -> Places]
  /\ old_parity \in [Thread -> BOOLEAN]
  /\ arrived \in [Thread -> 0..Rounds]
  /\ passed \in [Thread -> 0..Rounds]

Init ==
  /\ remaining = num_threads
  /\ parity = FALSE /\ done = FALSE /\ destroyed = FALSE
  /\ pc = [t \in Thread |-> "out"]
  /\ old_parity = [t \in Thread |-> FALSE]
  /\ arrived = [t \in Thread |-> 0]
  /\ passed = [t \in Thread |-> 0]

(* Sync() by a thread that is not the last to arrive. *)
SyncWait(t) ==
  /\ pc[t] = "out" /\ arrived[t] < Rounds
  /\ remaining > 1
  /\ remaining' = remaining - 1
  /\ old_parity' = [old_parity EXCEPT ![t] = parity]
  /\ pc' = [pc EXCEPT ![t] = "waiting"]
  /\ arrived' = [arrived EXCEPT ![t] = @ + 1]
  /\ UNCHANGED <<parity, done, destroyed, passed>>

(* Wrong variant: the last thread does not start the next round. *)
SyncLast_NoFlip(t) ==
  /\ pc[t] = "out" /\ arrived[t] < Rounds
  /\ remaining = 1
  /\ remaining' = num_threads
  /\ pc' = [u \in Thread |-> IF pc[u] = "waiting" THEN "notified" ELSE pc[u]]
  /\ arrived' = [arrived EXCEPT ![t] = @ + 1]
  /\ passed' = [passed EXCEPT ![t] = @ + 1]
  /\ UNCHANGED <<parity, done, destroyed, old_parity>>

(* Sync() by the last one: it starts the next round and wakes the others. *)
SyncLast(t) ==
  /\ pc[t] = "out" /\ arrived[t] < Rounds
  /\ remaining = 1
  /\ remaining' = num_threads
  /\ parity' = ~parity
  /\ pc' = [u \in Thread |-> IF pc[u] = "waiting" THEN "notified" ELSE pc[u]]
  /\ arrived' = [arrived EXCEPT ![t] = @ + 1]
  /\ passed' = [passed EXCEPT ![t] = @ + 1]
  /\ UNCHANGED <<done, destroyed, old_parity>>

(* The wait returns, notified or spuriously, and the loop tests parity_. *)
Wakes(t, place) ==
  /\ pc[t] = place
  /\ IF parity = old_parity[t]
     THEN pc' = [pc EXCEPT ![t] = "waiting"] /\ UNCHANGED passed
     ELSE /\ pc' = [pc EXCEPT ![t] = "out"]
          /\ passed' = [passed EXCEPT ![t] = @ + 1]
  /\ UNCHANGED <<remaining, parity, done, destroyed, old_parity, arrived>>

Exit(t) ==
  /\ pc[t] = "out"
  /\ remaining' = remaining - 1
  /\ pc' = [pc EXCEPT ![t] = IF remaining = 1 THEN "last" ELSE "exited"]
  /\ UNCHANGED <<parity, done, destroyed, old_parity, arrived, passed>>

ExitLast(t) ==
  /\ pc[t] = "last"
  /\ done' = TRUE
  /\ pc' = [u \in Thread |->
              IF u = t THEN "exited"
              ELSE IF pc[u] = "destructor" THEN "destructor_notified"
              ELSE pc[u]]
  /\ UNCHANGED <<remaining, parity, destroyed, old_parity, arrived, passed>>

(* ~ThreadBarrier(), called or woken: waits for done_. *)
Destroy(t, place) ==
  /\ t = Main /\ pc[t] = place
  /\ pc' = [pc EXCEPT ![t] = IF done THEN "end" ELSE "destructor"]
  /\ destroyed' = done
  /\ UNCHANGED <<remaining, parity, done, old_parity, arrived, passed>>

(* The client of this module: a task that makes its calls of Sync() and    *)
(* then calls Exit().                                                      *)
ExitAfterRounds(t) == arrived[t] = Rounds /\ Exit(t)

Next ==
  \E t \in Thread :
    \/ SyncWait(t) \/ SyncLast(t)
    \/ \E place \in {"waiting", "notified"} : Wakes(t, place)
    \/ ExitAfterRounds(t) \/ ExitLast(t)
    \/ \E place \in {"exited", "destructor", "destructor_notified"} :
         Destroy(t, place)

Spec == Init /\ [][Next]_vars

-----------------------------------------------------------------------------
(* The guarantee in the header: no call of Sync() returns to one thread    *)
(* before every thread has made its call of the same round.                *)
RoundsLineUp == \A i, j \in Thread : passed[i] <= arrived[j]

(* The destructor returns only when no thread will touch the barrier       *)
(* again, although nothing orders the calls of Exit().                     *)
NoUseAfterDestroy ==
  destroyed => \A t \in Thread : pc[t] \in {"exited", "end"}

=============================================================================
