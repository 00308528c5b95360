------------------------------ MODULE TimerHeap ------------------------------
(***************************************************************************)
(* The binary heap of timers, class _TimerHeap of                          *)
(* sdk/lib/_internal/vm/lib/timer_impl.dart, as functions on sequences.    *)
(* Index i of the list is position i + 1 here, and a timer's _indexOrNext  *)
(* is its position.  key gives each timer the pair that _compareTo looks   *)
(* at: wakeup time and id.                                                 *)
(***************************************************************************)
EXTENDS Integers, Sequences, SequencesExt

(* Wrong variant: the newer of two timers with one wakeup time is first. *)
Before_Ties(key, a, b) == key[a][1] <= key[b][1]

(* a._compareTo(b) < 0 *)
Before(key, a, b) ==
  \/ key[a][1] < key[b][1]
  \/ key[a][1] = key[b][1] /\ key[a][2] < key[b][2]

Swap(list, i, j) == [list EXCEPT ![i] = list[j], ![j] = list[i]]

RECURSIVE BubbleUp(_, _, _)
BubbleUp(key, list, i) ==
  IF i > 1 /\ Before(key, list[i], list[i \div 2])
  THEN BubbleUp(key, Swap(list, i, i \div 2), i \div 2)
  ELSE list

RECURSIVE BubbleDown(_, _, _)
BubbleDown(key, list, i) ==
  LET Newest(j, n) ==
        IF j <= Len(list) /\ Before(key, list[j], list[n]) THEN j ELSE n
      newest == Newest(2 * i + 1, Newest(2 * i, i))
  IN IF newest = i THEN list
     ELSE BubbleDown(key, Swap(list, i, newest), newest)

HeapAdd(key, list, t) == BubbleUp(key, Append(list, t), Len(list) + 1)

(* Wrong variant: the last timer only ever moves down. *)
Settle_Down(key, list, i, t) == BubbleDown(key, list, i)

(* The last timer has taken the place i of the removed timer t. *)
Settle(key, list, i, t) ==
  IF Before(key, list[i], t) THEN BubbleUp(key, list, i)
                             ELSE BubbleDown(key, list, i)

HeapRemove(key, list, t) ==
  LET i == CHOOSE i \in DOMAIN list : list[i] = t
      n == Len(list)
      moved == SubSeq([list EXCEPT ![i] = list[n]], 1, n - 1)
  IN IF i = n THEN moved ELSE Settle(key, moved, i, t)

-----------------------------------------------------------------------------
(* The reference: no timer is before its parent.                           *)

Ordered(key, list) ==
  \A i \in 2..Len(list) : ~Before(key, list[i], list[i \div 2])

(* Every heap of the timers 1..n, each its own key, whatever the history   *)
(* that built it: only the order of the keys matters.                      *)
Rank(n) == [t \in 0..n |-> <<t, 0>>]
HeapsOf(n) == {list \in SetToSeqs(1..n) : Ordered(Rank(n), list)}

(* _TimerHeap.add and .remove keep the heap a heap, and add or remove just *)
(* the timer they are given, whichever it is and wherever it is: over all  *)
(* heaps of up to n timers.                                                *)
HeapCorrectUpTo(n) ==
  \A k \in 1..n : \A list \in HeapsOf(k) : \A t \in 1..k :
    LET rest == HeapRemove(Rank(k), list, t)
        all == HeapAdd(Rank(k), rest, t)
    IN /\ Ordered(Rank(k), rest) /\ ToSet(rest) = (1..k) \ {t}
       /\ Len(rest) = k - 1
       /\ Ordered(Rank(k), all) /\ ToSet(all) = 1..k /\ Len(all) = k
=============================================================================
