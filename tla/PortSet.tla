------------------------------- MODULE PortSet -------------------------------
(***************************************************************************)
(* PortSet<T> (runtime/vm/port_set.h), the open-addressing hash table of   *)
(* open ports, and PortMap::AllocatePort (runtime/vm/port.cc), which draws *)
(* the ids that go into it.                                                *)
(*                                                                         *)
(* The table is used by one thread at a time, the one that holds PortMap's *)
(* mutex_.  An entry is abstracted to its port.  Rehash moves one entry a  *)
(* step.                                                                   *)
(***************************************************************************)
EXTENDS Integers, FiniteSets

CONSTANTS
  Draw,            \* the ids that the generator of AllocatePort may produce
  InitialCapacity  \* kInitialCapacity, 8 in the code

kFreePort == 0
kDeletedPort == 3

ASSUME PortSetAssumption ==
  /\ IsFiniteSet(Draw)
  /\ Draw \subseteq {p \in Nat : p % 4 = 3}
  /\ InitialCapacity \in Nat \ {0}
  /\ InitialCapacity % 4 = 0

VARIABLES
  capacity, map, \* capacity_ and map_, the port in each slot
  used,          \* used_
  deleted,       \* deleted_
  pc,            \* "ready", "erased", "maintain" or "rehash"
  new_capacity,  \* the capacity of new_ports in Rehash
  target,        \* new_ports, the port in each of its slots
  index,         \* the slot that Rehash moves next
  open           \* history: the ports allocated and not closed

vars == <<capacity, map, used, deleted, pc, new_capacity, target,
          index, open>>

-----------------------------------------------------------------------------
(* Slots and searches.                                                     *)

Slots(n) == 0 .. n - 1
Empty(n) == [i \in Slots(n) |-> kFreePort]
Used(p) == p # kFreePort /\ p # kDeletedPort

\* The slot that a search for p looks at after k steps, of n slots.
Probe(p, k, n) == (p + k) % n

\* FindIndexOfPort finds p after k steps: it met neither p nor a free slot
\* before.
FoundAt(p, k) ==
  /\ map[Probe(p, k, capacity)] = p
  /\ \A j \in 0 .. k - 1 : map[Probe(p, j, capacity)] \notin {kFreePort, p}

Contains(p) == p # kFreePort /\ \E k \in Slots(capacity) : FoundAt(p, k)

\* Where Insert stops: the first slot that is free or deleted.
VacantAt(p, k) ==
  /\ ~ Used(map[Probe(p, k, capacity)])
  /\ \A j \in 0 .. k - 1 : Used(map[Probe(p, j, capacity)])

TypeOK ==
  /\ capacity \in Nat \ {0}
  /\ map \in [Slots(capacity) -> Draw \cup {kFreePort, kDeletedPort}]
  /\ used \in Nat
  /\ deleted \in Nat
  /\ pc \in {"ready", "erased", "maintain", "rehash"}
  /\ index \in 0 .. capacity
  /\ new_capacity \in {capacity, 2 * capacity}
  /\ target \in [Slots(new_capacity) -> Draw \cup {kFreePort}]
  /\ open \in SUBSET Draw

Init ==
  /\ capacity = InitialCapacity
  /\ map = Empty(InitialCapacity)
  /\ used = 0
  /\ deleted = 0
  /\ pc = "ready"
  /\ new_capacity = InitialCapacity
  /\ target = Empty(InitialCapacity)
  /\ index = 0
  /\ open = {}

-----------------------------------------------------------------------------
(* Operations.                                                             *)

\* The do-while loop of AllocatePort returns a drawn id that the table does
\* not contain.  The continue for the two marker ports goes to the loop's
\* condition too, so it excludes nothing.
AllocatePort(p) == ~ Contains(p)

\* Insert, for a port that AllocatePort has returned.
Insert(p) ==
  /\ pc = "ready"
  /\ AllocatePort(p)
  /\ \E k \in Slots(capacity) :
       /\ VacantAt(p, k)
       /\ map' = [map EXCEPT ![Probe(p, k, capacity)] = p]
       /\ deleted' = IF map[Probe(p, k, capacity)] = kDeletedPort
                     THEN deleted - 1 ELSE deleted
  /\ used' = used + 1
  /\ pc' = "maintain"
  /\ open' = open \cup {p}
  /\ UNCHANGED <<capacity, new_capacity, target, index>>

\* Wrong variant: the slot becomes free, which cuts the searches across it.
Delete_Free(p) ==
  /\ pc \in {"ready", "erased"}
  /\ \E k \in Slots(capacity) :
       /\ FoundAt(p, k)
       /\ map' = [map EXCEPT ![Probe(p, k, capacity)] = kFreePort]
  /\ used' = used - 1
  /\ UNCHANGED deleted
  /\ pc' = "erased"
  /\ open' = open \ {p}
  /\ UNCHANGED <<capacity, new_capacity, target, index>>

\* TryLookup of an open port and Iterator::Delete.  The callers delete one
\* port, or all ports of a message handler, and then call Rebalance.
Delete(p) ==
  /\ pc \in {"ready", "erased"}
  /\ \E k \in Slots(capacity) :
       /\ FoundAt(p, k)
       /\ map' = [map EXCEPT ![Probe(p, k, capacity)] = kDeletedPort]
  /\ used' = used - 1
  /\ deleted' = deleted + 1
  /\ pc' = "erased"
  /\ open' = open \ {p}
  /\ UNCHANGED <<capacity, new_capacity, target, index>>

Rebalance ==
  /\ pc = "erased"
  /\ pc' = "maintain"
  /\ UNCHANGED <<capacity, map, used, deleted, new_capacity, target, index, open>>

StartRehash(n) ==
  /\ new_capacity' = n
  /\ target' = Empty(n)
  /\ index' = 0
  /\ pc' = "rehash"

\* Wrong variant: the deleted slots are never flushed.
MaintainInvariants_GrowOnly ==
  /\ pc = "maintain"
  /\ \/ /\ used > (capacity \div 4) * 3
        /\ StartRehash(2 * capacity)
     \/ /\ used <= (capacity \div 4) * 3
        /\ pc' = "ready"
        /\ UNCHANGED <<new_capacity, target, index>>
  /\ UNCHANGED <<capacity, map, used, deleted, open>>

MaintainInvariants ==
  /\ pc = "maintain"
  /\ \/ /\ used > (capacity \div 4) * 3
        /\ StartRehash(2 * capacity)
     \/ /\ used <= (capacity \div 4) * 3
        /\ capacity - used - deleted < deleted
        /\ StartRehash(capacity)
     \/ /\ used <= (capacity \div 4) * 3
        /\ capacity - used - deleted >= deleted
        /\ pc' = "ready"
        /\ UNCHANGED <<new_capacity, target, index>>
  /\ UNCHANGED <<capacity, map, used, deleted, open>>

\* Rehash moves the entry of a used slot to its first free slot in new_ports.
RehashMove ==
  /\ pc = "rehash"
  /\ index < capacity
  /\ index' = index + 1
  /\ \/ /\ ~ Used(map[index])
        /\ UNCHANGED target
     \/ /\ Used(map[index])
        /\ \E k \in Slots(new_capacity) :
             LET slot(j) == Probe(map[index], j, new_capacity)
             IN /\ target[slot(k)] = kFreePort
                /\ \A j \in 0 .. k - 1 : target[slot(j)] # kFreePort
                /\ target' = [target EXCEPT ![slot(k)] = map[index]]
  /\ UNCHANGED <<capacity, map, used, deleted, pc, new_capacity, open>>

RehashDone ==
  /\ pc = "rehash"
  /\ index = capacity
  /\ map' = target
  /\ capacity' = new_capacity
  /\ deleted' = 0
  /\ pc' = "ready"
  /\ target' = Empty(new_capacity)
  /\ index' = 0
  /\ UNCHANGED <<used, new_capacity, open>>

Next ==
  \/ \E p \in Draw : Insert(p)
  \/ \E p \in open : Delete(p)
  \/ Rebalance
  \/ MaintainInvariants
  \/ RehashMove
  \/ RehashDone

Spec == Init /\ [][Next]_vars

-----------------------------------------------------------------------------
(* Properties.                                                             *)

\* A search finds exactly the ports that were allocated and not closed, after
\* any history of insertions, deletions and rehashes.
FindsExactlyOpenPorts ==
  pc # "rehash" => \A p \in Draw : Contains(p) <=> p \in open

\* "Prevent endless loops. ASSERT(index != start_index)": every search that a
\* caller may start, for a port that is or is not there, meets a free slot.
SearchesEnd ==
  pc \in {"ready", "erased"} =>
    \A p \in Draw : \E k \in Slots(capacity) :
      map[Probe(p, k, capacity)] = kFreePort

\* used_ and deleted_ count the slots, so MaintainInvariants decides on facts.
CountersExact ==
  /\ used = Cardinality({i \in Slots(capacity) : Used(map[i])})
  /\ deleted = Cardinality({i \in Slots(capacity) : map[i] = kDeletedPort})

-----------------------------------------------------------------------------
(* The inductive invariant, for a table m of n slots and for the machine.  *)

UsedSlots(m, n) == {i \in Slots(n) : Used(m[i])}
DeletedSlots(m, n) == {i \in Slots(n) : m[i] = kDeletedPort}
Held(m, n) == {p \in Draw : \E i \in Slots(n) : m[i] = p}

\* A search for the port of slot i arrives there.
Reachable(m, n, i) ==
  \E k \in Slots(n) :
    /\ Probe(m[i], k, n) = i
    /\ \A j \in 0 .. k - 1 : m[Probe(m[i], j, n)] \notin {kFreePort, m[i]}

Sound(m, n) ==
  /\ \A i \in Slots(n) : Used(m[i]) => Reachable(m, n, i)
  /\ \A i, j \in Slots(n) : Used(m[i]) /\ m[i] = m[j] => i = j

\* Between the calls at most three quarters of the slots are used and a free
\* slot is left; Rehash has the same bound for the table it builds.
Balanced ==
  /\ pc = "ready" => /\ used <= (capacity \div 4) * 3
                     /\ capacity - used - deleted >= deleted
  /\ pc = "erased" => used + deleted < capacity
  /\ pc = "rehash" => used <= (new_capacity \div 4) * 3

\* new_ports holds the ports of the slots that were visited.
Moved ==
  /\ pc = "rehash" =>
       /\ Sound(target, new_capacity)
       /\ Held(target, new_capacity) =
            {p \in Draw : \E i \in 0 .. index - 1 : map[i] = p}
       /\ Cardinality(UsedSlots(target, new_capacity)) =
            Cardinality({i \in 0 .. index - 1 : Used(map[i])})
  /\ pc # "rehash" => index = 0

IInv ==
  /\ TypeOK
  /\ capacity % 4 = 0
  /\ Sound(map, capacity)
  /\ open = Held(map, capacity)
  /\ CountersExact
  /\ Balanced
  /\ Moved

=============================================================================
