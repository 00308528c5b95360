---------------------------- MODULE PortSetProofs ----------------------------
(***************************************************************************)
(* Proofs about PortSet: for every initial capacity and every set of ids   *)
(* that leaves out the marker of deleted slots, a search finds exactly the *)
(* open ports and meets a free slot.                                       *)
(***************************************************************************)
EXTENDS PortSet, FiniteSetTheorems, TLAPS

-----------------------------------------------------------------------------
(* Arithmetic of the probe sequence.                                       *)

\* Every probe of a search (the index taken modulo the capacity) is a slot.
LEMMA ProbeInSlots ==
  ASSUME NEW p \in Nat, NEW k \in Nat, NEW n \in Nat \ {0}
  PROVE  Probe(p, k, n) \in Slots(n)
  BY DEF Probe, Slots

\* The remainder of a number given as a multiple of n and a rest.
LEMMA Remainder ==
  ASSUME NEW q \in Nat, NEW n \in Nat \ {0}, NEW i \in 0 .. n - 1
  PROVE  (n * q + i) % n = i
  OBVIOUS

\* The probe sequence of every port visits every slot.
LEMMA ProbeReaches ==
  ASSUME NEW p \in Nat, NEW n \in Nat \ {0}, NEW i \in Slots(n)
  PROVE  \E k \in Slots(n) : Probe(p, k, n) = i
<1> DEFINE q == p \div n
           r == p % n
<1>1. q \in Nat /\ r \in 0 .. n - 1 /\ p = n * q + r
  OBVIOUS
<1>2. i \in 0 .. n - 1
  BY Zenon DEF Slots
<1> HIDE DEF q, r
<1>3. CASE r <= i
  <2>1. i - r \in Slots(n)
    BY <1>1, <1>2, <1>3 DEF Slots
  <2>2. p + (i - r) = n * q + i
    BY <1>1, <1>2
  <2>3. Probe(p, i - r, n) = i
    BY Zenon, <1>1, <1>2, <2>2, Remainder DEF Probe
  <2> QED
    BY Zenon, <2>1, <2>3
<1>4. CASE i < r
  <2>1. i + n - r \in Slots(n)
    BY <1>1, <1>2, <1>4 DEF Slots
  <2>2. p + (i + n - r) = n * (q + 1) + i
    BY <1>1, <1>2
  <2>3. Probe(p, i + n - r, n) = i
    BY <1>1, <1>2, <2>2, Remainder DEF Probe
  <2> QED
    BY Zenon, <2>1, <2>3
<1> QED
  BY <1>1, <1>2, <1>3, <1>4

-----------------------------------------------------------------------------
(* Sets of slots.                                                          *)

\* A set of slots is finite, no larger than the table, and its size follows
\* one slot that is added or removed.
LEMMA SlotCount ==
  ASSUME NEW n \in Nat, NEW S \in SUBSET Slots(n), NEW i \in Slots(n)
  PROVE  /\ IsFiniteSet(S)
         /\ Cardinality(S) \in Nat
         /\ Cardinality(S) <= n
         /\ i \notin S => Cardinality(S \cup {i}) = Cardinality(S) + 1
         /\ i \in S => /\ Cardinality(S \ {i}) = Cardinality(S) - 1
                       /\ Cardinality(S) >= 1
<1>1. IsFiniteSet(Slots(n)) /\ Cardinality(Slots(n)) = n
  BY FS_Interval DEF Slots
<1>2. IsFiniteSet(S) /\ Cardinality(S) <= n
  BY Zenon, <1>1, FS_Subset
<1>3. Cardinality(S) \in Nat
  BY Zenon, <1>2, FS_CardinalityType
<1>4. i \notin S => Cardinality(S \cup {i}) = Cardinality(S) + 1
  BY Zenon, <1>2, FS_AddElement
<1>5. i \in S => Cardinality(S \ {i}) = Cardinality(S) - 1
  BY Zenon, <1>2, FS_RemoveElement
<1>6. i \in S => Cardinality(S) >= 1
  BY <1>2, <1>3, FS_EmptySet
<1> QED
  BY Zenon, <1>2, <1>3, <1>4, <1>5, <1>6

\* A table whose used and deleted slots do not fill it has a free slot.
LEMMA FreeSlot ==
  ASSUME NEW n \in Nat \ {0}, NEW m,
         Cardinality(UsedSlots(m, n)) + Cardinality(DeletedSlots(m, n)) < n
  PROVE  \E i \in Slots(n) : m[i] = kFreePort
<1> DEFINE U == UsedSlots(m, n)
           D == DeletedSlots(m, n)
<1>1. IsFiniteSet(Slots(n)) /\ Cardinality(Slots(n)) = n
  BY FS_Interval DEF Slots
<1>2. /\ IsFiniteSet(U) /\ IsFiniteSet(D) /\ U \cap D = {}
      /\ U \cup D \subseteq Slots(n)
  BY Zenon, <1>1, FS_Subset DEF UsedSlots, DeletedSlots, Used
<1>3. /\ Cardinality(U) \in Nat /\ Cardinality(D) \in Nat
      /\ Cardinality(U \cap D) = 0
  BY Zenon, <1>2, FS_CardinalityType, FS_EmptySet
<1>4. Cardinality(U \cup D) = Cardinality(U) + Cardinality(D)
  <2>1. Cardinality(U \cup D)
          = Cardinality(U) + Cardinality(D) - Cardinality(U \cap D)
    BY Zenon, <1>2, FS_Union
  <2> QED
    BY <1>3, <2>1
<1>5. U \cup D # Slots(n)
  <2>1. Cardinality(U) + Cardinality(D) < n
    BY Zenon
  <2> HIDE DEF U, D
  <2>2. Cardinality(U \cup D) # n
    BY <1>3, <1>4, <2>1
  <2> QED
    BY Zenon, <1>1, <2>2
<1>6. PICK i \in Slots(n) : i \notin U /\ i \notin D
  BY Zenon, <1>2, <1>5
<1>7. m[i] = kFreePort
  BY Zenon, <1>6 DEF UsedSlots, DeletedSlots, Used
<1> QED
  BY Zenon, <1>7

-----------------------------------------------------------------------------
(* What writing a slot does to a table.                                    *)

Entries == Draw \cup {kFreePort, kDeletedPort}

\* The ports that AllocatePort draws are numbers and never the free entry.
LEMMA DrawnPorts ==
  /\ Draw \subseteq Nat
  /\ kFreePort \notin Draw
  BY PortSetAssumption DEF kFreePort

\* The slots that a search passes before step k.
LEMMA ProbeBefore ==
  ASSUME NEW n \in Nat \ {0}, NEW p \in Draw,
         NEW k \in Slots(n), NEW j \in 0 .. k - 1
  PROVE  Probe(p, j, n) \in Slots(n)
<1>1. p \in Nat /\ j \in Nat
  BY DrawnPorts DEF Slots
<1> QED
  BY Zenon, <1>1, ProbeInSlots

\* A port that the table does not hold is written into an unused slot of its
\* probe sequence, behind used slots: Insert and Rehash.
Puts(m, n, p, k, s, m2) ==
  /\ n \in Nat \ {0}
  /\ m \in [Slots(n) -> Entries]
  /\ Sound(m, n)
  /\ p \in Draw \ Held(m, n)
  /\ k \in Slots(n)
  /\ s = Probe(p, k, n)
  /\ ~ Used(m[s])
  /\ \A j \in 0 .. k - 1 : Used(m[Probe(p, j, n)])
  /\ m2 = [m EXCEPT ![s] = p]

\* Insert and Rehash: writing p into the first vacant slot of its probe
\* sequence adds p to what the table holds and keeps the other ports findable.
LEMMA PutEntry ==
  ASSUME kDeletedPort \notin Draw,
         NEW m, NEW n, NEW p, NEW k, NEW s, NEW m2, Puts(m, n, p, k, s, m2)
  PROVE  /\ s \in Slots(n) \ UsedSlots(m, n)
         /\ m2 \in [Slots(n) -> Entries]
         /\ Sound(m2, n)
         /\ Held(m2, n) = Held(m, n) \cup {p}
         /\ UsedSlots(m2, n) = UsedSlots(m, n) \cup {s}
         /\ DeletedSlots(m2, n) = DeletedSlots(m, n) \ {s}
<1> USE DEF Puts
<1>1. s \in Slots(n)
  BY DrawnPorts, ProbeInSlots DEF Slots
<1>2. Used(p)
  BY Zenon, DrawnPorts DEF Used
<1>3. /\ m2 \in [Slots(n) -> Entries]
      /\ m2[s] = p
      /\ \A i \in Slots(n) : i # s => m2[i] = m[i]
  BY Zenon, <1>1 DEF Entries
<1>4. \A i \in Slots(n) : m[i] # p
  BY Zenon DEF Held
<1>5. s \notin UsedSlots(m, n)
  BY Zenon DEF UsedSlots
<1>6. UsedSlots(m2, n) = UsedSlots(m, n) \cup {s}
  BY Zenon, <1>1, <1>2, <1>3 DEF UsedSlots
<1>7. DeletedSlots(m2, n) = DeletedSlots(m, n) \ {s}
  BY Zenon, <1>1, <1>2, <1>3 DEF DeletedSlots, Used
<1>8. Held(m2, n) = Held(m, n) \cup {p}
  <2>1. \A q \in Draw : q \in Held(m, n) => q \in Held(m2, n)
    <3> SUFFICES ASSUME NEW q \in Draw, NEW i \in Slots(n), m[i] = q
                 PROVE  q \in Held(m2, n)
      BY Zenon DEF Held
    <3>1. Used(m[i])
      BY Zenon, DrawnPorts DEF Used
    <3>2. i # s
      BY Zenon, <3>1
    <3> QED
      BY Zenon, <1>3, <3>2 DEF Held
  <2>2. p \in Held(m2, n)
    BY Zenon, <1>1, <1>3 DEF Held
  <2>3. \A q \in Held(m2, n) : q = p \/ q \in Held(m, n)
    BY Zenon, <1>3 DEF Held
  <2> QED
    BY <2>1, <2>2, <2>3 DEF Held
<1>9. \A i, j \in Slots(n) : Used(m2[i]) /\ m2[i] = m2[j] => i = j
  BY Zenon, <1>3, <1>4 DEF Sound
<1>10. ASSUME NEW i \in Slots(n), Used(m2[i])
       PROVE  Reachable(m2, n, i)
  <2>1. CASE i = s
    <3>1. \A j \in 0 .. k - 1 : m2[Probe(p, j, n)] \notin {kFreePort, p}
      <4> SUFFICES ASSUME NEW j \in 0 .. k - 1
                   PROVE  m2[Probe(p, j, n)] \notin {kFreePort, p}
        BY Zenon
      <4>1. Probe(p, j, n) \in Slots(n)
        BY Zenon, ProbeBefore
      <4>2. Used(m[Probe(p, j, n)]) /\ Probe(p, j, n) # s
        BY Zenon
      <4> QED
        BY Zenon, <1>3, <1>4, <4>1, <4>2 DEF Used
    <3> QED
      BY Zenon, <1>3, <2>1, <3>1 DEF Reachable
  <2>2. CASE i # s
    <3>1. m2[i] = m[i] /\ Used(m[i]) /\ m[i] \in Draw /\ m[i] # p
      BY Zenon, <1>3, <1>4, <1>10, <2>2 DEF Entries, Used
    <3>2. PICK c \in Slots(n) :
            /\ Probe(m[i], c, n) = i
            /\ \A j \in 0 .. c - 1 :
                 m[Probe(m[i], j, n)] \notin {kFreePort, m[i]}
      BY Zenon, <3>1 DEF Sound, Reachable
    <3>3. \A j \in 0 .. c - 1 :
            m2[Probe(m[i], j, n)] \notin {kFreePort, m[i]}
      <4> SUFFICES ASSUME NEW j \in 0 .. c - 1
                   PROVE  m2[Probe(m[i], j, n)] \notin {kFreePort, m[i]}
        BY Zenon
      <4>1. Probe(m[i], j, n) \in Slots(n)
        BY Zenon, <3>1, ProbeBefore
      <4>2. m2[Probe(m[i], j, n)] \in {m[Probe(m[i], j, n)], p}
        BY Zenon, <1>3, <4>1
      <4> QED
        BY Zenon, <1>2, <3>1, <3>2, <4>2 DEF Used
    <3> QED
      BY Zenon, <3>1, <3>2, <3>3 DEF Reachable
  <2> QED
    BY Zenon, <2>1, <2>2
<1> QED
  BY Zenon, <1>1, <1>3, <1>5, <1>6, <1>7, <1>8, <1>9, <1>10 DEF Sound

\* The slot of a held port is marked as deleted: Iterator::Delete.
Erases(m, n, p, s, m2) ==
  /\ n \in Nat \ {0}
  /\ m \in [Slots(n) -> Entries]
  /\ Sound(m, n)
  /\ p \in Draw
  /\ s \in Slots(n)
  /\ m[s] = p
  /\ m2 = [m EXCEPT ![s] = kDeletedPort]

\* Erasing a port: the deleted entry left in its slot takes only that port
\* out of the table and keeps the other ports findable.
LEMMA EraseEntry ==
  ASSUME kDeletedPort \notin Draw,
         NEW m, NEW n, NEW p, NEW s, NEW m2, Erases(m, n, p, s, m2)
  PROVE  /\ s \in UsedSlots(m, n) \ DeletedSlots(m, n)
         /\ m2 \in [Slots(n) -> Entries]
         /\ Sound(m2, n)
         /\ Held(m2, n) = Held(m, n) \ {p}
         /\ UsedSlots(m2, n) = UsedSlots(m, n) \ {s}
         /\ DeletedSlots(m2, n) = DeletedSlots(m, n) \cup {s}
<1> USE DEF Erases
<1>1. Used(p) /\ ~ Used(kDeletedPort) /\ kDeletedPort # kFreePort
  BY DrawnPorts DEF Used, kDeletedPort, kFreePort
<1>2. /\ m2 \in [Slots(n) -> Entries]
      /\ m2[s] = kDeletedPort
      /\ \A i \in Slots(n) : i # s => m2[i] = m[i]
  BY Zenon DEF Entries
<1>3. s \in UsedSlots(m, n) \ DeletedSlots(m, n)
  BY Zenon, <1>1 DEF UsedSlots, DeletedSlots, Used
<1>4. UsedSlots(m2, n) = UsedSlots(m, n) \ {s}
  BY Zenon, <1>1, <1>2 DEF UsedSlots
<1>5. DeletedSlots(m2, n) = DeletedSlots(m, n) \cup {s}
  BY Zenon, <1>2 DEF DeletedSlots
<1>6. \A i \in Slots(n) : m[i] = p => i = s
  BY Zenon, <1>1 DEF Sound
<1>7. Held(m2, n) = Held(m, n) \ {p}
  BY Zenon, <1>2, <1>6 DEF Held
<1>8. \A i, j \in Slots(n) : Used(m2[i]) /\ m2[i] = m2[j] => i = j
  BY Zenon, <1>1, <1>2 DEF Sound
<1>9. ASSUME NEW i \in Slots(n), Used(m2[i])
      PROVE  Reachable(m2, n, i)
  <2>1. i # s /\ m2[i] = m[i] /\ Used(m[i]) /\ m[i] \in Draw
    BY Zenon, <1>1, <1>2, <1>9 DEF Entries, Used
  <2>2. PICK c \in Slots(n) :
          /\ Probe(m[i], c, n) = i
          /\ \A j \in 0 .. c - 1 :
               m[Probe(m[i], j, n)] \notin {kFreePort, m[i]}
    BY Zenon, <2>1 DEF Sound, Reachable
  <2>3. \A j \in 0 .. c - 1 :
          m2[Probe(m[i], j, n)] \notin {kFreePort, m[i]}
    <3> SUFFICES ASSUME NEW j \in 0 .. c - 1
                 PROVE  m2[Probe(m[i], j, n)] \notin {kFreePort, m[i]}
      BY Zenon
    <3>1. Probe(m[i], j, n) \in Slots(n)
      BY Zenon, <2>1, ProbeBefore
    <3>2. m2[Probe(m[i], j, n)] \in {m[Probe(m[i], j, n)], kDeletedPort}
      BY Zenon, <1>2, <3>1
    <3> QED
      BY Zenon, <1>1, <2>1, <2>2, <3>2
  <2> QED
    BY Zenon, <2>1, <2>2, <2>3 DEF Reachable
<1> QED
  BY Zenon, <1>2, <1>3, <1>4, <1>5, <1>7, <1>8, <1>9 DEF Sound

-----------------------------------------------------------------------------
(* Searches.                                                               *)

\* The search that stops at the first free slot finds exactly the ports
\* that are in the table.
LEMMA ContainsHeld ==
  ASSUME kDeletedPort \notin Draw, IInv, NEW p \in Draw
  PROVE  Contains(p) <=> p \in Held(map, capacity)
<1>1. p \in Nat /\ p # kFreePort /\ Used(p) /\ capacity \in Nat \ {0}
  BY Zenon, DrawnPorts DEF Used, IInv, TypeOK
<1>2. ASSUME Contains(p) PROVE p \in Held(map, capacity)
  <2>1. PICK k \in Slots(capacity) : map[Probe(p, k, capacity)] = p
    BY Zenon, <1>2 DEF Contains, FoundAt
  <2>2. Probe(p, k, capacity) \in Slots(capacity)
    BY <1>1, ProbeInSlots DEF Slots
  <2> QED
    BY Zenon, <2>1, <2>2 DEF Held
<1>3. ASSUME p \in Held(map, capacity) PROVE Contains(p)
  <2>1. PICK i \in Slots(capacity) : map[i] = p
    BY Zenon, <1>3 DEF Held
  <2>2. Reachable(map, capacity, i)
    BY Zenon, <1>1, <2>1 DEF IInv, Sound
  <2> QED
    BY Zenon, <1>1, <2>1, <2>2 DEF Reachable, Contains, FoundAt
<1> QED
  BY Zenon, <1>2, <1>3

\* The two counters are the numbers of used and of deleted slots.
LEMMA CountersCount ==
  ASSUME IInv
  PROVE  /\ used = Cardinality(UsedSlots(map, capacity))
         /\ deleted = Cardinality(DeletedSlots(map, capacity))
         /\ used <= capacity
<1>1. /\ used = Cardinality(UsedSlots(map, capacity))
      /\ deleted = Cardinality(DeletedSlots(map, capacity))
  BY Zenon DEF IInv, CountersExact, UsedSlots, DeletedSlots
<1>2. capacity \in Nat /\ 0 \in Slots(capacity)
  BY DEF IInv, TypeOK, Slots
<1>3. UsedSlots(map, capacity) \in SUBSET Slots(capacity)
  BY Zenon DEF UsedSlots
<1> QED
  BY Zenon, <1>1, <1>2, <1>3, SlotCount

\* A search for a port ends at a free slot unless it finds the port.
LEMMA IInvSearchesEnd ==
  ASSUME IInv PROVE SearchesEnd
<1> SUFFICES ASSUME pc \in {"ready", "erased"}, NEW p \in Draw
             PROVE  \E k \in Slots(capacity) :
                      map[Probe(p, k, capacity)] = kFreePort
  BY Zenon DEF SearchesEnd
<1>1. capacity \in Nat \ {0} /\ used \in Nat /\ deleted \in Nat /\ p \in Nat
  BY Zenon, DrawnPorts DEF IInv, TypeOK
<1>2. used + deleted < capacity
  BY <1>1 DEF IInv, Balanced
<1>3. Cardinality(UsedSlots(map, capacity))
        + Cardinality(DeletedSlots(map, capacity)) < capacity
  BY Zenon, <1>2, CountersCount
<1>4. PICK i \in Slots(capacity) : map[i] = kFreePort
  BY Zenon, <1>1, <1>3, FreeSlot
<1>5. PICK k \in Slots(capacity) : Probe(p, k, capacity) = i
  BY Zenon, <1>1, ProbeReaches
<1> QED
  BY Zenon, <1>4, <1>5

-----------------------------------------------------------------------------
(* The invariant is inductive.                                             *)

\* The empty table satisfies the invariant.
LEMMA InitIInv ==
  ASSUME Init PROVE IInv
<1>1. TypeOK /\ capacity % 4 = 0
  BY PortSetAssumption DEF Init, TypeOK, Empty, Slots
<1>2. \A i \in Slots(capacity) : map[i] = kFreePort
  BY Zenon DEF Init, Empty
<1>3. /\ UsedSlots(map, capacity) = {}
      /\ DeletedSlots(map, capacity) = {}
      /\ Held(map, capacity) = {}
  BY <1>2, DrawnPorts
     DEF UsedSlots, DeletedSlots, Held, Used, kFreePort, kDeletedPort
<1>4. Sound(map, capacity)
  BY Zenon, <1>2 DEF Sound, Used
<1>5. CountersExact
  BY Zenon, <1>3, FS_EmptySet DEF CountersExact, UsedSlots, DeletedSlots, Init
<1>6. Balanced /\ Moved
  BY <1>1 DEF Init, Balanced, Moved, TypeOK
<1> QED
  BY Zenon, <1>1, <1>3, <1>4, <1>5, <1>6 DEF Init, IInv

\* How many slots are used and deleted after a slot becomes used.
LEMMA PutCounts ==
  ASSUME NEW n \in Nat, NEW U \in SUBSET Slots(n), NEW D \in SUBSET Slots(n),
         NEW s \in Slots(n), s \notin U
  PROVE  /\ Cardinality(U \cup {s}) = Cardinality(U) + 1
         /\ Cardinality(D \ {s}) =
              IF s \in D THEN Cardinality(D) - 1 ELSE Cardinality(D)
         /\ Cardinality(D \ {s}) \in Nat
<1>1. s \notin D => D \ {s} = D
  BY Zenon
<1>2. D \ {s} \in SUBSET Slots(n)
  BY Zenon
<1> QED
  BY Zenon, <1>1, <1>2, SlotCount

\* Insert keeps the invariant.
LEMMA InsertStep ==
  ASSUME kDeletedPort \notin Draw, IInv, NEW p \in Draw, Insert(p)
  PROVE  IInv'
<1> DEFINE U == UsedSlots(map, capacity)
           D == DeletedSlots(map, capacity)
<1>1. /\ capacity \in Nat \ {0}
      /\ map \in [Slots(capacity) -> Entries]
      /\ used \in Nat /\ deleted \in Nat
      /\ Sound(map, capacity)
  BY Zenon DEF IInv, TypeOK, Entries
<1>2. p \notin Held(map, capacity)
  BY Zenon, ContainsHeld DEF Insert, AllocatePort
<1>3. PICK k \in Slots(capacity) :
        /\ VacantAt(p, k)
        /\ map' = [map EXCEPT ![Probe(p, k, capacity)] = p]
        /\ deleted' = IF map[Probe(p, k, capacity)] = kDeletedPort
                      THEN deleted - 1 ELSE deleted
  BY Zenon DEF Insert
<1> DEFINE s == Probe(p, k, capacity)
<1>4. /\ s \in Slots(capacity) \ U
      /\ map' \in [Slots(capacity) -> Entries]
      /\ Sound(map', capacity)
      /\ Held(map', capacity) = Held(map, capacity) \cup {p}
      /\ UsedSlots(map', capacity) = U \cup {s}
      /\ DeletedSlots(map', capacity) = D \ {s}
  <2>1. Puts(map, capacity, p, k, s, map')
    BY Zenon, <1>1, <1>2, <1>3 DEF Puts, VacantAt
  <2> QED
    BY <2>1, PutEntry
<1>5. U \in SUBSET Slots(capacity) /\ D \in SUBSET Slots(capacity)
  BY Zenon DEF UsedSlots, DeletedSlots
<1>6. s \in D <=> map[s] = kDeletedPort
  BY Zenon, <1>4 DEF DeletedSlots
<1> HIDE DEF s, U, D
<1>7. /\ Cardinality(U \cup {s}) = Cardinality(U) + 1
      /\ Cardinality(D \ {s}) =
           IF s \in D THEN Cardinality(D) - 1 ELSE Cardinality(D)
      /\ Cardinality(D \ {s}) \in Nat
  BY Zenon, <1>1, <1>4, <1>5, PutCounts
<1>8. /\ used' = used + 1
      /\ deleted' = IF s \in D THEN deleted - 1 ELSE deleted
  BY Zenon, <1>3, <1>6 DEF Insert, s
<1>9. used = Cardinality(U) /\ deleted = Cardinality(D)
  BY Zenon, CountersCount DEF U, D
<1>10. /\ used' = Cardinality(UsedSlots(map', capacity))
       /\ deleted' = Cardinality(DeletedSlots(map', capacity))
       /\ used' \in Nat /\ deleted' \in Nat
  BY <1>1, <1>4, <1>7, <1>8, <1>9
<1>11. /\ pc' = "maintain" /\ capacity' = capacity
       /\ UNCHANGED <<new_capacity, target, index>>
       /\ open' = open \cup {p}
       /\ pc = "ready"
  BY Zenon DEF Insert
<1>12. TypeOK'
  BY Zenon, <1>4, <1>10, <1>11 DEF IInv, TypeOK, Entries
<1>13. Sound(map, capacity)' /\ (open = Held(map, capacity))'
  BY Zenon, <1>4, <1>11 DEF IInv
<1>14. CountersExact'
  BY Zenon, <1>10, <1>11 DEF CountersExact, UsedSlots, DeletedSlots
<1>15. Balanced' /\ Moved' /\ (capacity % 4 = 0)'
  BY Zenon, <1>11 DEF IInv, Balanced, Moved
<1> QED
  BY Zenon, <1>12, <1>13, <1>14, <1>15 DEF IInv

\* Closing a port and erasing its entry keeps the invariant.
LEMMA DeleteStep ==
  ASSUME kDeletedPort \notin Draw, IInv, NEW p \in open, Delete(p)
  PROVE  IInv'
<1> DEFINE U == UsedSlots(map, capacity)
           D == DeletedSlots(map, capacity)
<1>1. /\ capacity \in Nat \ {0}
      /\ map \in [Slots(capacity) -> Entries]
      /\ used \in Nat /\ deleted \in Nat
      /\ Sound(map, capacity)
      /\ p \in Draw /\ p \in Nat
  BY Zenon, DrawnPorts DEF IInv, TypeOK, Entries
<1>2. PICK k \in Slots(capacity) :
        /\ FoundAt(p, k)
        /\ map' = [map EXCEPT ![Probe(p, k, capacity)] = kDeletedPort]
  BY Zenon DEF Delete
<1> DEFINE s == Probe(p, k, capacity)
<1>3. s \in Slots(capacity)
  <2>1. k \in Nat
    BY DEF Slots
  <2> QED
    BY Zenon, <1>1, <2>1, ProbeInSlots
<1>4. /\ s \in U \ D
      /\ map' \in [Slots(capacity) -> Entries]
      /\ Sound(map', capacity)
      /\ Held(map', capacity) = Held(map, capacity) \ {p}
      /\ UsedSlots(map', capacity) = U \ {s}
      /\ DeletedSlots(map', capacity) = D \cup {s}
  <2>1. Erases(map, capacity, p, s, map')
    BY Zenon, <1>1, <1>2, <1>3 DEF Erases, FoundAt
  <2> QED
    BY <2>1, EraseEntry
<1>5. U \in SUBSET Slots(capacity) /\ D \in SUBSET Slots(capacity)
  BY Zenon DEF UsedSlots, DeletedSlots
<1> HIDE DEF s, U, D
<1>6. /\ Cardinality(U \ {s}) = Cardinality(U) - 1
      /\ Cardinality(U) >= 1
      /\ Cardinality(D \cup {s}) = Cardinality(D) + 1
  <2>1. Cardinality(U \ {s}) = Cardinality(U) - 1 /\ Cardinality(U) >= 1
    BY Zenon, <1>1, <1>3, <1>4, <1>5, SlotCount
  <2>2. Cardinality(D \cup {s}) = Cardinality(D) + 1
    BY Zenon, <1>1, <1>3, <1>4, <1>5, SlotCount
  <2> QED
    BY Zenon, <2>1, <2>2
<1>7. used = Cardinality(U) /\ deleted = Cardinality(D)
  BY Zenon, CountersCount DEF U, D
<1>8. /\ used' = used - 1 /\ deleted' = deleted + 1
      /\ pc' = "erased" /\ capacity' = capacity
      /\ UNCHANGED <<new_capacity, target, index>>
      /\ open' = open \ {p}
      /\ pc \in {"ready", "erased"}
  BY Zenon DEF Delete
<1>9. /\ used' = Cardinality(UsedSlots(map', capacity))
      /\ deleted' = Cardinality(DeletedSlots(map', capacity))
      /\ used' \in Nat /\ deleted' \in Nat
  BY <1>1, <1>4, <1>6, <1>7, <1>8
<1>10. TypeOK'
  BY Zenon, <1>4, <1>8, <1>9 DEF IInv, TypeOK, Entries
<1>11. Sound(map, capacity)' /\ (open = Held(map, capacity))'
  BY Zenon, <1>4, <1>8 DEF IInv
<1>12. CountersExact'
  BY Zenon, <1>8, <1>9 DEF CountersExact, UsedSlots, DeletedSlots
<1>13. used + deleted < capacity
  BY <1>1, <1>8 DEF IInv, Balanced
<1>14. Balanced'
  BY <1>1, <1>8, <1>13 DEF Balanced
<1>15. Moved' /\ (capacity % 4 = 0)'
  BY Zenon, <1>8 DEF IInv, Moved
<1> QED
  BY Zenon, <1>10, <1>11, <1>12, <1>14, <1>15 DEF IInv

\* Rebalance keeps the invariant.
LEMMA RebalanceStep ==
  ASSUME IInv, Rebalance
  PROVE  IInv'
<1>1. /\ TypeOK' /\ Balanced' /\ Moved'
      /\ (capacity % 4 = 0)'
  BY Zenon DEF IInv, Rebalance, TypeOK, Balanced, Moved
<1>2. CountersExact'
  BY Zenon DEF IInv, Rebalance, CountersExact
<1>3. Sound(map, capacity)' /\ (open = Held(map, capacity))'
  BY Zenon DEF IInv, Rebalance
<1> QED
  BY Zenon, <1>1, <1>2, <1>3 DEF IInv

\* A new table holds nothing.
LEMMA EmptyTable ==
  ASSUME NEW n \in Nat \ {0}
  PROVE  /\ Empty(n) \in [Slots(n) -> Draw \cup {kFreePort}]
         /\ Sound(Empty(n), n)
         /\ Held(Empty(n), n) = {}
         /\ UsedSlots(Empty(n), n) = {}
<1>1. \A i \in Slots(n) : Empty(n)[i] = kFreePort
  BY Zenon DEF Empty
<1>2. Sound(Empty(n), n)
  BY Zenon, <1>1 DEF Sound, Used
<1>3. Held(Empty(n), n) = {} /\ UsedSlots(Empty(n), n) = {}
  BY Zenon, <1>1, DrawnPorts DEF Held, UsedSlots, Used
<1>4. Empty(n) \in [Slots(n) -> Draw \cup {kFreePort}]
  BY Zenon DEF Empty
<1> QED
  BY Zenon, <1>2, <1>3, <1>4

\* MaintainInvariants, which decides whether and how far to rehash, keeps
\* the invariant.
LEMMA MaintainStep ==
  ASSUME IInv, MaintainInvariants
  PROVE  IInv'
<1>1. /\ pc = "maintain"
      /\ UNCHANGED <<capacity, map, used, deleted, open>>
  BY Zenon DEF MaintainInvariants
<1>2. /\ CountersExact' /\ Sound(map, capacity)'
      /\ (open = Held(map, capacity))' /\ (capacity % 4 = 0)'
  BY Zenon, <1>1 DEF IInv, CountersExact
<1>3. /\ capacity \in Nat \ {0} /\ used \in Nat /\ deleted \in Nat
      /\ capacity % 4 = 0
  BY Zenon DEF IInv, TypeOK
<1>4. used <= capacity
  BY Zenon, CountersCount
<1>5. ASSUME NEW n \in {capacity, 2 * capacity}, StartRehash(n),
             used <= (n \div 4) * 3
      PROVE  IInv'
  <2>1. n \in Nat \ {0}
    BY <1>3, <1>5
  <2>2. /\ new_capacity' = n /\ target' = Empty(n)
        /\ index' = 0 /\ pc' = "rehash"
    BY Zenon, <1>5 DEF StartRehash
  <2>3. target' \in [Slots(n) -> Draw \cup {kFreePort}]
    BY Zenon, <2>1, <2>2, EmptyTable
  <2>4. TypeOK'
    BY <1>1, <1>3, <2>2, <2>3 DEF IInv, TypeOK
  <2>5. Balanced'
    BY Zenon, <1>1, <1>5, <2>2 DEF Balanced
  <2>6. Moved'
    <3>1. /\ Sound(target', n) /\ Held(target', n) = {}
          /\ UsedSlots(target', n) = {}
      BY Zenon, <2>1, <2>2, EmptyTable
    <3>2. /\ {q \in Draw : \E i \in 0 .. index' - 1 : map'[i] = q} = {}
          /\ {i \in 0 .. index' - 1 : Used(map'[i])} = {}
      BY <2>2
    <3> QED
      BY Zenon, <2>2, <3>1, <3>2 DEF Moved
  <2> QED
    BY Zenon, <1>2, <2>4, <2>5, <2>6 DEF IInv
<1>6. CASE used > (capacity \div 4) * 3 /\ StartRehash(2 * capacity)
  <2>1. used <= ((2 * capacity) \div 4) * 3
    BY <1>3, <1>4
  <2> QED
    BY Zenon, <1>5, <1>6, <2>1
<1>7. CASE used <= (capacity \div 4) * 3 /\ StartRehash(capacity)
  BY Zenon, <1>5, <1>7
<1>8. CASE /\ used <= (capacity \div 4) * 3
           /\ capacity - used - deleted >= deleted
           /\ pc' = "ready"
           /\ UNCHANGED <<new_capacity, target, index>>
  <2>1. TypeOK' /\ Balanced' /\ Moved'
    BY Zenon, <1>1, <1>8 DEF IInv, TypeOK, Balanced, Moved
  <2> QED
    BY Zenon, <1>2, <2>1 DEF IInv
<1> QED
  BY Zenon, <1>6, <1>7, <1>8 DEF MaintainInvariants

\* Where Rehash is after it has looked at slot index.
LEMMA RehashMoveStep ==
  ASSUME kDeletedPort \notin Draw, IInv, RehashMove
  PROVE  IInv'
<1> DEFINE n == new_capacity
           q == map[index]
           Seen == {i \in 0 .. index - 1 : Used(map[i])}
<1>1. /\ capacity \in Nat \ {0} /\ n \in Nat \ {0}
      /\ index \in 0 .. capacity /\ index < capacity /\ index' = index + 1
      /\ index \in Slots(capacity)
      /\ map \in [Slots(capacity) -> Entries]
      /\ target \in [Slots(n) -> Draw \cup {kFreePort}]
  BY DEF IInv, TypeOK, RehashMove, Slots, Entries
<1>2. /\ pc = "rehash"
      /\ UNCHANGED <<capacity, map, used, deleted, pc, new_capacity, open>>
  BY Zenon DEF RehashMove
<1>3. /\ Sound(target, n)
      /\ Held(target, n) = {p \in Draw : \E i \in 0 .. index - 1 : map[i] = p}
      /\ Cardinality(UsedSlots(target, n)) = Cardinality(Seen)
  BY Zenon, <1>2 DEF IInv, Moved
<1>4. /\ CountersExact' /\ Sound(map, capacity)'
      /\ (open = Held(map, capacity))' /\ (capacity % 4 = 0)' /\ Balanced'
  BY Zenon, <1>2 DEF IInv, CountersExact, Balanced
<1>5. 0 .. index' - 1 = (0 .. index - 1) \cup {index}
  BY <1>1
<1>6. CASE ~ Used(q) /\ UNCHANGED target
  <2>1. TypeOK'
    BY <1>1, <1>2, <1>6 DEF IInv, TypeOK
  <2>2. {p \in Draw : \E i \in 0 .. index' - 1 : map[i] = p}
          = {p \in Draw : \E i \in 0 .. index - 1 : map[i] = p}
    BY Zenon, <1>5, <1>6, DrawnPorts DEF Used
  <2>3. {i \in 0 .. index' - 1 : Used(map[i])} = Seen
    BY Zenon, <1>5, <1>6
  <2>4. Moved'
    BY Zenon, <1>2, <1>3, <1>6, <2>2, <2>3 DEF Moved
  <2> QED
    BY Zenon, <1>4, <2>1, <2>4 DEF IInv
<1>7. CASE Used(q) /\ target' # target
  <2>1. q \in Draw
    BY Zenon, <1>1, <1>7 DEF Entries, Used
  <2>2. PICK k \in Slots(n) :
          /\ target[Probe(q, k, n)] = kFreePort
          /\ \A j \in 0 .. k - 1 : target[Probe(q, j, n)] # kFreePort
          /\ target' = [target EXCEPT ![Probe(q, k, n)] = q]
    BY Zenon, <1>7 DEF RehashMove
  <2> DEFINE s == Probe(q, k, n)
  <2>3. q \notin Held(target, n)
    <3>1. \A i \in 0 .. index - 1 : i \in Slots(capacity) /\ i # index
      BY <1>1 DEF Slots
    <3>2. \A i \in 0 .. index - 1 : map[i] # q
      BY Zenon, <1>1, <1>7, <3>1 DEF IInv, Sound
    <3> QED
      BY Zenon, <1>3, <3>2
  <2>4. \A j \in 0 .. k - 1 : Used(target[Probe(q, j, n)])
    <3> SUFFICES ASSUME NEW j \in 0 .. k - 1
                 PROVE  Used(target[Probe(q, j, n)])
      BY Zenon
    <3>1. Probe(q, j, n) \in Slots(n)
      BY Zenon, <1>1, <2>1, ProbeBefore
    <3>2. target[Probe(q, j, n)] \in Draw
      BY Zenon, <1>1, <2>2, <3>1
    <3> QED
      BY Zenon, <3>2, DrawnPorts DEF Used
  <2>5. target \in [Slots(n) -> Entries]
    BY Zenon, <1>1 DEF Entries
  <2>6. Puts(target, n, q, k, s, target')
    BY Zenon, <1>1, <1>3, <2>1, <2>2, <2>3, <2>4, <2>5 DEF Puts, Used
  <2>7. /\ s \in Slots(n) \ UsedSlots(target, n)
        /\ Sound(target', n)
        /\ Held(target', n) = Held(target, n) \cup {q}
        /\ UsedSlots(target', n) = UsedSlots(target, n) \cup {s}
    BY <2>6, PutEntry
  <2>8. target' \in [Slots(n) -> Draw \cup {kFreePort}]
    BY Zenon, <1>1, <2>1, <2>2, <2>7
  <2>9. TypeOK'
    BY <1>1, <1>2, <2>8 DEF IInv, TypeOK
  <2>10. Held(target', n)
           = {p \in Draw : \E i \in 0 .. index' - 1 : map[i] = p}
    BY Zenon, <1>3, <1>5, <2>1, <2>7
  <2>11. {i \in 0 .. index' - 1 : Used(map[i])} = Seen \cup {index}
    BY Zenon, <1>5, <1>7
  <2>12. Cardinality(Seen \cup {index}) = Cardinality(Seen) + 1
    <3>1. Seen \in SUBSET Slots(capacity) /\ index \notin Seen
      BY <1>1 DEF Slots
    <3> HIDE DEF Seen
    <3> QED
      BY Zenon, <1>1, <3>1, SlotCount
  <2>13. Cardinality(UsedSlots(target, n) \cup {s})
           = Cardinality(UsedSlots(target, n)) + 1
    <3>1. UsedSlots(target, n) \in SUBSET Slots(n)
      BY Zenon DEF UsedSlots
    <3> HIDE DEF s
    <3> QED
      BY Zenon, <1>1, <2>7, <3>1, SlotCount
  <2>14. Moved'
    <3>1. Cardinality(UsedSlots(target', n))
            = Cardinality({i \in 0 .. index' - 1 : Used(map[i])})
      BY Zenon, <1>3, <2>7, <2>11, <2>12, <2>13
    <3> QED
      BY Zenon, <1>2, <2>7, <2>10, <3>1 DEF Moved
  <2> QED
    BY Zenon, <1>4, <2>9, <2>14 DEF IInv
<1>8. Used(q) => target' # target
  <2> SUFFICES ASSUME Used(q) PROVE target' # target
    BY Zenon
  <2>1. q \in Draw /\ q \in Nat
    BY Zenon, <1>1, DrawnPorts DEF Entries, Used
  <2>2. PICK k \in Slots(n) :
          /\ target[Probe(q, k, n)] = kFreePort
          /\ target' = [target EXCEPT ![Probe(q, k, n)] = q]
    BY Zenon DEF RehashMove
  <2>3. Probe(q, k, n) \in Slots(n)
    BY <1>1, <2>1, ProbeInSlots DEF Slots
  <2> QED
    BY Zenon, <1>1, <2>2, <2>3 DEF Used
<1> QED
  BY Zenon, <1>6, <1>7, <1>8 DEF RehashMove

\* The end of Rehash, where the new table replaces the old one, keeps the
\* invariant.
LEMMA RehashDoneStep ==
  ASSUME kDeletedPort \notin Draw, IInv, RehashDone
  PROVE  IInv'
<1>1. /\ pc = "rehash" /\ index = capacity
      /\ map' = target /\ capacity' = new_capacity /\ deleted' = 0
      /\ pc' = "ready" /\ target' = Empty(new_capacity) /\ index' = 0
      /\ UNCHANGED <<used, new_capacity, open>>
  BY Zenon DEF RehashDone
<1>2. /\ capacity \in Nat \ {0} /\ capacity % 4 = 0 /\ used \in Nat
      /\ new_capacity \in {capacity, 2 * capacity}
      /\ new_capacity \in Nat \ {0}
      /\ target \in [Slots(new_capacity) -> Draw \cup {kFreePort}]
  BY DEF IInv, TypeOK
<1>3. 0 .. index - 1 = Slots(capacity)
  BY Zenon, <1>1 DEF Slots
<1>4. /\ Sound(target, new_capacity)
      /\ Held(target, new_capacity) = Held(map, capacity)
      /\ Cardinality(UsedSlots(target, new_capacity))
           = Cardinality(UsedSlots(map, capacity))
  BY Zenon, <1>1, <1>3 DEF IInv, Moved, Held, UsedSlots
<1>5. target' \in [Slots(new_capacity) -> Draw \cup {kFreePort}]
  BY Zenon, <1>1, <1>2, EmptyTable
<1>6. TypeOK'
  BY <1>1, <1>2, <1>5 DEF IInv, TypeOK
<1>7. (capacity % 4 = 0)'
  BY <1>1, <1>2
<1>8. Sound(map, capacity)' /\ (open = Held(map, capacity))'
  BY Zenon, <1>1, <1>4 DEF IInv
<1>9. used' = Cardinality(UsedSlots(map', capacity'))
  BY Zenon, <1>1, <1>4, CountersCount
<1>10. DeletedSlots(map', capacity') = {}
  BY <1>1, <1>2 DEF DeletedSlots, kDeletedPort, kFreePort
<1>11. CountersExact'
  BY Zenon, <1>1, <1>9, <1>10, FS_EmptySet
     DEF CountersExact, UsedSlots, DeletedSlots
<1>12. used <= (new_capacity \div 4) * 3
  BY Zenon, <1>1 DEF IInv, Balanced
<1>13. Balanced' /\ Moved'
  BY <1>1, <1>2, <1>12 DEF Balanced, Moved
<1> QED
  BY Zenon, <1>6, <1>7, <1>8, <1>11, <1>13 DEF IInv

\* Every step keeps the invariant.
LEMMA IInvInductive ==
  ASSUME kDeletedPort \notin Draw
  PROVE  IInv /\ [Next]_vars => IInv'
<1> SUFFICES ASSUME IInv, [Next]_vars PROVE IInv'
  BY Zenon
<1>1. CASE Next
  BY Zenon, <1>1, InsertStep, DeleteStep, RebalanceStep, MaintainStep,
     RehashMoveStep, RehashDoneStep DEF Next
<1>2. CASE UNCHANGED vars
  <2>1. TypeOK' /\ Balanced' /\ Moved' /\ CountersExact'
    BY Zenon, <1>2 DEF vars, IInv, TypeOK, Balanced, Moved, CountersExact
  <2>2. /\ Sound(map, capacity)' /\ (open = Held(map, capacity))'
        /\ (capacity % 4 = 0)'
    BY Zenon, <1>2 DEF vars, IInv
  <2> QED
    BY Zenon, <2>1, <2>2 DEF IInv
<1> QED
  BY Zenon, <1>1, <1>2

-----------------------------------------------------------------------------
(* Theorems.  Each assumes that the generator never draws the marker of a  *)
(* deleted slot, which AllocatePort means to exclude and does not.         *)

\* The inductive invariant of the table: every entry can be reached from its
\* home slot, no port is entered twice, the table holds the open ports, and
\* the counters that MaintainInvariants reads are exact.
THEOREM TableInvariant ==
  ASSUME kDeletedPort \notin Draw
  PROVE  Spec => []IInv
<1>1. Init => IInv
  BY Zenon, InitIInv
<1>2. IInv /\ [Next]_vars => IInv'
  BY Zenon, IInvInductive
<1> QED
  BY <1>1, <1>2, PTL DEF Spec

\* The table, its counters and the table that Rehash builds have their types.
THEOREM TypeCorrect ==
  ASSUME kDeletedPort \notin Draw
  PROVE  Spec => []TypeOK
<1>1. IInv => TypeOK
  BY Zenon DEF IInv
<1> QED
  BY <1>1, TableInvariant, PTL

\* FindIndexOfPort finds a port exactly if it was allocated and not closed.
THEOREM LookupCorrect ==
  ASSUME kDeletedPort \notin Draw
  PROVE  Spec => []FindsExactlyOpenPorts
<1>1. IInv => FindsExactlyOpenPorts
  BY Zenon, ContainsHeld DEF FindsExactlyOpenPorts, IInv
<1> QED
  BY <1>1, TableInvariant, PTL

\* The loop of FindIndexOfPort never runs around the table: its ASSERT holds.
THEOREM SearchesTerminate ==
  ASSUME kDeletedPort \notin Draw
  PROVE  Spec => []SearchesEnd
<1>1. IInv => SearchesEnd
  BY Zenon, IInvSearchesEnd
<1> QED
  BY <1>1, TableInvariant, PTL

\* used_ and deleted_ are the numbers of used and of deleted slots.
THEOREM CountersCorrect ==
  ASSUME kDeletedPort \notin Draw
  PROVE  Spec => []CountersExact
<1>1. IInv => CountersExact
  BY Zenon DEF IInv
<1> QED
  BY <1>1, TableInvariant, PTL

=============================================================================
