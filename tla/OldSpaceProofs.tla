-------------------------- MODULE OldSpaceProofs --------------------------
(***************************************************************************)
(* Proofs about OldSpace, for any mutators, any finite set of marker tasks *)
(* and any large pages: the phase and the counters under tasks_lock tell   *)
(* what is going on, a thread that collects or iterates has the heap for   *)
(* itself, the list of large pages stays intact and no task outlives the   *)
(* group.                                                                  *)
(***************************************************************************)
EXTENDS OldSpace, TLAPS

-----------------------------------------------------------------------------
(* What the proofs use of the library's theorems: sets of marker tasks are *)
(* counted one by one.  The lemmas assume it, and Library derives it at    *)
(* the end of the module: the theorems are in scope from there on only, as *)
(* each of them makes every proof step that follows it slower to check.    *)
LibraryFacts ==
  \A T \in SUBSET MarkTask :
    /\ Cardinality(T) \in Nat
    /\ Cardinality(T) = 0 <=> T = {}
    /\ \A m \in T : Cardinality(T \ {m}) = Cardinality(T) - 1

(* Two sequences with the same elements are the same. *)
LEMMA SameSequence ==
  ASSUME NEW T, NEW s \in Seq(T), NEW u \in Seq(T),
         Len(s) = Len(u), \A i \in 1..Len(s) : s[i] = u[i]
  PROVE  s = u
OBVIOUS

(* A sequence over a set is one over a larger set. *)
LEMMA WiderSequence ==
  ASSUME NEW T, NEW U, NEW s \in Seq(T), T \subseteq U
  PROVE  s \in Seq(U)
OBVIOUS

(* What a mutator has still to do is a path: each step leads from one      *)
(* place to the next, at a level of nested safepoint operations.           *)

(* Steps that need no safepoint. *)
Outside == {"safepoint", "check_finish", "check_start", "add_page",
            "if_marking", "wait_markers", "wait_sweepers"}
(* The others; shutdown is no part of an operation. *)
Inside == {"resume", "begin", "helper", "start_task", "roots", "sweep_here",
           "end", "cards", "visit", "scavenged", "wait_at_safepoint", "idle",
           "idle_old", "iterate_begin", "iterate", "iterate_end"}

Act == [do : Outside \cup Inside,
        how : {"", "mark", "sweep", "compact", "new", "full"}]

Modes == {"free", "marking", "begun", "starting", "sweeping", "ending",
          "visiting", "iterating", "iterated"}

(* The mode in which step x is taken, and the one it leads to. *)
Entry(x) ==
  CASE x.do = "helper" -> IF x.how = "mark" THEN "marking" ELSE "begun"
    [] x.do \in {"start_task", "roots"} -> "starting"
    [] x.do = "sweep_here" -> "sweeping"
    [] x.do = "end" -> "ending"
    [] x.do = "visit" -> "visiting"
    [] x.do = "iterate" -> "iterating"
    [] x.do = "iterate_end" -> "iterated"
    [] OTHER -> "free"

Exit(x) ==
  CASE x.do = "begin" -> IF x.how = "mark" THEN "marking" ELSE "begun"
    [] x.do \in {"helper", "roots", "sweep_here"} -> "ending"
    [] x.do = "start_task" -> "starting"
    [] x.do = "cards" -> "visiting"
    [] x.do = "iterate_begin" -> "iterating"
    [] x.do = "iterate" -> "iterated"
    [] OTHER -> "free"

Place == [level : Nat, mode : Modes]
Spot(n, mode) == [level |-> n, mode |-> mode]
FreeAt(n) == Spot(n, "free")

Legal(x, a, b) ==
  /\ a.mode = Entry(x) /\ b.mode = Exit(x)
  /\ x.do = "safepoint" => b.level = a.level + 1
  /\ x.do = "resume" => a.level = b.level + 1
  /\ x.do \notin {"safepoint", "resume"} => b.level = a.level
  /\ x.do \in Inside => a.level > 0

(* The steps of s lead from place a to place b. *)
Path(s, a, b) ==
  \E d \in [1..Len(s) + 1 -> Place] :
    /\ d[1] = a /\ d[Len(s) + 1] = b
    /\ \A i \in 1..Len(s) : Legal(s[i], d[i], d[i + 1])

Leads(s, a, b) == s \in Seq(Act) /\ Path(s, a, b)

(* No step leads nowhere. *)
LEMMA LeadsNowhere ==
  ASSUME NEW a \in Place
  PROVE  Leads(<<>>, a, a)
<1> DEFINE d == [i \in 1..1 |-> a]
<1>1. d \in [1..Len(<<>>) + 1 -> Place] /\ d[1] = a /\ d[Len(<<>>) + 1] = a
  OBVIOUS
<1>2. Len(<<>>) = 0 /\ <<>> \in Seq(Act) /\ 1..0 = {}
  OBVIOUS
<1> HIDE DEF d
<1> QED
  BY Zenon, <1>1, <1>2 DEF Leads, Path

(* Where nothing is left to do the place is the last one. *)
LEMMA LeadsEmpty ==
  ASSUME NEW a, NEW b, Leads(<<>>, a, b)
  PROVE  a = b
BY DEF Leads, Path

(* One step. *)
LEMMA LeadsOne ==
  ASSUME NEW x \in Act, NEW a \in Place, NEW b \in Place, Legal(x, a, b)
  PROVE  Leads(<<x>>, a, b)
<1> DEFINE d == [i \in 1..2 |-> IF i = 1 THEN a ELSE b]
<1>1. /\ d \in [1..Len(<<x>>) + 1 -> Place]
      /\ d[1] = a /\ d[Len(<<x>>) + 1] = b
  OBVIOUS
<1>2. \A i \in 1..Len(<<x>>) : Legal(<<x>>[i], d[i], d[i + 1])
  <2>1. \A i \in 1..Len(<<x>>) : i = 1
    OBVIOUS
  <2>2. <<x>>[1] = x /\ d[1] = a /\ d[1 + 1] = b
    OBVIOUS
  <2> QED
    BY Zenon, <2>1, <2>2
<1>3. <<x>> \in Seq(Act)
  OBVIOUS
<1> HIDE DEF d
<1> QED
  BY Zenon, <1>1, <1>2, <1>3 DEF Leads, Path

(* The first step, and the rest. *)
LEMMA LeadsTail ==
  ASSUME NEW s, s # <<>>, NEW a, NEW b, Leads(s, a, b)
  PROVE  /\ Head(s) \in Act /\ a \in Place
         /\ \E c \in Place : Legal(Head(s), a, c) /\ Leads(Tail(s), c, b)
<1>1. s \in Seq(Act) /\ Len(s) \in Nat \ {0}
  BY DEF Leads
<1>2. PICK d \in [1..Len(s) + 1 -> Place] :
         /\ d[1] = a /\ d[Len(s) + 1] = b
         /\ \A i \in 1..Len(s) : Legal(s[i], d[i], d[i + 1])
  BY Zenon DEF Leads, Path
<1>3. /\ Head(s) = s[1] /\ Head(s) \in Act
      /\ Tail(s) \in Seq(Act) /\ Len(Tail(s)) = Len(s) - 1
      /\ \A i \in 1..Len(Tail(s)) : Tail(s)[i] = s[i + 1]
  BY <1>1
<1> DEFINE n == Len(s)
           e == [i \in 1..n |-> d[i + 1]]
<1>4. n \in Nat \ {0}
  BY Zenon, <1>1
<1> HIDE DEF n
<1>5. a \in Place /\ d[2] \in Place /\ Legal(s[1], a, d[2])
  <2>1. 1 \in 1..n /\ 1 \in 1..n + 1 /\ 2 \in 1..n + 1 /\ 1 + 1 = 2
    BY <1>4
  <2> QED
    BY Zenon, <1>2, <2>1 DEF n
<1>6. /\ e \in [1..(n - 1) + 1 -> Place] /\ e[1] = d[2]
      /\ e[(n - 1) + 1] = d[n + 1]
  BY <1>2, <1>4 DEF n
<1>7. ASSUME NEW i \in 1..n - 1
      PROVE  Legal(s[i + 1], e[i], e[i + 1])
  <2>1. i \in 1..n /\ i + 1 \in 1..n
    BY <1>4
  <2>2. e[i] = d[i + 1] /\ e[i + 1] = d[(i + 1) + 1]
    BY Zenon, <2>1
  <2> QED
    BY Zenon, <1>2, <2>1, <2>2 DEF n
<1>8. Path(Tail(s), d[2], b)
  <2> HIDE DEF e
  <2> DEFINE u == Tail(s)
  <2>1. Len(u) = n - 1 /\ \A i \in 1..Len(u) : u[i] = s[i + 1]
    BY Zenon, <1>3 DEF n
  <2> HIDE DEF u
  <2>2. \A i \in 1..Len(u) : Legal(u[i], e[i], e[i + 1])
    BY Zenon, <1>7, <2>1
  <2>3. Path(u, d[2], b)
    BY Zenon, <1>2, <1>6, <2>1, <2>2 DEF Path, n
  <2> QED
    BY Zenon, <2>3 DEF u
<1> QED
  BY Zenon, <1>3, <1>5, <1>8 DEF Leads

(* One path after the other. *)
LEMMA LeadsOn ==
  ASSUME NEW s, NEW u, NEW a, NEW b, NEW c, Leads(s, a, b), Leads(u, b, c)
  PROVE  Leads(s \o u, a, c)
<1>1. s \in Seq(Act) /\ u \in Seq(Act) /\ s \o u \in Seq(Act)
  BY DEF Leads
<1>2. PICK d \in [1..Len(s) + 1 -> Place] :
         /\ d[1] = a /\ d[Len(s) + 1] = b
         /\ \A i \in 1..Len(s) : Legal(s[i], d[i], d[i + 1])
  BY Zenon DEF Leads, Path
<1>3. PICK e \in [1..Len(u) + 1 -> Place] :
         /\ e[1] = b /\ e[Len(u) + 1] = c
         /\ \A i \in 1..Len(u) : Legal(u[i], e[i], e[i + 1])
  BY Zenon DEF Leads, Path
<1> DEFINE m == Len(s)
           n == Len(u)
           w == s \o u
           f == [i \in 1..m + n + 1 |-> IF i <= m THEN d[i] ELSE e[i - m]]
<1>4. /\ m \in Nat /\ n \in Nat /\ Len(w) = m + n
      /\ \A i \in 1..m : w[i] = s[i]
      /\ \A i \in 1..n : w[m + i] = u[i]
  BY <1>1
<1> HIDE DEF m, n, w
<1>5. f \in [1..(m + n) + 1 -> Place]
  <2>1. ASSUME NEW i \in 1..m + n + 1
        PROVE  (IF i <= m THEN d[i] ELSE e[i - m]) \in Place
    <3>1. CASE i <= m
      <4>1. i \in 1..m + 1
        BY <1>4, <3>1
      <4> QED
        BY Zenon, <3>1, <4>1 DEF m
    <3>2. CASE ~(i <= m)
      <4>1. i - m \in 1..n + 1
        BY <1>4, <3>2
      <4> QED
        BY Zenon, <3>2, <4>1 DEF n
    <3> QED
      BY Zenon, <3>1, <3>2
  <2> QED
    BY Zenon, <1>4, <2>1
<1>6. /\ \A i \in 1..m : f[i] = d[i]
      /\ \A i \in 1..n + 1 : f[m + i] = e[i]
  BY <1>4
<1>7. f[m + 1] = b /\ d[m + 1] = b
  <2>1. 1 \in 1..n + 1
    BY <1>4
  <2> QED
    BY Zenon, <1>2, <1>3, <1>6, <2>1 DEF m
<1>8. f[1] = a
  <2>1. CASE m = 0
    BY <1>2, <1>7, <2>1 DEF m
  <2>2. CASE m # 0
    <3>1. 1 \in 1..m
      BY <1>4, <2>2
    <3> QED
      BY Zenon, <1>2, <1>6, <3>1
  <2> QED
    BY Zenon, <2>1, <2>2
<1>9. f[(m + n) + 1] = c
  <2>1. n + 1 \in 1..n + 1 /\ (m + n) + 1 = m + (n + 1)
    BY <1>4
  <2> QED
    BY <1>3, <1>6, <2>1 DEF n
<1>10. ASSUME NEW i \in 1..m + n
       PROVE  Legal(w[i], f[i], f[i + 1])
  <2>1. CASE i \in 1..m
    <3>1. f[i] = d[i] /\ w[i] = s[i]
      BY Zenon, <1>4, <1>6, <2>1
    <3>2. f[i + 1] = d[i + 1]
      <4>1. CASE i = m
        BY Zenon, <1>7, <4>1
      <4>2. CASE i # m
        <5>1. i + 1 \in 1..m
          BY <1>4, <2>1, <4>2
        <5> QED
          BY Zenon, <1>6, <5>1
      <4> QED
        BY Zenon, <4>1, <4>2
    <3> QED
      BY Zenon, <1>2, <2>1, <3>1, <3>2 DEF m
  <2>2. CASE i \notin 1..m
    <3> DEFINE j == i - m
    <3>1. /\ j \in 1..n /\ j \in 1..n + 1 /\ j + 1 \in 1..n + 1
          /\ i = m + j /\ i + 1 = m + (j + 1)
      BY <1>4, <2>2
    <3> HIDE DEF j, f
    <3>2. w[i] = u[j] /\ f[i] = e[j] /\ f[i + 1] = e[j + 1]
      BY Zenon, <1>4, <1>6, <3>1
    <3> QED
      BY Zenon, <1>3, <3>1, <3>2 DEF n
  <2> QED
    BY Zenon, <2>1, <2>2
<1>11. Path(w, a, c)
  <2> HIDE DEF f
  <2>1. Len(w) = m + n
    BY Zenon, <1>4
  <2>2. /\ f \in [1..Len(w) + 1 -> Place] /\ f[1] = a /\ f[Len(w) + 1] = c
        /\ \A i \in 1..Len(w) : Legal(w[i], f[i], f[i + 1])
    BY Zenon, <1>5, <1>8, <1>9, <1>10, <2>1
  <2> QED
    BY Zenon, <2>2 DEF Path
<1> QED
  BY Zenon, <1>1, <1>11 DEF Leads, w

-----------------------------------------------------------------------------
(* The operations are paths.                                               *)

Hows == {"", "mark", "sweep", "compact", "new", "full"}

(* One step of a kind, at level n. *)
LEMMA OneStep ==
  ASSUME NEW do \in Outside \cup Inside, NEW how \in Hows, NEW n \in Nat,
         do \notin {"safepoint", "resume"}, do \in Inside => n > 0
  PROVE  LET x == [do |-> do, how |-> how]
         IN Leads(<<x>>, Spot(n, Entry(x)), Spot(n, Exit(x)))
<1> DEFINE x == [do |-> do, how |-> how]
<1>1. x \in Act /\ x.do = do
  BY Zenon DEF Act, Hows
<1> HIDE DEF x
<1>2. Entry(x) \in Modes /\ Exit(x) \in Modes
  BY Zenon DEF Entry, Exit, Modes
<1>3. /\ Spot(n, Entry(x)) \in Place /\ Spot(n, Exit(x)) \in Place
      /\ Legal(x, Spot(n, Entry(x)), Spot(n, Exit(x)))
  BY Zenon, <1>1, <1>2 DEF Legal, Spot, Place
<1>4. Leads(<<x>>, Spot(n, Entry(x)), Spot(n, Exit(x)))
  BY Zenon, <1>1, <1>3, LeadsOne
<1> QED
  BY Zenon, <1>4 DEF x

(* The steps that are taken in no particular mode. *)
Plain == {"check_finish", "check_start", "add_page", "if_marking",
          "wait_markers", "wait_sweepers", "scavenged", "wait_at_safepoint",
          "idle", "idle_old"}

(* A plain step is a path from a depth it may be taken at to the same depth,
   in no mode before and after. *)
LEMMA PlainStep ==
  ASSUME NEW do \in Plain, NEW how \in Hows, NEW n \in Nat,
         do \in Inside => n > 0
  PROVE  Leads(<<[do |-> do, how |-> how]>>, FreeAt(n), FreeAt(n))
<1> DEFINE x == [do |-> do, how |-> how]
<1>1. Entry(x) = "free" /\ Exit(x) = "free"
  BY Zenon DEF Entry, Exit, Plain
<1>2. do \in Outside \cup Inside /\ do \notin {"safepoint", "resume"}
  BY Zenon DEF Plain, Outside, Inside
<1> QED
  BY Zenon, <1>1, <1>2, OneStep DEF FreeAt

(* Three steps in a row. *)
LEMMA LeadsThree ==
  ASSUME NEW x, NEW y, NEW z, NEW a, NEW b, NEW c, NEW d,
         Leads(<<x>>, a, b), Leads(<<y>>, b, c), Leads(<<z>>, c, d)
  PROVE  Leads(<<x, y, z>>, a, d)
<1>1. <<x>> \in Seq(Act) /\ <<y>> \in Seq(Act) /\ <<z>> \in Seq(Act)
  BY Zenon DEF Leads
<1>2. x \in Act /\ y \in Act /\ z \in Act
  BY <1>1
<1>3. <<x, y, z>> = (<<x>> \o <<y>>) \o <<z>>
  <2> DEFINE s == <<x, y, z>>
             u == (<<x>> \o <<y>>) \o <<z>>
  <2>1. s \in Seq(Act) /\ u \in Seq(Act) /\ Len(s) = 3 /\ Len(u) = 3
    BY <1>2
  <2>2. /\ s[1] = x /\ s[2] = y /\ s[3] = z
        /\ u[1] = x /\ u[2] = y /\ u[3] = z
    BY <1>2
  <2> HIDE DEF s, u
  <2>3. \A i \in 1..Len(s) : s[i] = u[i]
    BY <2>1, <2>2
  <2>4. s = u
    BY Zenon, <2>1, <2>3, SameSequence
  <2> QED
    BY Zenon, <2>4 DEF s, u
<1>4. Leads((<<x>> \o <<y>>) \o <<z>>, a, d)
  BY Zenon, LeadsOn
<1> QED
  BY Zenon, <1>3, <1>4

(* Two steps in a row. *)
LEMMA LeadsTwo ==
  ASSUME NEW x, NEW y, NEW a, NEW b, NEW c,
         Leads(<<x>>, a, b), Leads(<<y>>, b, c)
  PROVE  Leads(<<x, y>>, a, c)
<1>1. <<x>> \in Seq(Act) /\ <<y>> \in Seq(Act)
  BY Zenon DEF Leads
<1>2. x \in Act /\ y \in Act
  BY <1>1
<1>3. <<x, y>> = <<x>> \o <<y>>
  <2> DEFINE s == <<x, y>>
             u == <<x>> \o <<y>>
  <2>1. s \in Seq(Act) /\ u \in Seq(Act) /\ Len(s) = 2 /\ Len(u) = 2
    BY <1>2
  <2>2. s[1] = x /\ s[2] = y /\ u[1] = x /\ u[2] = y
    BY <1>2
  <2> HIDE DEF s, u
  <2>3. \A i \in 1..Len(s) : s[i] = u[i]
    BY <2>1, <2>2
  <2>4. s = u
    BY Zenon, <2>1, <2>3, SameSequence
  <2> QED
    BY Zenon, <2>4 DEF s, u
<1> QED
  BY Zenon, <1>3, LeadsOn

(* A safepoint operation. *)
LEMMA ScopeLeads ==
  ASSUME NEW n \in Nat, NEW s, Leads(s, FreeAt(n + 1), FreeAt(n + 1))
  PROVE  Leads(Scope(s), FreeAt(n), FreeAt(n))
<1>1. Leads(<<S("safepoint")>>, FreeAt(n), FreeAt(n + 1))
  <2>1. /\ S("safepoint") \in Act /\ FreeAt(n) \in Place
        /\ FreeAt(n + 1) \in Place
    BY DEF S, Act, Outside, FreeAt, Spot, Place, Modes
  <2>2. Legal(S("safepoint"), FreeAt(n), FreeAt(n + 1))
    BY Zenon DEF S, Legal, FreeAt, Spot, Entry, Exit, Inside
  <2> QED
    BY Zenon, <2>1, <2>2, LeadsOne
<1>2. Leads(<<S("resume")>>, FreeAt(n + 1), FreeAt(n))
  <2>1. /\ S("resume") \in Act /\ FreeAt(n) \in Place
        /\ FreeAt(n + 1) \in Place
    BY DEF S, Act, Inside, FreeAt, Spot, Place, Modes
  <2>2. Legal(S("resume"), FreeAt(n + 1), FreeAt(n))
    BY DEF S, Legal, FreeAt, Spot, Entry, Exit
  <2> QED
    BY Zenon, <2>1, <2>2, LeadsOne
<1>3. Leads((<<S("safepoint")>> \o s) \o <<S("resume")>>, FreeAt(n), FreeAt(n))
  BY Zenon, <1>1, <1>2, LeadsOn
<1>4. Scope(s) = (<<S("safepoint")>> \o s) \o <<S("resume")>>
  BY Zenon DEF Scope
<1> QED
  BY Zenon, <1>3, <1>4

(* A collection of the old space, at whatever level. *)
LEMMA CollectLeads ==
  ASSUME NEW how \in {"mark", "sweep", "compact"}, NEW n \in Nat
  PROVE  Leads(Collect(how), FreeAt(n), FreeAt(n))
<1> DEFINE k == n + 1
           begin == [do |-> "begin", how |-> how]
           helper == [do |-> "helper", how |-> how]
           mode == IF how = "mark" THEN "marking" ELSE "begun"
<1>1. k \in Nat /\ k > 0
  OBVIOUS
<1>2. /\ Entry(begin) = "free" /\ Exit(begin) = mode
      /\ Entry(helper) = mode /\ Exit(helper) = "ending"
      /\ Entry(S("end")) = "ending" /\ Exit(S("end")) = "free"
  BY Zenon DEF Entry, Exit, S
<1> HIDE DEF k, mode
<1>3. Leads(<<begin>>, FreeAt(k), Spot(k, mode))
  BY Zenon, <1>1, <1>2, OneStep DEF FreeAt, Inside, Hows
<1>4. Leads(<<helper>>, Spot(k, mode), Spot(k, "ending"))
  BY Zenon, <1>1, <1>2, OneStep DEF Inside, Hows
<1>5. Leads(<<S("end")>>, Spot(k, "ending"), FreeAt(k))
  BY Zenon, <1>1, <1>2, OneStep DEF FreeAt, Inside, Hows, S
<1>6. Leads(<<begin, helper, S("end")>>, FreeAt(k), FreeAt(k))
  BY Zenon, <1>3, <1>4, <1>5, LeadsThree
<1> QED
  BY Zenon, <1>6, ScopeLeads DEF Collect, k

(* A scavenge. *)
LEMMA ScavengeLeads ==
  ASSUME NEW how \in {"new", "full"}, NEW n \in Nat
  PROVE  Leads(Scavenge(how), FreeAt(n), FreeAt(n))
<1> DEFINE k == n + 1
           last == [do |-> "scavenged", how |-> how]
<1>1. k \in Nat /\ k > 0
  OBVIOUS
<1>2. /\ Entry(S("cards")) = "free" /\ Exit(S("cards")) = "visiting"
      /\ Entry(S("visit")) = "visiting" /\ Exit(S("visit")) = "free"
  BY Zenon DEF Entry, Exit, S
<1> HIDE DEF k
<1>3. Leads(<<S("cards")>>, FreeAt(k), Spot(k, "visiting"))
  BY Zenon, <1>1, <1>2, OneStep DEF FreeAt, Inside, Hows, S
<1>4. Leads(<<S("visit")>>, Spot(k, "visiting"), FreeAt(k))
  BY Zenon, <1>1, <1>2, OneStep DEF FreeAt, Inside, Hows, S
<1>5. Leads(<<last>>, FreeAt(k), FreeAt(k))
  BY Zenon, <1>1, PlainStep DEF Plain, Hows
<1>6. Leads(<<S("cards"), S("visit"), last>>, FreeAt(k), FreeAt(k))
  BY Zenon, <1>3, <1>4, <1>5, LeadsThree
<1> QED
  BY Zenon, <1>6, ScopeLeads DEF Scavenge, k

(* An iteration over the heap. *)
LEMMA IterationLeads ==
  ASSUME NEW n \in Nat
  PROVE  /\ Leads(Scope(<<S("iterate_begin"), S("iterate"), S("iterate_end")>>),
                  FreeAt(n), FreeAt(n))
         /\ n > 0 =>
              Leads(<<S("iterate_begin")>>, FreeAt(n), Spot(n, "iterating"))
<1>1. /\ Entry(S("iterate_begin")) = "free"
      /\ Exit(S("iterate_begin")) = "iterating"
      /\ Entry(S("iterate")) = "iterating" /\ Exit(S("iterate")) = "iterated"
      /\ Entry(S("iterate_end")) = "iterated" /\ Exit(S("iterate_end")) = "free"
  BY Zenon DEF Entry, Exit, S
<1>2. ASSUME NEW k \in Nat, k > 0
      PROVE  /\ Leads(<<S("iterate_begin")>>, FreeAt(k), Spot(k, "iterating"))
             /\ Leads(<<S("iterate")>>, Spot(k, "iterating"), Spot(k, "iterated"))
             /\ Leads(<<S("iterate_end")>>, Spot(k, "iterated"), FreeAt(k))
  <2>1. Leads(<<S("iterate_begin")>>, FreeAt(k), Spot(k, "iterating"))
    BY Zenon, <1>1, <1>2, OneStep DEF FreeAt, Inside, Hows, S
  <2>2. Leads(<<S("iterate")>>, Spot(k, "iterating"), Spot(k, "iterated"))
    BY Zenon, <1>1, <1>2, OneStep DEF Inside, Hows, S
  <2>3. Leads(<<S("iterate_end")>>, Spot(k, "iterated"), FreeAt(k))
    BY Zenon, <1>1, <1>2, OneStep DEF FreeAt, Inside, Hows, S
  <2> QED
    BY Zenon, <2>1, <2>2, <2>3
<1>3. n + 1 \in Nat /\ n + 1 > 0
  OBVIOUS
<1>4. Leads(<<S("iterate_begin"), S("iterate"), S("iterate_end")>>,
            FreeAt(n + 1), FreeAt(n + 1))
  BY Zenon, <1>2, <1>3, LeadsThree
<1> QED
  BY Zenon, <1>2, <1>4, ScopeLeads

(* The steps that StartConcurrentMark goes on with. *)
LEMMA StartingLeads ==
  ASSUME NEW n \in Nat, n > 0, NEW c \in Nat
  PROVE  Leads([i \in 1..c |-> S("start_task")] \o <<S("roots")>>,
               Spot(n, "starting"), Spot(n, "ending"))
<1> DEFINE x == S("start_task")
           s == [i \in 1..c |-> x]
           a == Spot(n, "starting")
           d == [i \in 1..c + 1 |-> a]
<1>1. x \in Act /\ a \in Place /\ Legal(x, a, a)
  BY Zenon DEF S, Act, Inside, Spot, Place, Modes, Legal, Entry, Exit
<1>2. /\ Entry(S("roots")) = "starting" /\ Exit(S("roots")) = "ending"
  BY Zenon DEF Entry, Exit, S
<1> HIDE DEF x, a
<1>3. s \in Seq(Act) /\ Len(s) = c /\ \A i \in 1..c : s[i] = x
  BY <1>1
<1>4. /\ d \in [1..c + 1 -> Place] /\ d[1] = a /\ d[c + 1] = a
      /\ \A i \in 1..c : d[i] = a /\ d[i + 1] = a
  BY <1>1
<1> HIDE DEF s, d
<1>5. Leads(s, a, a)
  BY Zenon, <1>1, <1>3, <1>4 DEF Leads, Path
<1>6. Leads(<<S("roots")>>, a, Spot(n, "ending"))
  BY Zenon, <1>2, OneStep DEF Inside, Hows, S, a
<1>7. Leads(s \o <<S("roots")>>, a, Spot(n, "ending"))
  BY Zenon, <1>5, <1>6, LeadsOn
<1> QED
  BY Zenon, <1>7 DEF s, a, x

(* Every operation begins and ends outside a safepoint. *)
LEMMA OperationLeads ==
  ASSUME NEW o \in Operations
  PROVE  Leads(o, FreeAt(0), FreeAt(0))
<1>1. /\ Leads(<<S("check_finish")>>, FreeAt(0), FreeAt(0))
      /\ Leads(<<S("check_start")>>, FreeAt(0), FreeAt(0))
      /\ Leads(<<S("add_page")>>, FreeAt(0), FreeAt(0))
      /\ Leads(<<S("if_marking")>>, FreeAt(0), FreeAt(0))
      /\ Leads(<<S("wait_markers")>>, FreeAt(0), FreeAt(0))
      /\ Leads(<<S("wait_sweepers")>>, FreeAt(0), FreeAt(0))
  BY Zenon, PlainStep DEF Plain, Hows, S, Inside
<1>2. Leads(<<S("idle")>>, FreeAt(0 + 1), FreeAt(0 + 1))
  <2>1. 0 + 1 \in Nat /\ 0 + 1 > 0
    OBVIOUS
  <2> QED
    BY Zenon, <2>1, PlainStep DEF Plain, Hows, S
<1>3. /\ Leads(Collect("sweep"), FreeAt(0), FreeAt(0))
      /\ Leads(Collect("compact"), FreeAt(0), FreeAt(0))
      /\ Leads(Scavenge("new"), FreeAt(0), FreeAt(0))
      /\ Leads(Scavenge("full"), FreeAt(0), FreeAt(0))
  BY Zenon, CollectLeads, ScavengeLeads
<1>4. Leads(<<S("check_finish"), S("check_start"), S("add_page")>>,
            FreeAt(0), FreeAt(0))
  BY Zenon, <1>1, LeadsThree
<1>5. Leads(<<S("wait_markers"), S("wait_sweepers")>>, FreeAt(0), FreeAt(0))
  BY Zenon, <1>1, LeadsTwo
<1>6. Leads(Scavenge("full") \o Collect("sweep"), FreeAt(0), FreeAt(0))
  BY Zenon, <1>3, LeadsOn
<1>7. Leads(Scavenge("full") \o <<S("if_marking")>> \o Collect("compact")
              \o <<S("wait_sweepers")>>, FreeAt(0), FreeAt(0))
  <2>1. Leads(Scavenge("full") \o <<S("if_marking")>>, FreeAt(0), FreeAt(0))
    BY Zenon, <1>1, <1>3, LeadsOn
  <2>2. Leads(Scavenge("full") \o <<S("if_marking")>> \o Collect("compact"),
              FreeAt(0), FreeAt(0))
    BY Zenon, <1>3, <2>1, LeadsOn
  <2> QED
    BY Zenon, <1>1, <2>2, LeadsOn
<1>8. Leads(Scope(<<S("idle")>>), FreeAt(0), FreeAt(0))
  BY Zenon, <1>2, ScopeLeads
<1>9. Leads(Scope(<<S("iterate_begin"), S("iterate"), S("iterate_end")>>),
            FreeAt(0), FreeAt(0))
  BY Zenon, IterationLeads
<1> QED
  BY Zenon, <1>1, <1>3, <1>4, <1>5, <1>6, <1>7, <1>8, <1>9 DEF Operations

-----------------------------------------------------------------------------
(* The threads.                                                            *)

Level(t) == IF owner = t THEN depth ELSE 0
Mode(t) == IF todo[t] = <<>> THEN "free" ELSE Entry(Head(todo[t]))

(* What the owner of the safepoint is at; nobody else matters. *)
Current == IF owner = NoThread THEN "free" ELSE Mode(owner)

(* A mutator of the group is on a path that ends outside its operations;   *)
(* of those that have left the last one shuts the group down.              *)
Paths ==
  \A t \in Thread :
    IF t \in gone THEN todo[t] \in {<<>>, <<S("shutdown")>>}
    ELSE \E mode \in Modes : Leads(todo[t], Spot(Level(t), mode), FreeAt(0))

Leaving ==
  /\ \A t \in Thread : At(t, "shutdown") => gone = Thread
  /\ \A t, u \in Thread : At(t, "shutdown") /\ At(u, "shutdown") => t = u
  /\ deleted => gone = Thread /\ \A t \in Thread : todo[t] = <<>>

ThreadsInv ==
  /\ todo \in [Thread -> Seq(Act \cup {S("shutdown")})]
  /\ gone \subseteq Thread /\ deleted \in BOOLEAN
  /\ owner \in Thread \cup {NoThread} /\ owner \notin gone
  /\ depth \in Nat /\ (owner = NoThread <=> depth = 0)
  /\ Paths
  /\ Leaving

(* The mode of a thread is that of its first step, and a thread that is    *)
(* not free is inside a safepoint operation.                               *)
LEMMA ModeIs ==
  ASSUME NEW s, NEW n \in Nat, NEW mode \in Modes,
         Leads(s, Spot(n, mode), FreeAt(0))
  PROVE  /\ mode = IF s = <<>> THEN "free" ELSE Entry(Head(s))
         /\ mode # "free" => n > 0
<1>1. CASE s = <<>>
  <2>1. Spot(n, mode) = FreeAt(0)
    BY Zenon, <1>1, LeadsEmpty
  <2> QED
    BY Zenon, <1>1, <2>1 DEF Spot, FreeAt
<1>2. CASE s # <<>>
  <2> DEFINE x == Head(s)
  <2>1. PICK c \in Place : Legal(x, Spot(n, mode), c)
    BY Zenon, <1>2, LeadsTail
  <2>2. x \in Act
    BY Zenon, <1>2, LeadsTail
  <2> HIDE DEF x
  <2>3. mode = Entry(x) /\ (x.do \in Inside => n > 0)
    BY Zenon, <2>1 DEF Legal, Spot
  <2>4. Entry(x) # "free" => x.do \in Inside
    BY Zenon, <2>2 DEF Entry, Inside
  <2> QED
    BY Zenon, <1>2, <2>3, <2>4 DEF x
<1> QED
  BY Zenon, <1>1, <1>2

(* Outside a safepoint operation a thread is free. *)
LEMMA CurrentIs ==
  ASSUME ThreadsInv, NEW t \in Thread, t \notin gone, owner \in {NoThread, t}
  PROVE  /\ Current = Mode(t) /\ Current \in Modes
         /\ Leads(todo[t], Spot(Level(t), Current), FreeAt(0))
         /\ Current # "free" => owner = t
<1>1. Level(t) \in Nat
  BY Zenon DEF ThreadsInv, Level
<1>2. PICK mode \in Modes : Leads(todo[t], Spot(Level(t), mode), FreeAt(0))
  BY Zenon DEF ThreadsInv, Paths
<1>3. mode = Mode(t) /\ (mode # "free" => Level(t) > 0)
  BY Zenon, <1>1, <1>2, ModeIs DEF Mode
<1>4. mode # "free" => owner = t
  BY <1>3 DEF Level
<1>5. Current = mode
  <2>1. NoThread \notin Thread
    BY Zenon, OldSpaceAssumption
  <2>2. CASE owner = t
    BY Zenon, <1>3, <2>1, <2>2 DEF Current
  <2>3. CASE owner = NoThread
    BY Zenon, <1>4, <2>1, <2>3 DEF Current
  <2> QED
    BY Zenon, <2>2, <2>3
<1> QED
  BY Zenon, <1>2, <1>3, <1>4, <1>5

(* A thread that takes a step of an operation. *)
LEMMA Turn ==
  ASSUME ThreadsInv, NEW t \in Thread, NEW do, Doing(t, do), do # "shutdown"
  PROVE  LET x == Head(todo[t])
         IN /\ t \notin gone /\ ~deleted
            /\ x \in Act /\ x.do = do
            /\ Current = Entry(x) /\ Level(t) \in Nat
            /\ do \in Inside => owner = t /\ Level(t) > 0
            /\ do \notin {"safepoint", "resume"} =>
                 Leads(Tail(todo[t]), Spot(Level(t), Exit(x)), FreeAt(0))
            /\ do = "safepoint" =>
                 Leads(Tail(todo[t]), FreeAt(Level(t) + 1), FreeAt(0))
            /\ do = "resume" =>
                 Leads(Tail(todo[t]), FreeAt(Level(t) - 1), FreeAt(0))
<1> DEFINE x == Head(todo[t])
<1>1. todo[t] # <<>> /\ x.do = do /\ owner \in {NoThread, t}
  BY Zenon DEF Doing
<1>2. t \notin gone
  <2>1. S("shutdown").do = "shutdown" /\ Head(<<S("shutdown")>>) = S("shutdown")
    BY DEF S
  <2>2. t \in gone => todo[t] \in {<<>>, <<S("shutdown")>>}
    BY Zenon DEF ThreadsInv, Paths
  <2> QED
    BY Zenon, <1>1, <2>1, <2>2
<1>3. /\ Current = Entry(x)
      /\ Leads(todo[t], Spot(Level(t), Current), FreeAt(0))
  BY Zenon, <1>1, <1>2, CurrentIs DEF Mode
<1>4. Level(t) \in Nat
  BY Zenon DEF ThreadsInv, Level
<1>5. PICK c \in Place : /\ Legal(x, Spot(Level(t), Current), c)
                         /\ Leads(Tail(todo[t]), c, FreeAt(0))
  BY Zenon, <1>1, <1>3, LeadsTail
<1>6. x \in Act
  BY Zenon, <1>1, <1>3, LeadsTail
<1> HIDE DEF x
<1> DEFINE n == Level(t)
<1>7. n \in Nat
  BY Zenon, <1>4
<1>8. /\ c.mode = Exit(x) /\ c.level \in Nat
      /\ c = Spot(c.level, c.mode)
      /\ do = "safepoint" => c.level = n + 1
      /\ do = "resume" => n = c.level + 1
      /\ do \notin {"safepoint", "resume"} => c.level = n
      /\ do \in Inside => n > 0
  BY Zenon, <1>1, <1>5 DEF Legal, Spot, Place
<1>9. /\ do = "resume" => c.level = n - 1
      /\ do \in {"safepoint", "resume"} => Exit(x) = "free"
  BY <1>1, <1>7, <1>8 DEF Exit
<1>10. do \in Inside => owner = t /\ n > 0
  BY <1>8 DEF Level
<1>11. ~deleted
  BY Zenon, <1>1 DEF ThreadsInv, Leaving
<1> HIDE DEF n
<1>12. /\ do \notin {"safepoint", "resume"} =>
            Leads(Tail(todo[t]), Spot(n, Exit(x)), FreeAt(0))
       /\ do = "safepoint" => Leads(Tail(todo[t]), FreeAt(n + 1), FreeAt(0))
       /\ do = "resume" => Leads(Tail(todo[t]), FreeAt(n - 1), FreeAt(0))
  BY Zenon, <1>5, <1>8, <1>9 DEF FreeAt
<1> QED
  BY Zenon, <1>1, <1>2, <1>3, <1>6, <1>7, <1>10, <1>11, <1>12 DEF x, n

(* One thread goes on with the steps s. *)
LEMMA ThreadStep ==
  ASSUME ThreadsInv, NEW t \in Thread, t \notin gone,
         owner \in {NoThread, t}, owner' \in {NoThread, t}, depth' \in Nat,
         owner' = NoThread <=> depth' = 0, UNCHANGED <<gone, deleted>>,
         NEW s, todo' = [todo EXCEPT ![t] = s], NEW mode \in Modes,
         Leads(s, Spot(IF owner' = t THEN depth' ELSE 0, mode), FreeAt(0))
  PROVE  ThreadsInv' /\ Current' = mode
<1>1. /\ todo'[t] = s
      /\ \A u \in Thread \ {t} : todo'[u] = todo[u]
  BY Zenon DEF ThreadsInv
<1>2. s \in Seq(Act) /\ s \in Seq(Act \cup {S("shutdown")})
  <2>1. s \in Seq(Act)
    BY Zenon DEF Leads
  <2> QED
    BY Zenon, <2>1, WiderSequence
<1>3. todo' \in [Thread -> Seq(Act \cup {S("shutdown")})]
  BY Zenon, <1>2 DEF ThreadsInv
<1>4. NoThread \notin Thread
  BY Zenon, OldSpaceAssumption
<1>5. Level(t)' = IF owner' = t THEN depth' ELSE 0
  BY Zenon DEF Level
<1>6. \A u \in Thread \ {t} : Level(u)' = 0 /\ Level(u) = 0
  BY <1>4 DEF Level
<1>7. Paths'
  <2> SUFFICES ASSUME NEW u \in Thread
               PROVE  IF u \in gone THEN todo'[u] \in {<<>>, <<S("shutdown")>>}
                      ELSE \E k \in Modes :
                             Leads(todo'[u], Spot(Level(u)', k), FreeAt(0))
    BY Zenon DEF Paths
  <2>1. CASE u = t
    BY Zenon, <1>1, <1>5, <2>1
  <2>2. CASE u # t
    <3>1. todo'[u] = todo[u] /\ Level(u)' = Level(u)
      BY <1>1, <1>6, <2>2
    <3> QED
      BY Zenon, <3>1 DEF ThreadsInv, Paths
  <2> QED
    BY Zenon, <2>1, <2>2
<1>8. ~At(t, "shutdown")'
  <2>1. s # <<>> => Head(s) \in Act
    BY <1>2
  <2>2. s # <<>> => Head(s).do # "shutdown"
    BY Zenon, <2>1 DEF Act, Outside, Inside
  <2> QED
    BY Zenon, <1>1, <2>2 DEF At
<1>9. Leaving'
  <2>1. \A u \in Thread : At(u, "shutdown")' => At(u, "shutdown") /\ u # t
    BY Zenon, <1>1, <1>8 DEF At
  <2>2. ~deleted
    BY Zenon DEF ThreadsInv, Leaving
  <2>3. \A u \in Thread : At(u, "shutdown") => gone = Thread
    BY Zenon DEF ThreadsInv, Leaving
  <2>4. \A u, v \in Thread : At(u, "shutdown") /\ At(v, "shutdown") => u = v
    BY Zenon DEF ThreadsInv, Leaving
  <2> QED
    BY Zenon, <2>1, <2>2, <2>3, <2>4 DEF Leaving
<1>10. ThreadsInv'
  BY Zenon, <1>3, <1>4, <1>7, <1>9 DEF ThreadsInv
<1>11. mode = Mode(t)' /\ (mode # "free" => owner' = t)
  <2>1. Level(t)' \in Nat
    BY Zenon, <1>5
  <2>2. /\ mode = IF s = <<>> THEN "free" ELSE Entry(Head(s))
        /\ mode # "free" => Level(t)' > 0
    BY Zenon, <1>5, <2>1, ModeIs
  <2> QED
    BY <1>1, <1>5, <2>2 DEF Mode
<1>12. Current' = mode
  <2>1. CASE owner' = t
    BY <1>4, <1>11, <2>1 DEF Current, Mode
  <2>2. CASE owner' = NoThread
    BY Zenon, <1>4, <1>11, <2>2 DEF Current
  <2> QED
    BY Zenon, <2>1, <2>2
<1> QED
  BY Zenon, <1>10, <1>12

(* The most common case: steps in place of the one just taken. *)
LEMMA ThenStep ==
  ASSUME ThreadsInv, NEW t \in Thread, NEW do, Doing(t, do), do # "shutdown",
         do \notin {"safepoint", "resume"}, NEW steps, Then(t, steps),
         UNCHANGED safepoint, NEW mode \in Modes,
         Leads(steps, Spot(Level(t), mode),
               Spot(Level(t), Exit(Head(todo[t]))))
  PROVE  ThreadsInv' /\ Current' = mode
<1>1. /\ t \notin gone /\ Level(t) \in Nat
      /\ Leads(Tail(todo[t]), Spot(Level(t), Exit(Head(todo[t]))), FreeAt(0))
  BY Zenon, Turn
<1>2. Leads(steps \o Tail(todo[t]), Spot(Level(t), mode), FreeAt(0))
  BY Zenon, <1>1, LeadsOn
<1>3. todo' = [todo EXCEPT ![t] = steps \o Tail(todo[t])]
  BY Zenon DEF Then, ThreadsInv
<1>4. /\ owner \in {NoThread, t} /\ owner' = owner /\ depth' = depth
      /\ UNCHANGED <<gone, deleted>>
      /\ depth \in Nat /\ (owner = NoThread <=> depth = 0)
  BY Zenon DEF Doing, Then, safepoint, ThreadsInv
<1>5. Level(t) = IF owner' = t THEN depth' ELSE 0
  BY Zenon, <1>4 DEF Level
<1> QED
  BY Zenon, <1>1, <1>2, <1>3, <1>4, <1>5, ThreadStep

(* The step is taken, and the next one comes. *)
LEMMA DoneStep ==
  ASSUME ThreadsInv, NEW t \in Thread, NEW do, Doing(t, do), do # "shutdown",
         do \notin {"safepoint", "resume"}, Done(t), UNCHANGED safepoint
  PROVE  ThreadsInv' /\ Current' = Exit(Head(todo[t]))
<1>1. Level(t) \in Nat /\ Head(todo[t]) \in Act
  BY Zenon, Turn
<1>2. Exit(Head(todo[t])) \in Modes
  BY Zenon DEF Exit, Modes
<1> DEFINE a == Spot(Level(t), Exit(Head(todo[t])))
<1>3. a \in Place
  BY Zenon, <1>1, <1>2 DEF Spot, Place
<1>4. Leads(<<>>, a, a)
  BY Zenon, <1>3, LeadsNowhere
<1> QED
  BY Zenon, <1>2, <1>4, ThenStep DEF Done

(* No thread moves. *)
LEMMA ThreadsStay ==
  ASSUME ThreadsInv, UNCHANGED <<threads, safepoint>>
  PROVE  ThreadsInv' /\ Current' = Current
<1>1. UNCHANGED <<todo, gone, deleted, owner, depth>>
  BY Zenon DEF threads, safepoint
<1> QED
  BY Zenon, <1>1 DEF ThreadsInv, Paths, Leaving, Level, At, Current, Mode

-----------------------------------------------------------------------------
(* What each step does to the threads.                                     *)

(* Nothing in particular goes on before and after the step. *)
Calm == Current = "free" /\ Current' = "free"

(* A step taken in no particular mode goes on with whole operations. *)
LEMMA PlainTurn ==
  ASSUME ThreadsInv, NEW t \in Thread, NEW do \in Plain, Doing(t, do),
         NEW steps, Then(t, steps), UNCHANGED safepoint,
         Leads(steps, FreeAt(Level(t)), FreeAt(Level(t)))
  PROVE  ThreadsInv' /\ Calm
<1>1. do # "shutdown" /\ do \notin {"safepoint", "resume"}
  BY Zenon DEF Plain
<1>2. Head(todo[t]).do = do /\ Current = Entry(Head(todo[t]))
  BY Zenon, <1>1, Turn
<1>3. Entry(Head(todo[t])) = "free" /\ Exit(Head(todo[t])) = "free"
  BY Zenon, <1>2 DEF Entry, Exit, Plain
<1>4. "free" \in Modes
  BY Zenon DEF Modes
<1> QED
  BY Zenon, <1>1, <1>2, <1>3, <1>4, ThenStep DEF Calm, FreeAt

(* It ends. *)
LEMMA PlainDone ==
  ASSUME ThreadsInv, NEW t \in Thread, NEW do \in Plain, Doing(t, do),
         Done(t), UNCHANGED safepoint
  PROVE  ThreadsInv' /\ Calm
<1>1. Level(t) \in Nat
  BY Zenon, Turn DEF Plain
<1>2. FreeAt(Level(t)) \in Place
  BY Zenon, <1>1 DEF FreeAt, Spot, Place, Modes
<1> QED
  BY Zenon, <1>2, LeadsNowhere, PlainTurn DEF Done

(* It waits. *)
LEMMA PlainWait ==
  ASSUME ThreadsInv, NEW t \in Thread,
         NEW do \in Plain \cup {"begin", "cards", "iterate_begin"},
         Doing(t, do), UNCHANGED <<threads, safepoint>>
  PROVE  ThreadsInv' /\ Calm
<1>1. Head(todo[t]).do = do /\ Current = Entry(Head(todo[t]))
  BY Zenon, Turn DEF Plain
<1>2. Entry(Head(todo[t])) = "free"
  BY Zenon, <1>1 DEF Entry, Plain
<1> QED
  BY Zenon, <1>1, <1>2, ThreadsStay DEF Calm

(* A level of nested operations. *)
LEMMA LevelIs ==
  ASSUME ThreadsInv, NEW t \in Thread, NEW do, Doing(t, do), do # "shutdown"
  PROVE  /\ Level(t) \in Nat /\ FreeAt(Level(t)) \in Place
         /\ do \in Inside => Level(t) > 0
<1>1. Level(t) \in Nat /\ (do \in Inside => Level(t) > 0)
  BY Zenon, Turn
<1> QED
  BY Zenon, <1>1 DEF FreeAt, Spot, Place, Modes

(* An operation is started where nobody owns the safepoint. *)
LEMMA StartThreads ==
  ASSUME ThreadsInv, NEW t \in Thread, Start(t)
  PROVE  ThreadsInv' /\ Calm
<1>1. PICK o \in Operations : todo' = [todo EXCEPT ![t] = o]
  BY Zenon DEF Start
<1>2. /\ owner = NoThread /\ owner' = owner /\ depth' = depth /\ t \notin gone
      /\ UNCHANGED <<gone, deleted>>
  BY Zenon DEF Start, safepoint
<1>3. NoThread # t /\ depth \in Nat /\ depth = 0
  BY Zenon, <1>2, OldSpaceAssumption DEF ThreadsInv
<1>4. Leads(o, Spot(IF owner' = t THEN depth' ELSE 0, "free"), FreeAt(0))
  BY Zenon, <1>2, <1>3, OperationLeads DEF FreeAt
<1>5. "free" \in Modes
  BY Zenon DEF Modes
<1>6. ThreadsInv' /\ Current' = "free"
  BY Zenon, <1>1, <1>2, <1>3, <1>4, <1>5, ThreadStep
<1>7. Current = "free"
  BY Zenon, <1>2 DEF Current
<1> QED
  BY Zenon, <1>6, <1>7 DEF Calm

(* An operation enters the safepoint ... *)
LEMMA SafepointThreadsThreads ==
  ASSUME ThreadsInv, NEW t \in Thread, SafepointThreads(t)
  PROVE  ThreadsInv' /\ Calm
<1>1. Doing(t, "safepoint")
  BY Zenon DEF SafepointThreads
<1>2. /\ t \notin gone /\ Head(todo[t]).do = "safepoint"
      /\ Current = Entry(Head(todo[t])) /\ Level(t) \in Nat
      /\ Leads(Tail(todo[t]), FreeAt(Level(t) + 1), FreeAt(0))
  BY Zenon, <1>1, Turn
<1>3. Current = "free" /\ "free" \in Modes
  BY Zenon, <1>2 DEF Entry, Modes
<1>4. /\ owner \in {NoThread, t} /\ owner' = t /\ depth' = depth + 1
      /\ UNCHANGED <<gone, deleted>> /\ NoThread # t
  BY Zenon, <1>1, OldSpaceAssumption DEF SafepointThreads, Doing, Done, Then
<1>5. depth \in Nat /\ (owner = NoThread <=> depth = 0) /\ Level(t) = depth
  BY Zenon, <1>4 DEF ThreadsInv, Level
<1>6. depth' \in Nat /\ ~(depth' = 0)
  BY <1>4, <1>5
<1>7. todo' = [todo EXCEPT ![t] = Tail(todo[t])]
  <2>1. Tail(todo[t]) \in Seq(Act)
    BY Zenon, <1>2 DEF Leads
  <2>2. <<>> \o Tail(todo[t]) = Tail(todo[t])
    BY <2>1
  <2> QED
    BY Zenon, <2>2 DEF SafepointThreads, Done, Then, ThreadsInv
<1>8. Leads(Tail(todo[t]), Spot(IF owner' = t THEN depth' ELSE 0, "free"),
            FreeAt(0))
  BY Zenon, <1>2, <1>4, <1>5 DEF FreeAt
<1>9. ThreadsInv' /\ Current' = "free"
  BY Zenon, <1>2, <1>3, <1>4, <1>6, <1>7, <1>8, ThreadStep
<1> QED
  BY Zenon, <1>3, <1>9 DEF Calm

(* ... and leaves it. *)
LEMMA ResumeThreadsThreads ==
  ASSUME ThreadsInv, NEW t \in Thread, ResumeThreads(t)
  PROVE  ThreadsInv' /\ Calm
<1>1. Doing(t, "resume")
  BY Zenon DEF ResumeThreads
<1>2. /\ t \notin gone /\ Head(todo[t]).do = "resume"
      /\ Current = Entry(Head(todo[t])) /\ Level(t) \in Nat
      /\ Leads(Tail(todo[t]), FreeAt(Level(t) - 1), FreeAt(0))
      /\ "resume" \in Inside => owner = t /\ Level(t) > 0
  BY Zenon, <1>1, Turn
<1>3. Current = "free" /\ "free" \in Modes /\ "resume" \in Inside
  BY Zenon, <1>2 DEF Entry, Modes, Inside
<1>4. /\ owner = t /\ depth' = depth - 1
      /\ owner' = IF depth = 1 THEN NoThread ELSE t
      /\ UNCHANGED <<gone, deleted>> /\ NoThread # t
  BY Zenon, <1>1, <1>2, <1>3, OldSpaceAssumption
     DEF ResumeThreads, Doing, Done, Then
<1>5. depth \in Nat /\ Level(t) = depth /\ depth > 0
  BY Zenon, <1>2, <1>3, <1>4 DEF ThreadsInv, Level
<1>6. /\ depth' \in Nat /\ owner' \in {NoThread, t}
      /\ owner' = NoThread <=> depth' = 0
      /\ depth - 1 = IF owner' = t THEN depth' ELSE 0
  BY <1>4, <1>5
<1>7. todo' = [todo EXCEPT ![t] = Tail(todo[t])]
  <2>1. Tail(todo[t]) \in Seq(Act)
    BY Zenon, <1>2 DEF Leads
  <2>2. <<>> \o Tail(todo[t]) = Tail(todo[t])
    BY <2>1
  <2> QED
    BY Zenon, <2>2 DEF ResumeThreads, Done, Then, ThreadsInv
<1>8. Leads(Tail(todo[t]), Spot(IF owner' = t THEN depth' ELSE 0, "free"),
            FreeAt(0))
  BY Zenon, <1>2, <1>5, <1>6 DEF FreeAt
<1>9. ThreadsInv' /\ Current' = "free"
  BY Zenon, <1>2, <1>3, <1>4, <1>6, <1>7, <1>8, ThreadStep
<1> QED
  BY Zenon, <1>3, <1>9 DEF Calm

(* CheckFinishConcurrentMarking may add a collection. *)
LEMMA CheckFinishThreads ==
  ASSUME ThreadsInv, NEW t \in Thread, CheckFinishConcurrentMarking(t)
  PROVE  ThreadsInv' /\ Calm
<1>1. Doing(t, "check_finish") /\ UNCHANGED safepoint /\ "check_finish" \in Plain
  BY Zenon DEF CheckFinishConcurrentMarking, Plain
<1>2. Level(t) \in Nat /\ FreeAt(Level(t)) \in Place
  BY Zenon, <1>1, LevelIs
<1>3. /\ Leads(Collect("sweep"), FreeAt(Level(t)), FreeAt(Level(t)))
      /\ Leads(<<>>, FreeAt(Level(t)), FreeAt(Level(t)))
  BY Zenon, <1>2, CollectLeads, LeadsNowhere
<1>4. \E steps \in {Collect("sweep"), <<>>} : Then(t, steps)
  BY Zenon DEF CheckFinishConcurrentMarking
<1> QED
  BY Zenon, <1>1, <1>3, <1>4, PlainTurn

(* CheckStartConcurrentMarking may add a scavenge and a collection. *)
LEMMA CheckStartThreads ==
  ASSUME ThreadsInv, NEW t \in Thread, CheckStartConcurrentMarking(t)
  PROVE  ThreadsInv' /\ Calm
<1>1. Doing(t, "check_start") /\ UNCHANGED safepoint /\ "check_start" \in Plain
  BY Zenon DEF CheckStartConcurrentMarking, Plain
<1>2. Level(t) \in Nat /\ FreeAt(Level(t)) \in Place
  BY Zenon, <1>1, LevelIs
<1>3. /\ Leads(Collect("mark"), FreeAt(Level(t)), FreeAt(Level(t)))
      /\ Leads(Scavenge("full"), FreeAt(Level(t)), FreeAt(Level(t)))
      /\ Leads(<<>>, FreeAt(Level(t)), FreeAt(Level(t)))
  BY Zenon, <1>2, CollectLeads, ScavengeLeads, LeadsNowhere
<1>4. CASE Done(t)
  BY Zenon, <1>1, <1>4, PlainDone
<1>5. ASSUME NEW first \in {<<>>, Scavenge("full")},
             Then(t, first \o Collect("mark"))
      PROVE  ThreadsInv' /\ Calm
  <2>1. Leads(first \o Collect("mark"), FreeAt(Level(t)), FreeAt(Level(t)))
    BY Zenon, <1>3, LeadsOn
  <2> QED
    BY Zenon, <1>1, <1>5, <2>1, PlainTurn
<1> QED
  BY Zenon, <1>4, <1>5 DEF CheckStartConcurrentMarking

(* NotifyIdle may add a scavenge and a collection. *)
LEMMA NotifyIdleThreads ==
  ASSUME ThreadsInv, NEW t \in Thread, NotifyIdle(t)
  PROVE  ThreadsInv' /\ Calm
<1>1. /\ Doing(t, "idle") /\ UNCHANGED safepoint /\ "idle" \in Plain
      /\ "idle" \in Inside
  BY Zenon DEF NotifyIdle, Plain, Inside
<1>2. Level(t) \in Nat /\ Level(t) > 0 /\ FreeAt(Level(t)) \in Place
  BY Zenon, <1>1, LevelIs
<1> DEFINE a == FreeAt(Level(t))
<1>3. Leads(Collect("sweep"), a, a) /\ Leads(Collect("compact"), a, a)
  BY Zenon, <1>2, CollectLeads
<1>4. Leads(Scavenge("full"), a, a) /\ Leads(<<>>, a, a)
  BY Zenon, <1>2, ScavengeLeads, LeadsNowhere
<1>5. Leads(<<S("idle_old")>>, a, a)
  <2>1. "idle_old" \in Plain /\ "" \in Hows
    BY Zenon DEF Plain, Hows
  <2> QED
    BY Zenon, <1>2, <2>1, PlainStep DEF S
<1> HIDE DEF a
<1>6. PICK first \in {<<>>, Scavenge("full")} :
         \/ Then(t, first \o <<S("idle_old")>>)
         \/ Then(t, first \o Collect("sweep"))
         \/ Then(t, first \o Collect("compact"))
         \/ Then(t, first)
  BY Zenon DEF NotifyIdle
<1>7. /\ Leads(first, a, a) /\ Leads(first \o <<S("idle_old")>>, a, a)
      /\ Leads(first \o Collect("sweep"), a, a)
      /\ Leads(first \o Collect("compact"), a, a)
  BY Zenon, <1>3, <1>4, <1>5, LeadsOn
<1> QED
  BY Zenon, <1>1, <1>6, <1>7, PlainTurn DEF a

(* The rest of NotifyIdle may add a collection. *)
LEMMA NotifyIdleOldThreads ==
  ASSUME ThreadsInv, NEW t \in Thread, NotifyIdleOld(t)
  PROVE  ThreadsInv' /\ Calm
<1>1. Doing(t, "idle_old") /\ UNCHANGED safepoint /\ "idle_old" \in Plain
  BY Zenon DEF NotifyIdleOld, Plain
<1>2. Level(t) \in Nat /\ FreeAt(Level(t)) \in Place
  BY Zenon, <1>1, LevelIs
<1>3. /\ Leads(Collect("sweep"), FreeAt(Level(t)), FreeAt(Level(t)))
      /\ Leads(Collect("mark"), FreeAt(Level(t)), FreeAt(Level(t)))
      /\ Leads(<<>>, FreeAt(Level(t)), FreeAt(Level(t)))
  BY Zenon, <1>2, CollectLeads, LeadsNowhere
<1>4. \E steps \in {Collect("sweep"), Collect("mark"), <<>>} : Then(t, steps)
  <2>1. CASE phase = "kAwaitingFinalization"
    BY Zenon, <2>1 DEF NotifyIdleOld
  <2>2. CASE phase = "kDone"
    BY Zenon, <2>2 DEF NotifyIdleOld
  <2>3. CASE phase \notin {"kAwaitingFinalization", "kDone"}
    BY Zenon, <2>3 DEF NotifyIdleOld
  <2> QED
    BY Zenon, <2>1, <2>2, <2>3
<1> QED
  BY Zenon, <1>1, <1>3, <1>4, PlainTurn

(* CollectAllGarbage may add a collection. *)
LEMMA IfMarkingThreads ==
  ASSUME ThreadsInv, NEW t \in Thread, IfMarking(t)
  PROVE  ThreadsInv' /\ Calm
<1>1. Doing(t, "if_marking") /\ UNCHANGED safepoint /\ "if_marking" \in Plain
  BY Zenon DEF IfMarking, Plain
<1>2. Level(t) \in Nat /\ FreeAt(Level(t)) \in Place
  BY Zenon, <1>1, LevelIs
<1>3. /\ Leads(Collect("sweep"), FreeAt(Level(t)), FreeAt(Level(t)))
      /\ Leads(<<>>, FreeAt(Level(t)), FreeAt(Level(t)))
  BY Zenon, <1>2, CollectLeads, LeadsNowhere
<1>4. \E steps \in {Collect("sweep"), <<>>} : Then(t, steps)
  BY Zenon DEF IfMarking
<1> QED
  BY Zenon, <1>1, <1>3, <1>4, PlainTurn

(* WaitForMarkerTasks may add a collection, and then waits again. *)
LEMMA WaitForMarkerTasksThreads ==
  ASSUME ThreadsInv, NEW t \in Thread, WaitForMarkerTasks(t)
  PROVE  ThreadsInv' /\ Calm
<1>1. Doing(t, "wait_markers") /\ UNCHANGED safepoint /\ "wait_markers" \in Plain
  BY Zenon DEF WaitForMarkerTasks, Plain
<1>2. Level(t) \in Nat /\ FreeAt(Level(t)) \in Place
  BY Zenon, <1>1, LevelIs
<1> DEFINE a == FreeAt(Level(t))
<1>3. Leads(<<S("wait_markers")>>, a, a)
  <2>1. "wait_markers" \notin Inside /\ "" \in Hows
    BY Zenon DEF Inside, Hows
  <2> QED
    BY Zenon, <1>1, <1>2, <2>1, PlainStep DEF S
<1>4. Leads(FinalizeMarking, a, a)
  BY Zenon, <1>2, CollectLeads DEF FinalizeMarking
<1> HIDE DEF a
<1>5. Leads(FinalizeMarking \o <<S("wait_markers")>>, a, a)
  BY Zenon, <1>3, <1>4, LeadsOn
<1>6. CASE Wait(t)
  BY Zenon, <1>1, <1>6, PlainWait DEF Wait
<1>7. CASE Then(t, FinalizeMarking \o <<S("wait_markers")>>)
  BY Zenon, <1>1, <1>5, <1>7, PlainTurn DEF a
<1>8. CASE Done(t)
  BY Zenon, <1>1, <1>8, PlainDone
<1> QED
  BY Zenon, <1>6, <1>7, <1>8 DEF WaitForMarkerTasks

(* WaitForSweeperTasks adds nothing. *)
LEMMA WaitForSweeperTasksThreads ==
  ASSUME ThreadsInv, NEW t \in Thread, WaitForSweeperTasks(t)
  PROVE  ThreadsInv' /\ Calm
<1>1. PICK do \in {"wait_sweepers", "wait_at_safepoint"} : Doing(t, do)
  BY Zenon DEF WaitForSweeperTasks
<1>2. do \in Plain /\ UNCHANGED safepoint
  BY Zenon DEF WaitForSweeperTasks, Plain
<1>3. CASE Wait(t)
  BY Zenon, <1>1, <1>2, <1>3, PlainWait DEF Wait
<1>4. CASE Done(t)
  BY Zenon, <1>1, <1>2, <1>4, PlainDone
<1> QED
  BY Zenon, <1>3, <1>4 DEF WaitForSweeperTasks

(* An allocation that fails. *)
LEMMA AllocationFailsThreads ==
  ASSUME ThreadsInv, NEW t \in Thread, AllocationFails(t)
  PROVE  ThreadsInv' /\ Calm
<1>1. /\ Doing(t, "add_page") /\ Done(t) /\ UNCHANGED safepoint
      /\ "add_page" \in Plain
  BY Zenon DEF AllocationFails, Plain
<1> QED
  BY Zenon, <1>1, PlainDone

(* The end of a scavenge may add a wait, a collection or a check. *)
LEMMA ScavengedThreads ==
  ASSUME ThreadsInv, NEW t \in Thread, Scavenged(t)
  PROVE  ThreadsInv' /\ Calm
<1>1. /\ Doing(t, "scavenged") /\ UNCHANGED safepoint
      /\ "scavenged" \in Plain /\ "scavenged" \in Inside
  BY Zenon DEF Scavenged, Plain, Inside
<1>2. Level(t) \in Nat /\ Level(t) > 0 /\ FreeAt(Level(t)) \in Place
  BY Zenon, <1>1, LevelIs
<1> DEFINE a == FreeAt(Level(t))
<1>3. /\ Leads(<<S("wait_at_safepoint")>>, a, a)
      /\ Leads(<<S("check_start")>>, a, a)
  <2>1. "wait_at_safepoint" \in Plain /\ "check_start" \in Plain /\ "" \in Hows
    BY Zenon DEF Plain, Hows
  <2> QED
    BY Zenon, <1>2, <2>1, PlainStep DEF S
<1>4. Leads(Collect("sweep"), a, a) /\ Leads(<<>>, a, a)
  BY Zenon, <1>2, CollectLeads, LeadsNowhere
<1> HIDE DEF a
<1>5. PICK abort \in {<<>>, <<S("wait_at_safepoint")>>},
           old \in {Collect("sweep"), <<S("check_start")>>, <<>>} :
             Then(t, abort \o old)
  BY Zenon DEF Scavenged
<1>6. Leads(abort \o old, a, a)
  BY Zenon, <1>3, <1>4, LeadsOn
<1> QED
  BY Zenon, <1>1, <1>5, <1>6, PlainTurn DEF a

(* The fourth step and those after it. *)
LEMMA SubSeqTail ==
  ASSUME NEW s \in Seq(Act \cup {S("shutdown")}), s # <<>>,
         Tail(s) # <<>>, Tail(Tail(s)) # <<>>
  PROVE  SubSeq(s, 4, Len(s)) = Tail(Tail(Tail(s)))
<1> DEFINE A == Act \cup {S("shutdown")}
           u == Tail(s)
           v == Tail(u)
           w == Tail(v)
           x == SubSeq(s, 4, Len(s))
           n == Len(s)
<1> HIDE DEF A
<1>1. s \in Seq(A) /\ n \in Nat /\ n > 0
  BY DEF A
<1>2. u \in Seq(A) /\ Len(u) = n - 1 /\ \A i \in 1..Len(u) : u[i] = s[i + 1]
  BY <1>1
<1> HIDE DEF u
<1>3. v \in Seq(A) /\ Len(v) = Len(u) - 1 /\ Len(u) > 0
      /\ \A i \in 1..Len(v) : v[i] = u[i + 1]
  BY <1>2 DEF u
<1> HIDE DEF v
<1>4. w \in Seq(A) /\ Len(w) = Len(v) - 1 /\ Len(v) > 0
      /\ \A i \in 1..Len(w) : w[i] = v[i + 1]
  <2>1. v # <<>>
    BY Zenon DEF u, v
  <2> QED
    BY <1>3, <2>1
<1> HIDE DEF w
<1>5. n >= 3 /\ Len(w) = n - 3 /\ Len(v) = n - 2
  BY <1>1, <1>2, <1>3, <1>4
<1>6. x \in Seq(A) /\ Len(x) = n - 3 /\ \A i \in 1..Len(x) : x[i] = s[i + 3]
  BY <1>1, <1>5
<1> HIDE DEF x, n
<1>7. ASSUME NEW i \in 1..n - 3
      PROVE  w[i] = s[i + 3]
  <2>1. /\ i \in 1..Len(w) /\ i + 1 \in 1..Len(v)
        /\ (i + 1) + 1 \in 1..Len(u) /\ ((i + 1) + 1) + 1 = i + 3
    BY <1>1, <1>2, <1>5
  <2> QED
    BY Zenon, <1>2, <1>3, <1>4, <2>1
<1>8. x = w
  BY Zenon, <1>5, <1>6, <1>4, <1>7, SameSequence
<1> QED
  BY Zenon, <1>8 DEF x, w, v, u, n

(* The first critical section of CollectGarbage returns, waits or goes on. *)
LEMMA BeginCollectThreads ==
  ASSUME ThreadsInv, NEW t \in Thread, BeginCollect(t)
  PROVE  /\ ThreadsInv' /\ Current = "free"
         /\ \/ Current' = "free" /\ UNCHANGED counts
            \/ /\ Current' = IF How(t) = "mark" THEN "marking" ELSE "begun"
               /\ ~(How(t) = "mark"
                    /\ phase \in {"kMarking", "kAwaitingFinalization"})
               /\ tasks' = 1 /\ ~(tasks > 0)
               /\ UNCHANGED <<phase, concurrent_marker_tasks>>
<1>1. Doing(t, "begin") /\ UNCHANGED safepoint
  BY Zenon DEF BeginCollect
<1> DEFINE s == todo[t]
           x == Head(s)
           n == Level(t)
<1>2. /\ t \notin gone /\ x.do = "begin" /\ Current = Entry(x) /\ n \in Nat
      /\ Leads(Tail(s), Spot(n, Exit(x)), FreeAt(0)) /\ s # <<>>
  BY Zenon, <1>1, Turn DEF Doing
<1>3. Current = "free" /\ Exit(x) = IF How(t) = "mark" THEN "marking" ELSE "begun"
  BY Zenon, <1>2 DEF Entry, Exit, How
<1>4. CASE /\ How(t) = "mark" /\ phase \in {"kMarking", "kAwaitingFinalization"}
           /\ todo' = [todo EXCEPT ![t] = SubSeq(@, 4, Len(@))]
           /\ UNCHANGED <<ops, gone, deleted, waiting, counts>>
  <2> DEFINE u == Tail(s)
             v == Tail(u)
             w == Tail(v)
  <2>1. Leads(u, Spot(n, "marking"), FreeAt(0))
    BY Zenon, <1>2, <1>3, <1>4
  <2>2. u # <<>>
    BY Zenon, <2>1, LeadsEmpty DEF Spot, FreeAt
  <2>3. PICK c \in Place : /\ Legal(Head(u), Spot(n, "marking"), c)
                           /\ Leads(v, c, FreeAt(0))
    BY Zenon, <2>1, <2>2, LeadsTail
  <2>4. c = Spot(n, "ending")
    <3> DEFINE y == Head(u)
    <3> HIDE DEF y, u
    <3>1. Entry(y) = "marking" /\ c.mode = Exit(y)
      BY Zenon, <2>3 DEF Legal, Spot, y
    <3>2. y.do = "helper"
      BY Zenon, <3>1 DEF Entry
    <3>3. c.mode = "ending" /\ c.level = n
      BY Zenon, <2>3, <3>1, <3>2 DEF Legal, Spot, Exit, y
    <3> QED
      BY Zenon, <3>3 DEF Spot, Place
  <2>5. v # <<>>
    BY Zenon, <2>3, <2>4, LeadsEmpty DEF Spot, FreeAt
  <2>6. PICK d \in Place : /\ Legal(Head(v), Spot(n, "ending"), d)
                           /\ Leads(w, d, FreeAt(0))
    BY Zenon, <2>3, <2>4, <2>5, LeadsTail
  <2>7. d = Spot(n, "free")
    <3> DEFINE y == Head(v)
    <3> HIDE DEF y, v
    <3>1. Entry(y) = "ending" /\ d.mode = Exit(y)
      BY Zenon, <2>6 DEF Legal, Spot, y
    <3>2. y.do = "end"
      BY Zenon, <3>1 DEF Entry
    <3>3. d.mode = "free" /\ d.level = n
      BY Zenon, <2>6, <3>1, <3>2 DEF Legal, Spot, Exit, y
    <3> QED
      BY Zenon, <3>3 DEF Spot, Place
  <2>8. todo' = [todo EXCEPT ![t] = w]
    <3>1. s \in Seq(Act \cup {S("shutdown")})
      BY Zenon DEF ThreadsInv
    <3>2. SubSeq(s, 4, Len(s)) = w
      BY Zenon, <1>2, <2>2, <2>5, <3>1, SubSeqTail
    <3> QED
      BY Zenon, <1>4, <3>2
  <2>9. /\ owner \in {NoThread, t} /\ owner' = owner /\ depth' = depth
        /\ UNCHANGED <<gone, deleted>> /\ depth \in Nat
        /\ (owner = NoThread <=> depth = 0)
        /\ Level(t) = IF owner' = t THEN depth' ELSE 0
    BY Zenon, <1>1, <1>4 DEF Doing, safepoint, ThreadsInv, Level
  <2>10. Leads(w, Spot(IF owner' = t THEN depth' ELSE 0, "free"), FreeAt(0))
    BY Zenon, <2>6, <2>7, <2>9
  <2>11. "free" \in Modes
    BY Zenon DEF Modes
  <2> HIDE DEF w
  <2>12. ThreadsInv' /\ Current' = "free"
    BY Zenon, <1>2, <2>8, <2>9, <2>10, <2>11, ThreadStep
  <2> QED
    BY Zenon, <1>3, <1>4, <2>12
<1>5. CASE /\ tasks > 0 /\ Wait(t)
  <2>1. ThreadsInv' /\ Calm
    BY Zenon, <1>1, <1>5, PlainWait DEF Wait
  <2> QED
    BY Zenon, <1>5, <2>1 DEF Wait, Calm
<1>6. CASE /\ ~(How(t) = "mark"
                /\ phase \in {"kMarking", "kAwaitingFinalization"})
           /\ ~(tasks > 0) /\ tasks' = 1 /\ Done(t)
           /\ UNCHANGED <<phase, concurrent_marker_tasks, waiting>>
  <2>1. ThreadsInv' /\ Current' = Exit(x)
    BY Zenon, <1>1, <1>6, DoneStep
  <2> QED
    BY Zenon, <1>3, <1>6, <2>1
<1> QED
  BY Zenon, <1>4, <1>5, <1>6 DEF BeginCollect

(* StartConcurrentMark has its tasks to start. *)
LEMMA StartConcurrentMarkThreads ==
  ASSUME LibraryFacts, ThreadsInv, NEW t \in Thread, StartConcurrentMark(t)
  PROVE  ThreadsInv' /\ Current = "marking" /\ Current' = "starting"
<1>1. /\ Doing(t, "helper") /\ How(t) = "mark" /\ UNCHANGED safepoint
      /\ Then(t, [i \in 1..Cardinality(MarkTask) |-> S("start_task")]
                   \o <<S("roots")>>)
  BY Zenon DEF StartConcurrentMark
<1>2. /\ Head(todo[t]).do = "helper" /\ Head(todo[t]).how = "mark"
      /\ Current = Entry(Head(todo[t]))
  BY Zenon, <1>1, Turn DEF How
<1>3. Current = "marking" /\ Exit(Head(todo[t])) = "ending"
  BY Zenon, <1>2 DEF Entry, Exit
<1>4. Level(t) \in Nat /\ Level(t) > 0
  BY Zenon, <1>1, LevelIs DEF Inside
<1>5. Cardinality(MarkTask) \in Nat
  BY Zenon DEF LibraryFacts
<1>6. Leads([i \in 1..Cardinality(MarkTask) |-> S("start_task")]
              \o <<S("roots")>>,
            Spot(Level(t), "starting"), Spot(Level(t), "ending"))
  BY Zenon, <1>4, <1>5, StartingLeads
<1>7. "starting" \in Modes
  BY Zenon DEF Modes
<1> QED
  BY Zenon, <1>1, <1>3, <1>6, <1>7, ThenStep

(* A step that leads from one mode to the next. *)
LEMMA ModeStep ==
  ASSUME ThreadsInv, NEW t \in Thread,
         NEW do \in {"start_task", "roots", "sweep_here", "end", "cards",
                     "visit", "iterate_begin", "iterate", "iterate_end"},
         Doing(t, do), Done(t), UNCHANGED safepoint
  PROVE  /\ ThreadsInv'
         /\ Current = Entry(S(do)) /\ Current' = Exit(S(do))
<1>1. Head(todo[t]).do = do /\ Current = Entry(Head(todo[t]))
  BY Zenon, Turn
<1>2. ThreadsInv' /\ Current' = Exit(Head(todo[t]))
  BY Zenon, DoneStep
<1>3. S(do).do = do
  BY Zenon DEF S
<1>4. Entry(Head(todo[t])) = Entry(S(do)) /\ Exit(Head(todo[t])) = Exit(S(do))
  BY Zenon, <1>1, <1>3 DEF Entry, Exit
<1> QED
  BY Zenon, <1>1, <1>2, <1>4

(* Finalize goes on alone or leaves the rest to the sweeper task. *)
LEMMA FinalizeThreads ==
  ASSUME ThreadsInv, NEW t \in Thread, Finalize(t)
  PROVE  /\ ThreadsInv' /\ Current = "begun"
         /\ \/ /\ Current' = "ending"
               /\ tasks' = tasks + 1 /\ phase' = "kSweepingLarge"
               /\ sweeper' = [at |-> "large", page |-> large_pages,
                              prev |-> Null, last |-> large_pages_tail]
            \/ /\ Current' = "sweeping"
               /\ sweeper' = [at |-> "here", page |-> large_pages,
                              prev |-> Null, last |-> large_pages_tail]
               /\ UNCHANGED <<tasks, phase>>
<1>1. Doing(t, "helper") /\ How(t) # "mark" /\ UNCHANGED safepoint
  BY Zenon DEF Finalize
<1>2. /\ Head(todo[t]).do = "helper" /\ Head(todo[t]).how # "mark"
      /\ Current = Entry(Head(todo[t]))
  BY Zenon, <1>1, Turn DEF How
<1>3. Current = "begun" /\ Exit(Head(todo[t])) = "ending"
  BY Zenon, <1>2 DEF Entry, Exit
<1>4. Level(t) \in Nat /\ Level(t) > 0
  BY Zenon, <1>1, LevelIs DEF Inside
<1>5. ASSUME Done(t)
      PROVE  ThreadsInv' /\ Current' = "ending"
  BY Zenon, <1>1, <1>3, <1>5, DoneStep
<1>6. ASSUME Then(t, <<S("sweep_here")>>)
      PROVE  ThreadsInv' /\ Current' = "sweeping"
  <2>1. /\ Entry(S("sweep_here")) = "sweeping"
        /\ Exit(S("sweep_here")) = "ending"
    BY Zenon DEF Entry, Exit, S
  <2>2. /\ "sweep_here" \in Inside /\ "" \in Hows /\ "sweeping" \in Modes
        /\ "sweep_here" \notin {"safepoint", "resume"}
    BY Zenon DEF Inside, Hows, Modes
  <2>3. Leads(<<S("sweep_here")>>, Spot(Level(t), "sweeping"),
              Spot(Level(t), "ending"))
    BY Zenon, <1>4, <2>1, <2>2, OneStep DEF S
  <2> QED
    BY Zenon, <1>1, <1>3, <1>6, <2>2, <2>3, ThenStep
<1> QED
  BY Zenon, <1>3, <1>5, <1>6 DEF Finalize

(* HeapIterationScope collects first, waits or begins. *)
LEMMA HeapIterationScopeThreads ==
  ASSUME ThreadsInv, NEW t \in Thread, HeapIterationScope(t)
  PROVE  /\ ThreadsInv' /\ Current = "free"
         /\ \/ Current' = "free" /\ UNCHANGED counts
            \/ /\ Current' = "iterating" /\ ~IterationFinalizes
               /\ tasks' = 1 /\ ~(tasks > 0)
               /\ UNCHANGED <<phase, concurrent_marker_tasks>>
<1>1. Doing(t, "iterate_begin") /\ UNCHANGED safepoint
  BY Zenon DEF HeapIterationScope
<1>2. /\ Head(todo[t]).do = "iterate_begin" /\ Current = Entry(Head(todo[t]))
  BY Zenon, <1>1, Turn
<1>3. Current = "free" /\ Exit(Head(todo[t])) = "iterating"
  BY Zenon, <1>2 DEF Entry, Exit
<1>4. Level(t) \in Nat /\ Level(t) > 0
  BY Zenon, <1>1, LevelIs DEF Inside
<1>5. ASSUME Then(t, Collect("sweep") \o <<S("iterate_begin")>>)
      PROVE  ThreadsInv' /\ Current' = "free"
  <2>1. Leads(Collect("sweep"), FreeAt(Level(t)), FreeAt(Level(t)))
    BY Zenon, <1>4, CollectLeads
  <2>2. Leads(<<S("iterate_begin")>>, FreeAt(Level(t)),
              Spot(Level(t), "iterating"))
    BY Zenon, <1>4, IterationLeads
  <2>3. Leads(Collect("sweep") \o <<S("iterate_begin")>>,
              Spot(Level(t), "free"), Spot(Level(t), "iterating"))
    BY Zenon, <2>1, <2>2, LeadsOn DEF FreeAt
  <2>4. "free" \in Modes
    BY Zenon DEF Modes
  <2> QED
    BY Zenon, <1>1, <1>3, <1>5, <2>3, <2>4, ThenStep
<1>6. ASSUME Wait(t)
      PROVE  ThreadsInv' /\ Current' = "free" /\ UNCHANGED counts
  BY Zenon, <1>1, <1>6, PlainWait DEF Wait, Calm
<1>7. ASSUME Done(t)
      PROVE  ThreadsInv' /\ Current' = "iterating"
  BY Zenon, <1>1, <1>3, <1>7, DoneStep
<1>8. CASE IterationFinalizes
  BY Zenon, <1>3, <1>5, <1>8 DEF HeapIterationScope
<1>9. CASE ~IterationFinalizes /\ tasks > 0
  BY Zenon, <1>3, <1>6, <1>9 DEF HeapIterationScope
<1>10. CASE ~IterationFinalizes /\ ~(tasks > 0)
  BY Zenon, <1>3, <1>7, <1>10 DEF HeapIterationScope
<1> QED
  BY Zenon, <1>8, <1>9, <1>10

(* A thread that has left, and the last one's shutdown. *)
LEMMA LeaveThreads ==
  ASSUME ThreadsInv, NEW t \in Thread, Leave(t)
  PROVE  ThreadsInv' /\ Calm
<1> DEFINE s == IF gone' = Thread THEN <<S("shutdown")>> ELSE <<>>
<1>1. /\ owner = NoThread /\ owner' = owner /\ depth' = depth /\ t \notin gone
      /\ gone' = gone \cup {t} /\ deleted' = deleted /\ todo[t] = <<>>
      /\ todo' = [todo EXCEPT ![t] = s]
  BY Zenon DEF Leave, safepoint
<1>2. NoThread \notin Thread /\ depth = 0
  BY Zenon, <1>1, OldSpaceAssumption DEF ThreadsInv
<1>3. /\ todo'[t] = s /\ \A u \in Thread \ {t} : todo'[u] = todo[u]
  BY Zenon, <1>1 DEF ThreadsInv
<1>4. S("shutdown") \in Act \cup {S("shutdown")}
  BY Zenon
<1>5. s \in Seq(Act \cup {S("shutdown")}) /\ s \in {<<>>, <<S("shutdown")>>}
  <2> DEFINE A == Act \cup {S("shutdown")}
  <2> HIDE DEF A
  <2>1. S("shutdown") \in A
    BY Zenon DEF A
  <2>2. <<S("shutdown")>> \in Seq(A) /\ <<>> \in Seq(A)
    BY <2>1
  <2> QED
    BY Zenon, <2>2 DEF A
<1>6. Paths'
  <2> SUFFICES ASSUME NEW u \in Thread
               PROVE  IF u \in gone' THEN todo'[u] \in {<<>>, <<S("shutdown")>>}
                      ELSE \E k \in Modes :
                             Leads(todo'[u], Spot(Level(u)', k), FreeAt(0))
    BY Zenon DEF Paths
  <2>1. CASE u = t
    BY Zenon, <1>1, <1>3, <1>5, <2>1
  <2>2. CASE u # t
    <3>1. todo'[u] = todo[u] /\ Level(u)' = Level(u) /\ (u \in gone' <=> u \in gone)
      BY Zenon, <1>1, <1>3, <2>2 DEF Level
    <3> QED
      BY Zenon, <3>1 DEF ThreadsInv, Paths
  <2> QED
    BY Zenon, <2>1, <2>2
<1>7. gone # Thread /\ ~deleted /\ \A u \in Thread : ~At(u, "shutdown")
  BY Zenon, <1>1 DEF ThreadsInv, Leaving
<1>8. Leaving'
  <2>1. \A u \in Thread : At(u, "shutdown")' => u = t /\ gone' = Thread
    <3>1. \A u \in Thread \ {t} : ~At(u, "shutdown")'
      BY Zenon, <1>3, <1>7 DEF At
    <3>2. At(t, "shutdown")' => gone' = Thread
      BY Zenon, <1>3 DEF At
    <3> QED
      BY Zenon, <3>1, <3>2
  <2> QED
    BY Zenon, <1>1, <1>7, <2>1 DEF Leaving
<1>9. ThreadsInv'
  <2>1. todo' \in [Thread -> Seq(Act \cup {S("shutdown")})]
    BY Zenon, <1>1, <1>5 DEF ThreadsInv
  <2> HIDE DEF s
  <2> QED
    BY Zenon, <1>1, <1>2, <1>6, <1>8, <2>1 DEF ThreadsInv
<1>10. Calm
  BY Zenon, <1>1 DEF Calm, Current
<1> QED
  BY Zenon, <1>9, <1>10

(* Shutdown. *)
LEMMA ShutdownThreads ==
  ASSUME ThreadsInv, NEW t \in Thread, Shutdown(t)
  PROVE  ThreadsInv' /\ Calm
<1>1. Doing(t, "shutdown") /\ UNCHANGED safepoint
  BY Zenon DEF Shutdown
<1>2. At(t, "shutdown") /\ NoThread \notin Thread
  BY Zenon, <1>1, OldSpaceAssumption DEF Doing, At
<1>3. gone = Thread /\ owner = NoThread /\ depth = 0
  BY Zenon, <1>2 DEF ThreadsInv, Leaving
<1>4. owner' = NoThread /\ depth' = 0
  BY Zenon, <1>1, <1>3 DEF safepoint
<1>5. Calm
  BY Zenon, <1>3, <1>4 DEF Calm, Current
<1>6. CASE Wait(t)
  BY Zenon, <1>1, <1>5, <1>6, ThreadsStay DEF Wait
<1>7. CASE /\ deleted' = TRUE /\ todo' = [todo EXCEPT ![t] = <<>>]
           /\ UNCHANGED gone
  <2>1. todo'[t] = <<>> /\ \A u \in Thread \ {t} : todo'[u] = todo[u]
    BY Zenon, <1>7 DEF ThreadsInv
  <2>2. \A u \in Thread : todo[u] \in {<<>>, <<S("shutdown")>>}
    BY Zenon, <1>3 DEF ThreadsInv, Paths
  <2>3. \A u \in Thread \ {t} : todo[u] = <<>>
    <3>1. Head(<<S("shutdown")>>).do = "shutdown" /\ <<S("shutdown")>> # <<>>
      <4>1. S("shutdown").do = "shutdown"
        BY Zenon DEF S
      <4>2. /\ Head(<<S("shutdown")>>) = S("shutdown")
            /\ <<S("shutdown")>> # <<>>
        OBVIOUS
      <4> QED
        BY Zenon, <4>1, <4>2
    <3>2. \A u \in Thread : todo[u] = <<S("shutdown")>> => At(u, "shutdown")
      BY Zenon, <3>1 DEF At
    <3> QED
      BY Zenon, <1>2, <2>2, <3>2 DEF ThreadsInv, Leaving
  <2>4. \A u \in Thread : todo'[u] = <<>>
    BY Zenon, <2>1, <2>3
  <2>5. Paths'
    BY Zenon, <1>3, <1>7, <2>4 DEF Paths
  <2>6. Leaving'
    BY Zenon, <1>3, <1>7, <2>4 DEF Leaving, At
  <2>7. todo' \in [Thread -> Seq(Act \cup {S("shutdown")})]
    <3>1. <<>> \in Seq(Act \cup {S("shutdown")})
      OBVIOUS
    <3> QED
      BY Zenon, <1>7, <3>1 DEF ThreadsInv
  <2>8. ThreadsInv'
    BY Zenon, <1>2, <1>3, <1>4, <1>7, <2>5, <2>6, <2>7 DEF ThreadsInv
  <2> QED
    BY Zenon, <1>5, <2>8
<1> QED
  BY Zenon, <1>6, <1>7 DEF Shutdown

-----------------------------------------------------------------------------
(* The phase and the counters.                                             *)

(* Modes in which a mutator counts as a task, and those in which no other  *)
(* task exists.                                                            *)
Driving == {"marking", "begun", "starting", "sweeping", "ending", "iterating",
            "iterated"}
Alone == {"marking", "begun", "sweeping", "iterating", "iterated"}

HeapInv ==
  /\ phase \in Phases /\ marker \in BOOLEAN /\ barrier \in BOOLEAN
  /\ task \in [MarkTask -> {"none", "new", "roots", "drain", "out"}]
  /\ concurrent_marker_tasks = Cardinality(Marking)
  /\ tasks = Cardinality(Marking) + (IF Sweeping THEN 1 ELSE 0)
               + (IF Current \in Driving THEN 1 ELSE 0)
  /\ Current \in Alone => Marking = {} /\ ~Sweeping
  /\ sweeper.at \in {"none", "here", "large", "regular", "out"}
  /\ sweeper.at = "here" <=> Current = "sweeping"
  /\ Current \in {"marking", "iterating"} => phase = "kDone"
  /\ marker <=> barrier
  /\ sweeper.at = "here" => ~marker
  /\ deleted => Marking = {} /\ ~Sweeping /\ ~marker
  /\ ~deleted =>
       /\ phase = "kMarking" <=> Marking # {}
       /\ phase \in {"kMarking", "kAwaitingFinalization"} =>
            marker \/ sweeper.at = "here"
       /\ phase = "kSweepingLarge" <=> sweeper.at = "large"
       /\ phase = "kSweepingRegular" <=> sweeper.at \in {"regular", "out"}
       /\ phase \notin {"kMarking", "kAwaitingFinalization"} => ~marker

(* The marker tasks can be counted. *)
LEMMA MarkingCount ==
  ASSUME LibraryFacts
  PROVE  /\ Cardinality(Marking) \in Nat
         /\ Cardinality(Marking) = 0 <=> Marking = {}
<1>1. Marking \in SUBSET MarkTask
  BY Zenon DEF Marking
<1> QED
  BY Zenon, <1>1 DEF LibraryFacts

(* A task that takes a step without ending or beginning. *)
LEMMA MarkingMoves ==
  ASSUME HeapInv, NEW m \in MarkTask, task[m] # "none",
         NEW where \in {"new", "roots", "drain", "out"},
         task' = [task EXCEPT ![m] = where]
  PROVE  /\ Marking' = Marking
         /\ task' \in [MarkTask -> {"none", "new", "roots", "drain", "out"}]
BY Zenon DEF HeapInv, Marking

(* Nothing that the phase and the counters are about. *)
LEMMA HeapStays ==
  ASSUME HeapInv, UNCHANGED <<counts, marker, barrier, deleted>>,
         Marking' = Marking,
         task' \in [MarkTask -> {"none", "new", "roots", "drain", "out"}],
         sweeper'.at = sweeper.at,
         Current' \in Driving <=> Current \in Driving,
         Current' \in Alone => Current \in Alone,
         Current' = "sweeping" <=> Current = "sweeping",
         Current' \in {"marking", "iterating"} =>
           Current \in {"marking", "iterating"}
  PROVE  HeapInv'
<1>1. UNCHANGED <<phase, tasks, concurrent_marker_tasks>>
  BY Zenon DEF counts
<1>2. Sweeping' <=> Sweeping
  BY Zenon DEF Sweeping
<1> QED
  BY Zenon, <1>1, <1>2 DEF HeapInv

(* The same while the mode of the owner stays what it was. *)
LEMMA HeapRests ==
  ASSUME HeapInv, UNCHANGED <<counts, marking, deleted>>,
         sweeper'.at = sweeper.at, Current' = Current
  PROVE  HeapInv'
<1>1. UNCHANGED <<marker, barrier, task>>
  BY Zenon DEF marking
<1>2. /\ Marking' = Marking
      /\ task' \in [MarkTask -> {"none", "new", "roots", "drain", "out"}]
  BY Zenon, <1>1 DEF HeapInv, Marking
<1> QED
  BY Zenon, <1>1, <1>2, HeapStays

(* A calm step that leaves the heap alone. *)
LEMMA HeapCalm ==
  ASSUME HeapInv, UNCHANGED <<counts, marking, deleted, sweeper>>, Calm
  PROVE  HeapInv'
BY Zenon, HeapRests DEF Calm

(* BeginCollect counts the driver when there is no other task. *)
LEMMA BeginCollectHeap ==
  ASSUME LibraryFacts, ThreadsInv, HeapInv, NEW t \in Thread, BeginCollect(t)
  PROVE  HeapInv'
<1>1. UNCHANGED <<marking, sweeper>> /\ UNCHANGED deleted
  BY Zenon DEF BeginCollect, Wait, threads, Done, Then
<1>2. Doing(t, "begin")
  BY Zenon DEF BeginCollect
<1>3. ~deleted
  BY Zenon, <1>2, Turn
<1>4. Current = "free"
  BY Zenon, BeginCollectThreads
<1>5. CASE Current' = "free" /\ UNCHANGED counts
  BY Zenon, <1>1, <1>4, <1>5, HeapCalm DEF Calm
<1>6. CASE /\ Current' = IF How(t) = "mark" THEN "marking" ELSE "begun"
           /\ ~(How(t) = "mark"
                /\ phase \in {"kMarking", "kAwaitingFinalization"})
           /\ tasks' = 1 /\ ~(tasks > 0)
           /\ UNCHANGED <<phase, concurrent_marker_tasks>>
  <2>1. /\ UNCHANGED <<marker, barrier, task>> /\ Marking' = Marking
        /\ sweeper' = sweeper /\ (Sweeping' <=> Sweeping)
    BY Zenon, <1>1 DEF marking, Marking, Sweeping
  <2>2. Marking = {} /\ ~Sweeping /\ Cardinality(Marking) = 0
    BY <1>4, <1>6, MarkingCount DEF HeapInv, Driving
  <2>3. phase \in {"kDone", "kAwaitingFinalization"}
    BY Zenon, <1>3, <2>2 DEF HeapInv, Phases, Sweeping
  <2>4. Current' \in {"marking", "begun"} /\ (Current' = "marking" => phase = "kDone")
    BY Zenon, <1>6, <2>3
  <2>5. Current' \in Driving /\ Current' \in Alone /\ Current' # "sweeping"
    BY Zenon, <2>4 DEF Driving, Alone
  <2> QED
    BY <1>1, <1>3, <1>4, <1>6, <2>1, <2>2, <2>3, <2>4, <2>5
       DEF HeapInv
<1> QED
  BY Zenon, <1>5, <1>6, BeginCollectThreads

(* StartConcurrentMark counts its tasks before they start. *)
LEMMA StartConcurrentMarkHeap ==
  ASSUME LibraryFacts,
         ThreadsInv, HeapInv, NEW t \in Thread, StartConcurrentMark(t)
  PROVE  HeapInv'
<1>1. /\ Doing(t, "helper") /\ UNCHANGED <<sweeper, deleted>>
      /\ marker' = TRUE /\ barrier' = TRUE /\ phase' = "kMarking"
      /\ tasks' = tasks + Cardinality(MarkTask)
      /\ concurrent_marker_tasks' =
           concurrent_marker_tasks + Cardinality(MarkTask)
      /\ task' = [m \in MarkTask |-> "new"]
  BY Zenon DEF StartConcurrentMark, AddTasks, Then
<1>2. ~deleted
  BY Zenon, <1>1, Turn
<1>3. Current = "marking" /\ Current' = "starting"
  BY Zenon, StartConcurrentMarkThreads
<1>4. Marking' = MarkTask /\ MarkTask # {} /\ (Sweeping' <=> Sweeping)
  BY Zenon, <1>1, OldSpaceAssumption DEF Marking, Sweeping
<1>5. Marking = {} /\ ~Sweeping
  BY Zenon, <1>3 DEF HeapInv, Alone
<1>6. Cardinality(Marking) = 0 /\ Cardinality(MarkTask) \in Nat
  BY Zenon, <1>5, MarkingCount DEF LibraryFacts
<1>7. tasks = 1 /\ concurrent_marker_tasks = 0
  BY <1>3, <1>5, <1>6 DEF HeapInv, Driving
<1>8. Current' \in Driving /\ Current' \notin Alone
  BY Zenon, <1>3 DEF Driving, Alone
<1>9. task' \in [MarkTask -> {"none", "new", "roots", "drain", "out"}]
  BY Zenon, <1>1
<1>10. sweeper.at \notin {"here", "large", "regular", "out"}
  BY Zenon, <1>3, <1>5 DEF HeapInv, Sweeping
<1> QED
  BY <1>1, <1>2, <1>3, <1>4, <1>5, <1>6, <1>7, <1>8, <1>9, <1>10
     DEF HeapInv, Phases

(* StartMarkTask. *)
LEMMA StartMarkTaskHeap ==
  ASSUME ThreadsInv, HeapInv, NEW t \in Thread, StartMarkTask(t)
  PROVE  HeapInv'
<1>1. /\ Doing(t, "start_task") /\ Done(t)
      /\ UNCHANGED <<safepoint, counts, marker, barrier, sweeper, deleted>>
  BY Zenon DEF StartMarkTask, Done, Then
<1>2. Current = "starting" /\ Current' = "starting"
  BY Zenon, <1>1, ModeStep DEF Entry, Exit, S
<1>3. PICK m \in MarkTask : /\ task[m] = "new"
                            /\ task' = [task EXCEPT ![m] = "roots"]
  BY Zenon DEF StartMarkTask
<1>4. /\ Marking' = Marking
      /\ task' \in [MarkTask -> {"none", "new", "roots", "drain", "out"}]
  BY Zenon, <1>3, MarkingMoves
<1> QED
  BY Zenon, <1>1, <1>2, <1>4, HeapStays

(* WaitForRoots. *)
LEMMA WaitForRootsHeap ==
  ASSUME ThreadsInv, HeapInv, NEW t \in Thread, WaitForRoots(t)
  PROVE  HeapInv'
<1>1. /\ Doing(t, "roots") /\ Done(t)
      /\ UNCHANGED <<safepoint, counts, marker, barrier, task, sweeper, deleted>>
  BY Zenon DEF WaitForRoots, Done, Then, marking
<1>2. Current = "starting" /\ Current' = "ending"
  BY Zenon, <1>1, ModeStep DEF Entry, Exit, S
<1>3. /\ Marking' = Marking
      /\ task' \in [MarkTask -> {"none", "new", "roots", "drain", "out"}]
  BY Zenon, <1>1 DEF Marking, HeapInv
<1>4. /\ Current' \in Driving /\ Current \in Driving /\ Current' \notin Alone
      /\ Current' \notin {"marking", "iterating", "sweeping"}
      /\ Current # "sweeping"
  BY Zenon, <1>2 DEF Driving, Alone
<1> QED
  BY Zenon, <1>1, <1>3, <1>4, HeapStays

(* Finalize counts the sweeper before it starts. *)
LEMMA FinalizeHeap ==
  ASSUME LibraryFacts, ThreadsInv, HeapInv, NEW t \in Thread, Finalize(t)
  PROVE  HeapInv'
<1>1. /\ Doing(t, "helper") /\ UNCHANGED <<concurrent_marker_tasks, task>>
      /\ marker' = FALSE /\ barrier' = FALSE /\ UNCHANGED deleted
  BY Zenon DEF Finalize, Done, Then
<1>2. ~deleted
  BY Zenon, <1>1, Turn
<1>3. Current = "begun"
  BY Zenon, FinalizeThreads
<1>4. Marking' = Marking
  BY Zenon, <1>1 DEF Marking
<1>5. Marking = {} /\ ~Sweeping /\ Cardinality(Marking) = 0
  BY Zenon, <1>3, MarkingCount DEF HeapInv, Alone
<1>6. tasks = 1
  BY <1>3, <1>5 DEF HeapInv, Driving
<1>7. phase \in {"kDone", "kAwaitingFinalization"}
  BY Zenon, <1>2, <1>5 DEF HeapInv, Phases, Sweeping
<1>8. CASE /\ Current' = "ending"
           /\ tasks' = tasks + 1 /\ phase' = "kSweepingLarge"
           /\ sweeper' = [at |-> "large", page |-> large_pages,
                          prev |-> Null, last |-> large_pages_tail]
  <2>1. sweeper'.at = "large" /\ Sweeping'
    BY Zenon, <1>8 DEF Sweeping
  <2>2. Current' \in Driving /\ Current' \notin Alone
    BY Zenon, <1>8 DEF Driving, Alone
  <2>3. Current' = "ending" /\ tasks' = 2 /\ phase' = "kSweepingLarge"
    BY <1>6, <1>8
  <2>4. task' \in [MarkTask -> {"none", "new", "roots", "drain", "out"}]
    BY Zenon, <1>1 DEF HeapInv
  <2>5. concurrent_marker_tasks' = 0 /\ Cardinality(Marking') = 0
    BY Zenon, <1>1, <1>4, <1>5 DEF HeapInv
  <2>6. tasks' = Cardinality(Marking') + (IF Sweeping' THEN 1 ELSE 0)
                 + (IF Current' \in Driving THEN 1 ELSE 0)
    BY <2>1, <2>2, <2>3, <2>5
  <2>7. ~marker' /\ ~barrier' /\ marker' \in BOOLEAN /\ barrier' \in BOOLEAN
    BY Zenon, <1>1
  <2> QED
    BY Zenon, <1>1, <1>2, <1>4, <1>5, <2>1, <2>2, <2>3, <2>4, <2>5, <2>6, <2>7
       DEF HeapInv, Phases
<1>9. CASE /\ Current' = "sweeping"
           /\ sweeper' = [at |-> "here", page |-> large_pages,
                          prev |-> Null, last |-> large_pages_tail]
           /\ UNCHANGED <<tasks, phase>>
  <2>1. sweeper'.at = "here" /\ ~Sweeping'
    BY Zenon, <1>9 DEF Sweeping
  <2>2. Current' \in Driving /\ Current' \in Alone
    BY Zenon, <1>9 DEF Driving, Alone
  <2>3. Current' = "sweeping" /\ tasks' = 1 /\ phase' = phase
    BY Zenon, <1>6, <1>9
  <2>4. task' \in [MarkTask -> {"none", "new", "roots", "drain", "out"}]
    BY Zenon, <1>1 DEF HeapInv
  <2>5. concurrent_marker_tasks' = 0 /\ Cardinality(Marking') = 0
    BY Zenon, <1>1, <1>4, <1>5 DEF HeapInv
  <2>6. tasks' = Cardinality(Marking') + (IF Sweeping' THEN 1 ELSE 0)
                 + (IF Current' \in Driving THEN 1 ELSE 0)
    BY <2>1, <2>2, <2>3, <2>5
  <2>7. ~marker' /\ ~barrier' /\ marker' \in BOOLEAN /\ barrier' \in BOOLEAN
    BY Zenon, <1>1
  <2> QED
    BY Zenon, <1>1, <1>2, <1>4, <1>5, <1>7, <2>1, <2>2, <2>3, <2>4, <2>5, <2>6,
       <2>7
       DEF HeapInv, Phases
<1> QED
  BY Zenon, <1>8, <1>9, FinalizeThreads

(* The types of the list of large pages and of those who walk it. *)
PagesTypes ==
  /\ next \in [Page -> Page \cup {Null}] /\ mapped \subseteq Page
  /\ large_pages \in Page \cup {Null} /\ large_pages_tail \in Page \cup {Null}
  /\ sweeper \in [at : {"none", "here", "large", "regular", "out"},
                  page : Page \cup {Null}, prev : Page \cup {Null},
                  last : Page \cup {Null}]
  /\ visit \in [page : Page \cup {Null}, tail : Page \cup {Null}]

(* One page swept. *)
LEMMA SweepLargePageAt ==
  ASSUME PagesTypes, SweepLargePage
  PROVE  sweeper'.at = sweeper.at /\ sweeper'.last = sweeper.last
<1>1. \E p, q : sweeper' = [sweeper EXCEPT !.page = p]
             \/ sweeper' = [sweeper EXCEPT !.page = p, !.prev = q]
  BY Zenon DEF SweepLargePage
<1> QED
  BY Zenon, <1>1 DEF PagesTypes

(* SweepHere, a page or the end. *)
LEMMA SweepHereHeap ==
  ASSUME ThreadsInv, HeapInv, PagesTypes, NEW t \in Thread, SweepHere(t)
  PROVE  /\ HeapInv' /\ ThreadsInv' /\ Current = "sweeping"
         /\ Current' \in {"sweeping", "ending"}
<1>1. /\ Doing(t, "sweep_here")
      /\ UNCHANGED <<safepoint, tasks, concurrent_marker_tasks, marking>>
  BY Zenon DEF SweepHere
<1>2. Current = Entry(Head(todo[t])) /\ Head(todo[t]).do = "sweep_here" /\ ~deleted
  BY Zenon, <1>1, Turn
<1>3. Current = "sweeping"
  BY Zenon, <1>2 DEF Entry
<1>4. CASE SweepLargePage /\ UNCHANGED <<threads, phase>>
  <2>1. ThreadsInv' /\ Current' = Current
    BY Zenon, <1>1, <1>4, ThreadsStay
  <2>2. UNCHANGED <<counts, deleted>>
    BY Zenon, <1>1, <1>4 DEF counts, threads
  <2> QED
    BY Zenon, <1>1, <1>3, <1>4, <2>1, <2>2, SweepLargePageAt, HeapRests
<1>5. CASE sweeper' = NoSweeper /\ phase' = "kDone" /\ Done(t)
  <2>1. ThreadsInv' /\ Current' = "ending"
    BY Zenon, <1>1, <1>5, ModeStep DEF Exit, S
  <2>2. sweeper'.at = "none" /\ ~Sweeping'
    BY Zenon, <1>5 DEF NoSweeper, Sweeping
  <2>3. /\ UNCHANGED <<marker, barrier, task>> /\ Marking' = Marking
        /\ UNCHANGED <<deleted, tasks, concurrent_marker_tasks>>
    BY Zenon, <1>1, <1>5 DEF marking, Marking, Done, Then
  <2>4. Current \in Driving /\ Current \in Alone
    BY Zenon, <1>3 DEF Driving, Alone
  <2>5. Current' \in Driving /\ Current' \notin Alone
    BY Zenon, <2>1 DEF Driving, Alone
  <2>6. phase' = "kDone"
    BY Zenon, <1>5
  <2>7. HeapInv'
    BY Zenon, <1>2, <1>3, <2>1, <2>2, <2>3, <2>4, <2>5, <2>6 DEF HeapInv, Phases
  <2> QED
    BY Zenon, <1>3, <2>1, <2>7
<1> QED
  BY Zenon, <1>4, <1>5 DEF SweepHere

(* EndCollect. *)
LEMMA EndCollectHeap ==
  ASSUME LibraryFacts, ThreadsInv, HeapInv, NEW t \in Thread, EndCollect(t)
  PROVE  HeapInv' /\ ThreadsInv' /\ Current = "ending" /\ Current' = "free"
<1>1. /\ Doing(t, "end") /\ Done(t) /\ tasks' = tasks - 1
      /\ UNCHANGED <<safepoint, phase, concurrent_marker_tasks, marking,
                     sweeper, deleted>>
  BY Zenon DEF EndCollect, Done, Then
<1>2. ThreadsInv' /\ Current = "ending" /\ Current' = "free"
  BY Zenon, <1>1, ModeStep DEF Entry, Exit, S
<1>3. /\ UNCHANGED <<marker, barrier, task>> /\ Marking' = Marking
      /\ sweeper' = sweeper /\ (Sweeping' <=> Sweeping)
  BY Zenon, <1>1 DEF marking, Marking, Sweeping
<1>4. Current \in Driving /\ Current' \notin Driving /\ Current' \notin Alone
  BY Zenon, <1>2 DEF Driving, Alone
<1>5. HeapInv'
  <2>1. tasks' = Cardinality(Marking') + (IF Sweeping' THEN 1 ELSE 0)
                 + (IF Current' \in Driving THEN 1 ELSE 0)
    BY <1>1, <1>3, <1>4, MarkingCount DEF HeapInv
  <2> QED
    BY <1>1, <1>2, <1>3, <1>4, <2>1 DEF HeapInv
<1> QED
  BY Zenon, <1>2, <1>5

(* HeapIterationScope counts the iterator when there is no task. *)
LEMMA HeapIterationScopeHeap ==
  ASSUME LibraryFacts,
         ThreadsInv, HeapInv, NEW t \in Thread, HeapIterationScope(t)
  PROVE  HeapInv'
<1>1. UNCHANGED <<marking, sweeper>> /\ UNCHANGED deleted
  BY Zenon DEF HeapIterationScope, Wait, threads, Done, Then
<1>2. Doing(t, "iterate_begin")
  BY Zenon DEF HeapIterationScope
<1>3. ~deleted
  BY Zenon, <1>2, Turn
<1>4. Current = "free"
  BY Zenon, HeapIterationScopeThreads
<1>5. CASE Current' = "free" /\ UNCHANGED counts
  BY Zenon, <1>1, <1>4, <1>5, HeapCalm DEF Calm
<1>6. CASE /\ Current' = "iterating" /\ ~IterationFinalizes
           /\ tasks' = 1 /\ ~(tasks > 0)
           /\ UNCHANGED <<phase, concurrent_marker_tasks>>
  <2>1. /\ UNCHANGED <<marker, barrier, task>> /\ Marking' = Marking
        /\ sweeper' = sweeper /\ (Sweeping' <=> Sweeping)
    BY Zenon, <1>1 DEF marking, Marking, Sweeping
  <2>2. Marking = {} /\ ~Sweeping /\ Cardinality(Marking) = 0
    BY <1>4, <1>6, MarkingCount DEF HeapInv, Driving
  <2>3. phase = "kDone"
    BY Zenon, <1>3, <1>6, <2>2 DEF HeapInv, Phases, Sweeping, IterationFinalizes
  <2>4. Current' \in Driving /\ Current' \in Alone /\ Current' # "sweeping"
    BY Zenon, <1>6 DEF Driving, Alone
  <2> QED
    BY <1>1, <1>3, <1>4, <1>6, <2>1, <2>2, <2>3, <2>4 DEF HeapInv
<1> QED
  BY Zenon, <1>5, <1>6, HeapIterationScopeThreads

(* Iterate. *)
LEMMA IterateHeap ==
  ASSUME ThreadsInv, HeapInv, NEW t \in Thread, Iterate(t)
  PROVE  /\ HeapInv' /\ ThreadsInv'
         /\ Current = "iterating" /\ Current' = "iterated"
<1>1. /\ Doing(t, "iterate") /\ Done(t)
      /\ UNCHANGED <<safepoint, counts, marker, barrier, task, sweeper, deleted>>
  BY Zenon DEF Iterate, Done, Then, marking
<1>2. ThreadsInv' /\ Current = "iterating" /\ Current' = "iterated"
  BY Zenon, <1>1, ModeStep DEF Entry, Exit, S
<1>3. /\ Marking' = Marking
      /\ task' \in [MarkTask -> {"none", "new", "roots", "drain", "out"}]
  BY Zenon, <1>1 DEF Marking, HeapInv
<1>4. /\ Current' \in Driving /\ Current \in Driving /\ Current \in Alone
      /\ Current' \notin {"marking", "iterating", "sweeping"}
      /\ Current # "sweeping"
  BY Zenon, <1>2 DEF Driving, Alone
<1> QED
  BY Zenon, <1>1, <1>2, <1>3, <1>4, HeapStays

(* EndHeapIterationScope. *)
LEMMA EndHeapIterationScopeHeap ==
  ASSUME LibraryFacts,
         ThreadsInv, HeapInv, NEW t \in Thread, EndHeapIterationScope(t)
  PROVE  HeapInv' /\ ThreadsInv' /\ Current = "iterated" /\ Current' = "free"
<1>1. /\ Doing(t, "iterate_end") /\ Done(t) /\ tasks' = 0
      /\ UNCHANGED <<safepoint, phase, concurrent_marker_tasks, marking,
                     sweeper, deleted>>
  BY Zenon DEF EndHeapIterationScope, Done, Then
<1>2. ThreadsInv' /\ Current = "iterated" /\ Current' = "free"
  BY Zenon, <1>1, ModeStep DEF Entry, Exit, S
<1>3. /\ UNCHANGED <<marker, barrier, task>> /\ Marking' = Marking
      /\ sweeper' = sweeper /\ (Sweeping' <=> Sweeping)
  BY Zenon, <1>1 DEF marking, Marking, Sweeping
<1>4. Current \in Alone /\ Current' \notin Driving /\ Current' \notin Alone
  BY Zenon, <1>2 DEF Driving, Alone
<1>5. HeapInv'
  BY <1>1, <1>2, <1>3, <1>4, MarkingCount DEF HeapInv
<1> QED
  BY Zenon, <1>2, <1>5

(* Shutdown deletes a heap without tasks. *)
LEMMA ShutdownHeap ==
  ASSUME LibraryFacts, ThreadsInv, HeapInv, NEW t \in Thread, Shutdown(t)
  PROVE  HeapInv'
<1>1. UNCHANGED <<task, sweeper, slices>> /\ Calm
  BY Zenon, ShutdownThreads DEF Shutdown
<1>2. CASE Wait(t) /\ UNCHANGED <<marker, barrier>>
  <2>1. UNCHANGED <<counts, marking, deleted, sweeper>>
    BY Zenon, <1>1, <1>2 DEF Wait, threads, marking
  <2> QED
    BY Zenon, <1>1, <2>1, HeapCalm
<1>3. CASE /\ ~ShutdownWaits /\ marker' = FALSE /\ barrier' = FALSE
           /\ deleted' = TRUE /\ UNCHANGED counts
  <2>1. /\ UNCHANGED <<phase, tasks, concurrent_marker_tasks>>
        /\ Marking' = Marking /\ sweeper' = sweeper /\ task' = task
        /\ (Sweeping' <=> Sweeping)
    BY Zenon, <1>1, <1>3 DEF counts, Marking, Sweeping
  <2>2. Current = "free" /\ Current' = "free" /\ ~(tasks > 0)
    BY Zenon, <1>1, <1>3 DEF Calm, ShutdownWaits
  <2>3. "free" \notin Driving /\ "free" \notin Alone
    BY Zenon DEF Driving, Alone
  <2>4. Marking = {} /\ ~Sweeping
    BY <2>2, <2>3, MarkingCount DEF HeapInv
  <2> QED
    BY Zenon, <1>3, <2>1, <2>2, <2>3, <2>4 DEF HeapInv
<1> QED
  BY Zenon, <1>2, <1>3 DEF Shutdown

(* A marker task at the roots. *)
LEMMA MarkRootsHeap ==
  ASSUME ThreadsInv, HeapInv, NEW m \in MarkTask, MarkRoots(m)
  PROVE  HeapInv'
<1>1. /\ UNCHANGED <<threads, safepoint, counts, marker, barrier, sweeper>>
      /\ task[m] = "roots"
      /\ UNCHANGED task \/ task' = [task EXCEPT ![m] = "drain"]
  BY Zenon DEF MarkRoots
<1>2. Current' = Current /\ UNCHANGED deleted
  BY Zenon, <1>1, ThreadsStay DEF threads
<1>3. /\ Marking' = Marking
      /\ task' \in [MarkTask -> {"none", "new", "roots", "drain", "out"}]
  <2>1. CASE UNCHANGED task
    BY Zenon, <2>1 DEF Marking, HeapInv
  <2>2. CASE task' = [task EXCEPT ![m] = "drain"]
    BY Zenon, <1>1, <2>2, MarkingMoves
  <2> QED
    BY Zenon, <1>1, <2>1, <2>2
<1> QED
  BY Zenon, <1>1, <1>2, <1>3, HeapStays

(* A marker task that has drained the stack. *)
LEMMA DrainAndExitHeap ==
  ASSUME ThreadsInv, HeapInv, NEW m \in MarkTask, DrainAndExit(m)
  PROVE  HeapInv'
<1>1. /\ UNCHANGED <<threads, safepoint, counts, marker, barrier, sweeper>>
      /\ task[m] = "drain" /\ task' = [task EXCEPT ![m] = "out"]
  BY Zenon DEF DrainAndExit
<1>2. Current' = Current /\ UNCHANGED deleted
  BY Zenon, <1>1, ThreadsStay DEF threads
<1>3. /\ Marking' = Marking
      /\ task' \in [MarkTask -> {"none", "new", "roots", "drain", "out"}]
  BY Zenon, <1>1, MarkingMoves
<1> QED
  BY Zenon, <1>1, <1>2, <1>3, HeapStays

(* The last marker task to end changes the phase. *)
LEMMA EndMarkTaskHeap ==
  ASSUME LibraryFacts, ThreadsInv, HeapInv, NEW m \in MarkTask, EndMarkTask(m)
  PROVE  HeapInv'
<1>1. /\ UNCHANGED <<threads, safepoint, marker, barrier, sweeper>>
      /\ task[m] = "out" /\ task' = [task EXCEPT ![m] = "none"]
      /\ tasks' = tasks + (-1)
      /\ concurrent_marker_tasks' = concurrent_marker_tasks + (-1)
      /\ phase' = PhaseAfterMarkTask
  BY Zenon DEF EndMarkTask, AddTasks
<1>2. Current' = Current /\ UNCHANGED deleted
  BY Zenon, <1>1, ThreadsStay DEF threads
<1>3. /\ Marking' = Marking \ {m} /\ m \in Marking
      /\ task' \in [MarkTask -> {"none", "new", "roots", "drain", "out"}]
      /\ (Sweeping' <=> Sweeping) /\ sweeper' = sweeper
  BY Zenon, <1>1 DEF Marking, HeapInv, Sweeping
<1> DEFINE n == Cardinality(Marking)
           k == Cardinality(Marking')
<1>4. n \in Nat /\ n > 0 /\ k = n - 1 /\ (k = 0 <=> Marking' = {})
  <2>1. Marking \in SUBSET MarkTask /\ Marking' \in SUBSET MarkTask
    BY Zenon, <1>3 DEF Marking
  <2>2. n \in Nat /\ (n = 0 <=> Marking = {})
    BY Zenon, MarkingCount
  <2>3. k = n - 1 /\ (k = 0 <=> Marking' = {})
    BY Zenon, <1>3, <2>1 DEF LibraryFacts
  <2> QED
    BY <1>3, <2>2, <2>3
<1>5. ~deleted /\ phase = "kMarking" /\ Current \notin Alone /\ marker
  <2>1. Marking # {} /\ "sweeping" \in Alone
    BY Zenon, <1>3 DEF Alone
  <2> QED
    BY Zenon, <2>1 DEF HeapInv
<1>6. phase' = IF n = 1 THEN "kAwaitingFinalization" ELSE "kMarking"
  BY Zenon, <1>1, <1>5 DEF PhaseAfterMarkTask, HeapInv
<1>7. concurrent_marker_tasks' = k
  BY Zenon, <1>1, <1>4 DEF HeapInv
<1>8. tasks' = k + (IF Sweeping' THEN 1 ELSE 0)
                 + (IF Current' \in Driving THEN 1 ELSE 0)
  BY <1>1, <1>2, <1>3, <1>4 DEF HeapInv
<1> HIDE DEF n
<1>9. phase' \in Phases /\ (phase' = "kMarking" <=> Marking' # {})
      /\ phase' \in {"kMarking", "kAwaitingFinalization"}
  BY <1>4, <1>6 DEF Phases
<1>10. sweeper.at \notin {"large", "regular", "out"} /\ marker'
       /\ ~deleted'
  BY Zenon, <1>1, <1>2, <1>5 DEF HeapInv
<1> QED
  BY Zenon, <1>1, <1>2, <1>3, <1>5, <1>7, <1>8, <1>9, <1>10 DEF HeapInv

(* The sweeper task, among the large pages. *)
LEMMA SweepLargeStepHeap ==
  ASSUME ThreadsInv, HeapInv, PagesTypes, SweepLargeStep
  PROVE  HeapInv'
<1>1. /\ UNCHANGED <<threads, safepoint, tasks, concurrent_marker_tasks,
                     marking>>
      /\ sweeper.at = "large"
  BY Zenon DEF SweepLargeStep
<1>2. Current' = Current /\ UNCHANGED deleted
  BY Zenon, <1>1, ThreadsStay DEF threads
<1>3. CASE SweepLargePage /\ UNCHANGED phase
  <2>1. UNCHANGED counts
    BY Zenon, <1>1, <1>3 DEF counts
  <2> QED
    BY Zenon, <1>1, <1>2, <1>3, <2>1, SweepLargePageAt, HeapRests
<1>4. CASE /\ sweeper' = [NoSweeper EXCEPT !.at = "regular"]
           /\ phase' = "kSweepingRegular"
  <2>1. sweeper'.at = "regular" /\ phase' = "kSweepingRegular"
    BY Zenon, <1>4 DEF NoSweeper
  <2>2. /\ UNCHANGED <<marker, barrier, task>> /\ Marking' = Marking
        /\ Sweeping /\ Sweeping'
    BY Zenon, <1>1, <2>1 DEF marking, Marking, Sweeping
  <2>3. ~deleted /\ phase = "kSweepingLarge" /\ Marking = {} /\ ~marker
    BY Zenon, <1>1, <2>2 DEF HeapInv
  <2> QED
    BY Zenon, <1>1, <1>2, <2>1, <2>2, <2>3 DEF HeapInv, Phases
<1> QED
  BY Zenon, <1>3, <1>4 DEF SweepLargeStep

(* The sweeper task, among the regular pages. *)
LEMMA SweepRegularHeap ==
  ASSUME ThreadsInv, HeapInv, PagesTypes, SweepRegular
  PROVE  HeapInv'
<1>1. /\ UNCHANGED <<threads, safepoint, counts, marking>>
      /\ sweeper.at = "regular" /\ sweeper'.at = "out"
  BY Zenon DEF SweepRegular, PagesTypes
<1>2. Current' = Current /\ UNCHANGED deleted
  BY Zenon, <1>1, ThreadsStay DEF threads
<1>3. UNCHANGED <<phase, tasks, concurrent_marker_tasks>>
  BY Zenon, <1>1 DEF counts
<1>4. /\ UNCHANGED <<marker, barrier, task>> /\ Marking' = Marking
      /\ Sweeping /\ Sweeping'
  BY Zenon, <1>1 DEF marking, Marking, Sweeping
<1> QED
  BY Zenon, <1>1, <1>2, <1>3, <1>4 DEF HeapInv

(* The sweeper task ends. *)
LEMMA EndSweepHeap ==
  ASSUME LibraryFacts, ThreadsInv, HeapInv, EndSweep
  PROVE  HeapInv'
<1>1. /\ UNCHANGED <<threads, safepoint, concurrent_marker_tasks, marking>>
      /\ sweeper.at = "out" /\ sweeper' = NoSweeper
      /\ tasks' = tasks - 1 /\ phase' = "kDone"
  BY Zenon DEF EndSweep
<1>2. Current' = Current /\ UNCHANGED deleted
  BY Zenon, <1>1, ThreadsStay DEF threads
<1>3. sweeper'.at = "none"
  BY Zenon, <1>1 DEF NoSweeper
<1>4. /\ UNCHANGED <<marker, barrier, task>> /\ Marking' = Marking
      /\ Sweeping /\ ~Sweeping'
  BY Zenon, <1>1, <1>3 DEF marking, Marking, Sweeping
<1>5. ~deleted /\ phase = "kSweepingRegular" /\ Marking = {} /\ ~marker
  BY Zenon, <1>1, <1>4 DEF HeapInv
<1>6. tasks' = tasks - 1 /\ phase' = "kDone"
  BY Zenon, <1>1
<1>7. Cardinality(Marking) = 0 /\ Current # "sweeping" /\ Current \notin Alone
  BY Zenon, <1>1, <1>4, <1>5, MarkingCount DEF HeapInv
<1>8. concurrent_marker_tasks' = 0 /\ sweeper.at = "out"
  BY Zenon, <1>1, <1>5, <1>7 DEF HeapInv
<1>9. tasks' = Cardinality(Marking') + (IF Sweeping' THEN 1 ELSE 0)
                 + (IF Current' \in Driving THEN 1 ELSE 0)
  BY <1>2, <1>4, <1>6, <1>7 DEF HeapInv, Driving
<1>10. /\ concurrent_marker_tasks' = Cardinality(Marking')
       /\ task' \in [MarkTask -> {"none", "new", "roots", "drain", "out"}]
       /\ marker' = FALSE /\ barrier' = FALSE /\ Marking' = {}
  BY Zenon, <1>4, <1>5, <1>7, <1>8 DEF HeapInv
<1> QED
  BY Zenon, <1>2, <1>3, <1>4, <1>5, <1>6, <1>7, <1>9, <1>10 DEF HeapInv, Phases

-----------------------------------------------------------------------------
(* The list of large pages.                                                *)

(* The n pages of list, linked from head to tail, are those of set. *)
Chain(list, n, head, tail, nx, set) ==
  /\ n \in Nat /\ list \in [1..n -> Page]
  /\ set = {list[i] : i \in 1..n}
  /\ \A i, j \in 1..n : list[i] = list[j] => i = j
  /\ head = IF n = 0 THEN Null ELSE list[1]
  /\ tail = IF n = 0 THEN Null ELSE list[n]
  /\ \A i \in 1..n : nx[list[i]] = IF i = n THEN Null ELSE list[i + 1]

(* The list with a page p at its end, and the links when p is put there. *)
Along(list, n, p) == [k \in 1..n + 1 |-> IF k <= n THEN list[k] ELSE p]
Appended(p, head, tail, nx, set, head2, nx2, set2) ==
  /\ nx2 = [q \in Page |-> IF q = p THEN Null
                           ELSE IF head # Null /\ q = tail THEN p ELSE nx[q]]
  /\ head2 = IF head = Null THEN p ELSE head
  /\ set2 = set \cup {p}

(* The other pages keep their places. *)
LEMMA AlongIs ==
  ASSUME NEW list, NEW n \in Nat, NEW p, NEW k \in 1..n
  PROVE  k \in 1..n + 1 /\ Along(list, n, p)[k] = list[k]
<1>1. k \in 1..n + 1 /\ k <= n
  OBVIOUS
<1> QED
  BY Zenon, <1>1 DEF Along

(* A page at the end. *)
LEMMA ChainAppend ==
  ASSUME NEW list, NEW n, NEW head, NEW tail, NEW nx, NEW set,
         Chain(list, n, head, tail, nx, set),
         NEW p \in Page \ set, NEW head2, NEW nx2, NEW set2,
         Appended(p, head, tail, nx, set, head2, nx2, set2)
  PROVE  Chain(Along(list, n, p), n + 1, head2, p, nx2, set2)
<1> DEFINE L == [k \in 1..n + 1 |-> IF k <= n THEN list[k] ELSE p]
<1>0. /\ nx2 = [q \in Page |-> IF q = p THEN Null
                  ELSE IF head # Null /\ q = tail THEN p ELSE nx[q]]
      /\ head2 = IF head = Null THEN p ELSE head
      /\ set2 = set \cup {p}
  BY Zenon DEF Appended
<1>1. n \in Nat /\ list \in [1..n -> Page]
  BY Zenon DEF Chain
<1>2. L \in [1..n + 1 -> Page]
  BY <1>1
<1>3. (\A k \in 1..n : L[k] = list[k] /\ k # n + 1) /\ L[n + 1] = p
  BY <1>1
<1>4. 1..n + 1 = 1..n \cup {n + 1} /\ n + 1 \notin 1..n /\ n + 1 \in Nat
      /\ n + 1 # 0
  BY <1>1
<1> HIDE DEF L
<1>5. \A k \in 1..n : list[k] \in set /\ list[k] # p /\ list[k] \in Page
  BY Zenon, <1>1 DEF Chain
<1>6. set \cup {p} = {L[i] : i \in 1..n + 1}
  <2>1. set = {list[i] : i \in 1..n}
    BY Zenon DEF Chain
  <2>2. set = {L[i] : i \in 1..n}
    BY Zenon, <1>3, <2>1
  <2>3. {L[i] : i \in 1..n + 1} = {L[i] : i \in 1..n} \cup {L[n + 1]}
    BY Zenon, <1>4
  <2> QED
    BY Zenon, <1>3, <2>2, <2>3
<1>7. \A i, j \in 1..n + 1 : L[i] = L[j] => i = j
  <2> SUFFICES ASSUME NEW i \in 1..n + 1, NEW j \in 1..n + 1, L[i] = L[j]
               PROVE  i = j
    BY Zenon
  <2>1. CASE i \in 1..n /\ j \in 1..n
    BY Zenon, <1>3, <2>1 DEF Chain
  <2>2. CASE i \in 1..n /\ j = n + 1
    BY Zenon, <1>3, <1>5, <2>2
  <2>3. CASE i = n + 1 /\ j \in 1..n
    BY Zenon, <1>3, <1>5, <2>3
  <2> QED
    BY Zenon, <1>4, <2>1, <2>2, <2>3
<1>8. (IF head = Null THEN p ELSE head) = L[1]
  <2>1. CASE n = 0
    <3>1. head = Null
      BY Zenon, <2>1 DEF Chain
    <3>2. L[0 + 1] = p /\ 0 + 1 = 1
      BY <1>3, <2>1
    <3> QED
      BY Zenon, <3>1, <3>2
  <2>2. CASE n # 0
    <3>1. 1 \in 1..n
      BY <1>1, <2>2
    <3>2. head = list[1]
      BY Zenon, <2>2 DEF Chain
    <3>3. head \in Page
      BY Zenon, <1>5, <3>1, <3>2
    <3> QED
      BY Zenon, <1>3, <3>1, <3>2, <3>3, OldSpaceAssumption
  <2> QED
    BY Zenon, <2>1, <2>2
<1>9. ASSUME NEW i \in 1..n + 1
      PROVE  nx2[L[i]] = IF i = n + 1 THEN Null ELSE L[i + 1]
  <2>1. CASE i = n + 1
    BY Zenon, <1>0, <1>3, <2>1
  <2>2. CASE i = n /\ i \in 1..n
    <3>1. n # 0 /\ 1 \in 1..n
      BY <1>1, <2>2
    <3>2. head = list[1] /\ tail = list[n]
      BY Zenon, <3>1 DEF Chain
    <3>3. head # Null
      BY Zenon, <1>5, <3>1, <3>2, OldSpaceAssumption
    <3>4. L[i] = tail /\ tail # p /\ tail \in Page
      BY Zenon, <1>3, <1>5, <2>2, <3>2
    <3>5. nx2[tail] = p
      BY Zenon, <1>0, <3>3, <3>4
    <3> QED
      BY Zenon, <1>3, <2>2, <3>4, <3>5
  <2>3. CASE i # n /\ i \in 1..n
    <3>1. n \in 1..n /\ i + 1 \in 1..n /\ n # 0
      BY <1>1, <2>3
    <3>2. tail = list[n] /\ list[i] # list[n]
      BY Zenon, <2>3, <3>1 DEF Chain
    <3>3. L[i] = list[i] /\ L[i] # tail /\ L[i] # p /\ L[i] \in Page
      BY Zenon, <1>3, <1>5, <2>3, <3>2
    <3>4. nx2[L[i]] = nx[list[i]]
      BY Zenon, <1>0, <3>3
    <3>5. nx[list[i]] = list[i + 1]
      BY Zenon, <2>3 DEF Chain
    <3> QED
      BY Zenon, <1>3, <2>3, <3>1, <3>4, <3>5
  <2> QED
    BY Zenon, <1>4, <2>1, <2>2, <2>3
<1>10. Chain(L, n + 1, head2, p, nx2, set2)
  BY Zenon, <1>0, <1>2, <1>3, <1>4, <1>6, <1>7, <1>8, <1>9 DEF Chain
<1> QED
  BY Zenon, <1>10 DEF L, Along

(* The list without its page i, and the links when that page, which        *)
(* follows prev, is taken out.                                             *)
Without(list, n, i) == [k \in 1..n - 1 |-> IF k < i THEN list[k] ELSE list[k + 1]]
Unlinked(list, i, prev, head, tail, nx, set, head2, tail2, nx2, set2) ==
  /\ prev = IF i = 1 THEN Null ELSE list[i - 1]
  /\ nx2 = IF prev # Null THEN [nx EXCEPT ![prev] = nx[list[i]]] ELSE nx
  /\ head2 = IF prev # Null THEN head ELSE nx[list[i]]
  /\ tail2 = IF list[i] = tail THEN prev ELSE tail
  /\ set2 = set \ {list[i]}

(* The pages before page i keep their places, those after it move up. *)
LEMMA WithoutIs ==
  ASSUME NEW list, NEW n \in Nat, NEW i \in 1..n, NEW k \in 1..n
  PROVE  /\ k < i => k \in 1..n - 1 /\ Without(list, n, i)[k] = list[k]
         /\ k > i => /\ k - 1 \in 1..n - 1
                     /\ Without(list, n, i)[k - 1] = list[k]
<1>1. /\ k < i => k \in 1..n - 1
      /\ k > i => /\ k - 1 \in 1..n - 1 /\ ~(k - 1 < i) /\ (k - 1) + 1 = k
  OBVIOUS
<1> DEFINE j == k - 1
<1>2. k > i => Without(list, n, i)[j] = list[j + 1]
  BY Zenon, <1>1 DEF Without
<1>3. k < i => Without(list, n, i)[k] = list[k]
  BY Zenon, <1>1 DEF Without
<1> QED
  BY Zenon, <1>1, <1>2, <1>3

(* Page i less. *)
LEMMA ChainRemove ==
  ASSUME NEW list, NEW n, NEW head, NEW tail, NEW nx \in [Page -> Page \cup {Null}],
         NEW set, Chain(list, n, head, tail, nx, set),
         NEW i \in 1..n, NEW prev, NEW head2, NEW tail2, NEW nx2, NEW set2,
         Unlinked(list, i, prev, head, tail, nx, set, head2, tail2, nx2, set2)
  PROVE  /\ Chain(Without(list, n, i), n - 1, head2, tail2, nx2, set2)
         /\ n - 1 \in Nat
<1> DEFINE L == [k \in 1..n - 1 |-> IF k < i THEN list[k] ELSE list[k + 1]]
<1>0. /\ prev = IF i = 1 THEN Null ELSE list[i - 1]
      /\ nx2 = IF prev # Null THEN [nx EXCEPT ![prev] = nx[list[i]]] ELSE nx
      /\ head2 = IF prev # Null THEN head ELSE nx[list[i]]
      /\ tail2 = IF list[i] = tail THEN prev ELSE tail
      /\ set2 = set \ {list[i]}
  BY Zenon DEF Unlinked
<1>1. n \in Nat /\ list \in [1..n -> Page] /\ i \in Nat /\ n >= 1 /\ n - 1 \in Nat
  BY DEF Chain
<1>2. L \in [1..n - 1 -> Page]
  <2>1. \A k \in 1..n - 1 : k \in 1..n /\ k + 1 \in 1..n
    BY <1>1
  <2> QED
    BY Zenon, <1>1, <2>1
<1>3. \A k \in 1..n : k < i => k \in 1..n - 1 /\ L[k] = list[k]
  <2>1. \A k \in 1..n : k < i => k \in 1..n - 1
    BY <1>1
  <2> QED
    BY Zenon, <2>1
<1>4. \A k \in 1..n : k > i => k - 1 \in 1..n - 1 /\ L[k - 1] = list[k]
  <2> SUFFICES ASSUME NEW k \in 1..n, k > i
               PROVE  k - 1 \in 1..n - 1 /\ L[k - 1] = list[k]
    BY Zenon
  <2>1. k - 1 \in 1..n - 1 /\ ~(k - 1 < i) /\ (k - 1) + 1 = k
    BY <1>1
  <2>2. L[k - 1] = list[(k - 1) + 1]
    BY Zenon, <2>1
  <2> QED
    BY Zenon, <2>1, <2>2
<1>5. \A k \in 1..n - 1 :
        \/ k < i /\ k \in 1..n /\ L[k] = list[k]
        \/ ~(k < i) /\ k + 1 \in 1..n /\ k + 1 > i /\ L[k] = list[k + 1]
  BY <1>1
<1> HIDE DEF L
<1>6. \A j, k \in 1..n : list[j] = list[k] => j = k
  BY Zenon DEF Chain
<1>7. set \ {list[i]} = {L[k] : k \in 1..n - 1}
  <2>1. ASSUME NEW q \in set \ {list[i]}
        PROVE  q \in {L[k] : k \in 1..n - 1}
    <3>1. PICK k \in 1..n : q = list[k]
      BY Zenon DEF Chain
    <3>2. k < i \/ k > i
      BY <1>1, <2>1, <3>1
    <3> QED
      BY Zenon, <1>3, <1>4, <3>1, <3>2
  <2>2. ASSUME NEW k \in 1..n - 1
        PROVE  L[k] \in set \ {list[i]}
    <3>1. PICK j \in 1..n : L[k] = list[j] /\ j # i
      BY <1>1, <1>5
    <3>2. list[j] \in set
      BY Zenon DEF Chain
    <3> QED
      BY Zenon, <1>6, <3>1, <3>2
  <2> QED
    BY Zenon, <2>1, <2>2
<1>8. \A j, k \in 1..n - 1 : L[j] = L[k] => j = k
  <2> SUFFICES ASSUME NEW j \in 1..n - 1, NEW k \in 1..n - 1, L[j] = L[k]
               PROVE  j = k
    BY Zenon
  <2>1. CASE j < i /\ k < i
    BY Zenon, <1>5, <1>6, <2>1
  <2>2. CASE j < i /\ ~(k < i)
    <3>1. j = k + 1
      BY Zenon, <1>5, <1>6, <2>2
    <3> QED
      BY <1>1, <2>2, <3>1
  <2>3. CASE ~(j < i) /\ k < i
    <3>1. k = j + 1
      BY Zenon, <1>5, <1>6, <2>3
    <3> QED
      BY <1>1, <2>3, <3>1
  <2>4. CASE ~(j < i) /\ ~(k < i)
    <3>1. j + 1 = k + 1
      BY Zenon, <1>5, <1>6, <2>4
    <3> QED
      BY <3>1
  <2> QED
    BY Zenon, <2>1, <2>2, <2>3, <2>4
<1>9. list[i] \in Page /\ nx[list[i]] = (IF i = n THEN Null ELSE list[i + 1])
  BY Zenon, <1>1 DEF Chain
<1>10. prev # Null <=> i # 1
  <2>1. i # 1 => i - 1 \in 1..n
    BY <1>1
  <2>2. i # 1 => list[i - 1] \in Page
    BY Zenon, <1>1, <2>1
  <2> QED
    BY Zenon, <1>0, <2>2, OldSpaceAssumption
<1>11. head2 = IF n - 1 = 0 THEN Null ELSE L[1]
  <2>1. CASE i # 1
    <3>1. 1 < i /\ 1 \in 1..n /\ n - 1 # 0 /\ n # 0
      BY <1>1, <2>1
    <3>2. head2 = list[1]
      BY Zenon, <1>0, <1>10, <2>1, <3>1 DEF Chain
    <3> QED
      BY Zenon, <1>3, <3>1, <3>2
  <2>2. CASE i = 1 /\ n = 1
    <3>1. ~(prev # Null) /\ i = n
      BY Zenon, <1>10, <2>2
    <3>2. head2 = nx[list[i]]
      BY Zenon, <1>0, <3>1
    <3>3. nx[list[i]] = Null
      BY Zenon, <1>9, <3>1
    <3>4. n - 1 = 0
      BY <2>2
    <3> QED
      BY Zenon, <3>2, <3>3, <3>4
  <2>3. CASE i = 1 /\ n # 1
    <3>1. 2 \in 1..n /\ 2 > i /\ n - 1 # 0 /\ 2 - 1 = 1 /\ i + 1 = 2 /\ i # n
      BY <1>1, <2>3
    <3>2. L[1] = list[2]
      BY Zenon, <1>4, <3>1
    <3>3. head2 = list[2]
      BY Zenon, <1>0, <1>9, <1>10, <2>3, <3>1
    <3> QED
      BY Zenon, <3>1, <3>2, <3>3
  <2> QED
    BY Zenon, <2>1, <2>2, <2>3
<1>12. tail = list[n] /\ n \in 1..n
  BY <1>1 DEF Chain
<1>13. list[i] = tail <=> i = n
  BY Zenon, <1>6, <1>12
<1>14. tail2 = IF n - 1 = 0 THEN Null ELSE L[n - 1]
  <2>1. CASE i # n
    <3>1. n > i /\ n - 1 # 0
      BY <1>1, <2>1
    <3> QED
      BY Zenon, <1>0, <1>4, <1>12, <1>13, <2>1, <3>1
  <2>2. CASE i = n /\ n # 1
    <3>1. n - 1 \in 1..n /\ n - 1 < i /\ n - 1 # 0
      BY <1>1, <2>2
    <3> QED
      BY Zenon, <1>0, <1>3, <1>13, <2>2, <3>1
  <2>3. CASE i = n /\ n = 1
    BY <1>0, <1>13, <2>3
  <2> QED
    BY Zenon, <2>1, <2>2, <2>3
<1>15. ASSUME NEW k \in 1..n - 1
       PROVE  nx2[L[k]] = IF k = n - 1 THEN Null ELSE L[k + 1]
  <2>1. CASE k + 1 < i
    <3>1. /\ k \in 1..n /\ k + 1 \in 1..n /\ k < i /\ i # 1 /\ i - 1 # k
          /\ i - 1 \in 1..n /\ k # n /\ k # n - 1
      BY <1>1, <2>1
    <3>2. prev = list[i - 1] /\ list[k] # prev /\ list[k] \in Page
      BY Zenon, <1>0, <1>1, <1>6, <3>1
    <3>3. nx2[list[k]] = nx[list[k]]
      BY Zenon, <1>0, <3>2
    <3>4. nx[list[k]] = list[k + 1]
      BY Zenon, <3>1 DEF Chain
    <3> QED
      BY Zenon, <1>3, <2>1, <3>1, <3>3, <3>4
  <2>2. CASE k + 1 = i
    <3>1. /\ k \in 1..n /\ k < i /\ i # 1 /\ i - 1 = k
      BY <1>1, <2>2
    <3>2. prev = list[k] /\ list[k] \in Page /\ prev # Null /\ L[k] = list[k]
      BY Zenon, <1>0, <1>1, <1>3, <1>10, <3>1
    <3>3. nx2[list[k]] = nx[list[i]]
      BY Zenon, <1>0, <3>2
    <3>4. CASE i = n
      <4>1. k = n - 1
        BY <1>1, <2>2, <3>4
      <4> QED
        BY Zenon, <1>9, <3>2, <3>3, <3>4, <4>1
    <3>5. CASE i # n
      <4>1. i + 1 \in 1..n /\ i + 1 > i /\ (i + 1) - 1 = k + 1 /\ k # n - 1
        BY <1>1, <2>2, <3>5
      <4>2. L[(i + 1) - 1] = list[i + 1]
        BY Zenon, <1>4, <4>1
      <4> QED
        BY Zenon, <1>9, <3>2, <3>3, <3>5, <4>1, <4>2
    <3> QED
      BY Zenon, <3>4, <3>5
  <2>3. CASE ~(k + 1 < i) /\ k + 1 # i
    <3>1. /\ k + 1 \in 1..n /\ k + 1 > i /\ (k + 1) - 1 = k
          /\ (i # 1 => i - 1 \in 1..n /\ i - 1 # k + 1)
      BY <1>1, <2>3
    <3>2. L[k] = list[k + 1] /\ list[k + 1] \in Page
      BY Zenon, <1>1, <1>4, <3>1
    <3>3. nx2[list[k + 1]] = nx[list[k + 1]]
      <4>1. CASE i = 1
        BY Zenon, <1>0, <1>10, <4>1
      <4>2. CASE i # 1
        <5>1. prev = list[i - 1] /\ prev # list[k + 1]
          BY Zenon, <1>0, <1>6, <3>1, <4>2
        <5> QED
          BY Zenon, <1>0, <3>2, <5>1
      <4> QED
        BY Zenon, <4>1, <4>2
    <3>4. nx[list[k + 1]] = IF k + 1 = n THEN Null ELSE list[(k + 1) + 1]
      BY Zenon, <3>1 DEF Chain
    <3>5. CASE k + 1 = n
      <4>1. k = n - 1
        BY <1>1, <3>5
      <4> QED
        BY Zenon, <3>2, <3>3, <3>4, <3>5, <4>1
    <3>6. CASE k + 1 # n
      <4>1. /\ k # n - 1 /\ (k + 1) + 1 \in 1..n /\ (k + 1) + 1 > i
            /\ ((k + 1) + 1) - 1 = k + 1
        BY <1>1, <3>1, <3>6
      <4>2. L[((k + 1) + 1) - 1] = list[(k + 1) + 1]
        BY Zenon, <1>4, <4>1
      <4> QED
        BY Zenon, <3>2, <3>3, <3>4, <3>6, <4>1, <4>2
    <3> QED
      BY Zenon, <3>5, <3>6
  <2> QED
    BY Zenon, <2>1, <2>2, <2>3
<1>16. Chain(L, n - 1, head2, tail2, nx2, set2)
  BY Zenon, <1>0, <1>1, <1>2, <1>7, <1>8, <1>11, <1>14, <1>15 DEF Chain
<1> QED
  BY Zenon, <1>1, <1>16 DEF L, Without

(* The scavenger is on a page of the list and its tail is ahead of it, and *)
(* so for the sweeper, which also knows the page before.                   *)
VisitOn(list, n, v) ==
  v.page # Null =>
    \E i, j \in 1..n : i <= j /\ list[i] = v.page /\ list[j] = v.tail

SweepOn(list, n, w) ==
  w.at \in {"large", "here"} /\ w.page # Null =>
    \E i, j \in 1..n :
      /\ i <= j /\ list[i] = w.page /\ list[j] = w.last
      /\ w.prev = IF i = 1 THEN Null ELSE list[i - 1]

(* Only the owner of the safepoint visits the list, and no sweeper of      *)
(* large pages runs meanwhile.                                             *)
PagesInv ==
  /\ PagesTypes
  /\ visit.page # Null =>
       Current = "visiting" /\ sweeper.at \notin {"large", "here"}
  /\ \E n, list :
       /\ Chain(list, n, large_pages, large_pages_tail, next, mapped)
       /\ VisitOn(list, n, visit)
       /\ SweepOn(list, n, sweeper)

(* The list stays; those who walk it may move. *)
LEMMA PagesWalk ==
  ASSUME UNCHANGED pages, PagesTypes,
         sweeper' \in [at : {"none", "here", "large", "regular", "out"},
                       page : Page \cup {Null}, prev : Page \cup {Null},
                       last : Page \cup {Null}],
         visit' \in [page : Page \cup {Null}, tail : Page \cup {Null}],
         visit'.page # Null =>
           Current' = "visiting" /\ sweeper'.at \notin {"large", "here"},
         NEW n, NEW list,
         Chain(list, n, large_pages, large_pages_tail, next, mapped),
         VisitOn(list, n, visit'), SweepOn(list, n, sweeper')
  PROVE  PagesInv'
<1>1. UNCHANGED <<large_pages, large_pages_tail, next, mapped>>
  BY Zenon DEF pages
<1>2. PagesTypes'
  BY Zenon, <1>1 DEF PagesTypes
<1>3. /\ Chain(list, n, large_pages, large_pages_tail, next, mapped)'
      /\ VisitOn(list, n, visit)' /\ SweepOn(list, n, sweeper)'
  BY Zenon, <1>1 DEF Chain, VisitOn, SweepOn
<1> QED
  BY Zenon, <1>2, <1>3 DEF PagesInv

(* Nobody walks. *)
LEMMA PagesRest ==
  ASSUME PagesInv, UNCHANGED <<pages, sweeper, visit>>,
         Current = "visiting" => Current' = "visiting"
  PROVE  PagesInv'
<1>1. PICK n, list :
         /\ Chain(list, n, large_pages, large_pages_tail, next, mapped)
         /\ VisitOn(list, n, visit)
         /\ SweepOn(list, n, sweeper)
  BY Zenon DEF PagesInv
<1>2. VisitOn(list, n, visit') /\ SweepOn(list, n, sweeper')
  BY Zenon, <1>1
<1>3. /\ PagesTypes
      /\ sweeper' \in [at : {"none", "here", "large", "regular", "out"},
                       page : Page \cup {Null}, prev : Page \cup {Null},
                       last : Page \cup {Null}]
      /\ visit' \in [page : Page \cup {Null}, tail : Page \cup {Null}]
      /\ visit'.page # Null =>
           Current' = "visiting" /\ sweeper'.at \notin {"large", "here"}
  BY Zenon DEF PagesInv, PagesTypes
<1> QED
  BY Zenon, <1>1, <1>2, <1>3, PagesWalk

(* The sweeper is not, or no longer, among the large pages. *)
LEMMA PagesSwept ==
  ASSUME PagesInv, UNCHANGED <<pages, visit>>,
         Current = "visiting" => Current' = "visiting",
         sweeper' \in [at : {"none", "regular", "out"},
                       page : Page \cup {Null}, prev : Page \cup {Null},
                       last : Page \cup {Null}]
  PROVE  PagesInv'
<1>1. PICK n, list :
         /\ Chain(list, n, large_pages, large_pages_tail, next, mapped)
         /\ VisitOn(list, n, visit)
  BY Zenon DEF PagesInv
<1>2. sweeper'.at \notin {"large", "here"}
  BY Zenon
<1>3. VisitOn(list, n, visit') /\ SweepOn(list, n, sweeper')
  BY Zenon, <1>1, <1>2 DEF SweepOn
<1>4. /\ PagesTypes
      /\ visit' \in [page : Page \cup {Null}, tail : Page \cup {Null}]
      /\ visit'.page # Null =>
           Current' = "visiting" /\ sweeper'.at \notin {"large", "here"}
  BY Zenon, <1>2 DEF PagesInv, PagesTypes
<1>5. sweeper' \in [at : {"none", "here", "large", "regular", "out"},
                    page : Page \cup {Null}, prev : Page \cup {Null},
                    last : Page \cup {Null}]
  BY Zenon
<1> QED
  BY Zenon, <1>1, <1>3, <1>4, <1>5, PagesWalk

(* A sweep of the large pages begins at the head. *)
LEMMA FinalizePages ==
  ASSUME ThreadsInv, PagesInv, NEW t \in Thread, Finalize(t)
  PROVE  PagesInv'
<1>1. UNCHANGED <<pages, visit>> /\ Current = "begun"
  BY Zenon, FinalizeThreads DEF Finalize
<1>2. PICK at \in {"large", "here"} :
         sweeper' = [at |-> at, page |-> large_pages, prev |-> Null,
                     last |-> large_pages_tail]
  BY Zenon DEF Finalize
<1>3. visit.page = Null /\ visit' = visit
  BY Zenon, <1>1 DEF PagesInv
<1>4. PICK n, list :
         Chain(list, n, large_pages, large_pages_tail, next, mapped)
  BY Zenon DEF PagesInv
<1>5. /\ sweeper'.page = large_pages /\ sweeper'.prev = Null
      /\ sweeper'.last = large_pages_tail
      /\ sweeper' \in [at : {"none", "here", "large", "regular", "out"},
                       page : Page \cup {Null}, prev : Page \cup {Null},
                       last : Page \cup {Null}]
  BY Zenon, <1>2 DEF PagesInv, PagesTypes
<1>6. SweepOn(list, n, sweeper')
  <2>1. CASE n = 0
    BY Zenon, <1>4, <1>5, <2>1 DEF SweepOn, Chain
  <2>2. CASE n # 0
    <3>1. 1 \in 1..n /\ n \in 1..n /\ 1 <= n
      BY <1>4, <2>2 DEF Chain
    <3>2. list[1] = large_pages /\ list[n] = large_pages_tail
      BY Zenon, <1>4, <2>2 DEF Chain
    <3> QED
      BY Zenon, <1>5, <3>1, <3>2 DEF SweepOn
  <2> QED
    BY Zenon, <2>1, <2>2
<1>7. VisitOn(list, n, visit')
  BY Zenon, <1>3 DEF VisitOn
<1>8. PagesTypes /\ visit' \in [page : Page \cup {Null}, tail : Page \cup {Null}]
  BY Zenon, <1>3 DEF PagesInv, PagesTypes
<1> QED
  BY Zenon, <1>1, <1>3, <1>4, <1>5, <1>6, <1>7, <1>8, PagesWalk

(* The sweeper goes on to the next page and keeps or frees this one. *)
LEMMA SweepLargePagePages ==
  ASSUME PagesInv, SweepLargePage, sweeper.at \in {"large", "here"},
         UNCHANGED visit
  PROVE  PagesInv'
<1> DEFINE p == sweeper.page
           q == IF p = sweeper.last THEN Null ELSE next[p]
<1>1. p # Null /\ visit.page = Null /\ visit' = visit
  BY Zenon DEF SweepLargePage, PagesInv
<1>2. PICK n, list :
         /\ Chain(list, n, large_pages, large_pages_tail, next, mapped)
         /\ SweepOn(list, n, sweeper)
  BY Zenon DEF PagesInv
<1>3. PICK i \in 1..n, j \in 1..n :
         /\ i <= j /\ list[i] = p /\ list[j] = sweeper.last
         /\ sweeper.prev = IF i = 1 THEN Null ELSE list[i - 1]
  BY Zenon, <1>1, <1>2 DEF SweepOn
<1>4. PagesTypes /\ p \in Page /\ next[p] \in Page \cup {Null}
      /\ q \in Page \cup {Null}
  BY Zenon, <1>1 DEF PagesInv, PagesTypes
<1>5. i \in Nat /\ j \in Nat /\ n \in Nat /\ (p = sweeper.last <=> i = j)
  <2>1. n \in Nat /\ \A k, l \in 1..n : list[k] = list[l] => k = l
    BY Zenon, <1>2 DEF Chain
  <2>2. p = sweeper.last <=> i = j
    BY Zenon, <1>3, <2>1
  <2>3. i \in 1..n /\ j \in 1..n
    BY Zenon, <1>3
  <2>4. i \in Nat /\ j \in Nat
    BY <2>1, <2>3
  <2> QED
    BY Zenon, <2>1, <2>2, <2>4
<1>6. /\ i = j => q = Null
      /\ i # j => i < j /\ i + 1 \in 1..n /\ q = list[i + 1]
  <2>1. i = j => q = Null
    BY Zenon, <1>5
  <2>2. i # j => i < j /\ i + 1 \in 1..n /\ i # n
    BY <1>3, <1>5
  <2>3. i # j => q = next[list[i]]
    BY Zenon, <1>3, <1>5
  <2>4. i # n => next[list[i]] = list[i + 1]
    BY Zenon, <1>2 DEF Chain
  <2> QED
    BY Zenon, <2>1, <2>2, <2>3, <2>4
<1> HIDE DEF q
<1>7. CASE sweeper' = [sweeper EXCEPT !.page = q, !.prev = p] /\ UNCHANGED pages
  <2>1. /\ sweeper'.page = q /\ sweeper'.prev = p /\ sweeper'.at = sweeper.at
        /\ sweeper'.last = sweeper.last
        /\ sweeper' \in [at : {"none", "here", "large", "regular", "out"},
                         page : Page \cup {Null}, prev : Page \cup {Null},
                         last : Page \cup {Null}]
    BY Zenon, <1>4, <1>7 DEF PagesTypes
  <2>2. SweepOn(list, n, sweeper')
    <3>1. CASE i = j
      BY Zenon, <1>6, <2>1, <3>1 DEF SweepOn
    <3>2. CASE i # j
      <4>1. /\ i + 1 \in 1..n /\ i + 1 <= j /\ list[i + 1] = q
            /\ i + 1 # 1 /\ (i + 1) - 1 = i
        BY <1>5, <1>6, <3>2
      <4> DEFINE k == i + 1
      <4>2. /\ k \in 1..n /\ k <= j /\ list[k] = sweeper'.page
            /\ list[j] = sweeper'.last
            /\ sweeper'.prev = IF k = 1 THEN Null ELSE list[k - 1]
        BY Zenon, <1>3, <2>1, <4>1
      <4> HIDE DEF k
      <4> QED
        BY Zenon, <4>2 DEF SweepOn
    <3> QED
      BY Zenon, <3>1, <3>2
  <2>3. VisitOn(list, n, visit')
    BY Zenon, <1>1 DEF VisitOn
  <2>4. visit' \in [page : Page \cup {Null}, tail : Page \cup {Null}]
    BY Zenon, <1>1, <1>4 DEF PagesTypes
  <2> QED
    BY Zenon, <1>1, <1>2, <1>4, <1>7, <2>1, <2>2, <2>3, <2>4, PagesWalk
<1>8. CASE FreeLargePage(p, sweeper.prev) /\ sweeper' = [sweeper EXCEPT !.page = q]
  <2>1. /\ sweeper'.page = q /\ sweeper'.prev = sweeper.prev
        /\ sweeper'.last = sweeper.last
        /\ sweeper' \in [at : {"none", "here", "large", "regular", "out"},
                         page : Page \cup {Null}, prev : Page \cup {Null},
                         last : Page \cup {Null}]
    BY Zenon, <1>4, <1>8 DEF PagesTypes
  <2> DEFINE prev == sweeper.prev
             L == Without(list, n, i)
  <2>2. /\ next' = IF prev # Null THEN [next EXCEPT ![prev] = next[list[i]]]
                                  ELSE next
        /\ large_pages' = IF prev # Null THEN large_pages ELSE next[list[i]]
        /\ large_pages_tail' = IF list[i] = large_pages_tail THEN prev
                                                             ELSE large_pages_tail
        /\ mapped' = mapped \ {list[i]}
    BY Zenon, <1>3, <1>8 DEF FreeLargePage, RemoveLargePageLocked
  <2>3. /\ next \in [Page -> Page \cup {Null}] /\ prev \in Page \cup {Null}
        /\ prev = IF i = 1 THEN Null ELSE list[i - 1]
    BY Zenon, <1>3, <1>4 DEF PagesTypes
  <2>4. /\ Chain(L, n - 1, large_pages', large_pages_tail', next', mapped')
        /\ n - 1 \in Nat
        /\ \A k \in 1..n : k < i => k \in 1..n - 1 /\ L[k] = list[k]
        /\ \A k \in 1..n : k > i => k - 1 \in 1..n - 1 /\ L[k - 1] = list[k]
    <3> HIDE DEF prev
    <3>1. Unlinked(list, i, prev, large_pages, large_pages_tail, next, mapped,
                   large_pages', large_pages_tail', next', mapped')
      BY Zenon, <2>2, <2>3 DEF Unlinked
    <3>2. /\ Chain(L, n - 1, large_pages', large_pages_tail', next', mapped')
          /\ n - 1 \in Nat
      BY Zenon, <1>2, <2>3, <3>1, ChainRemove
    <3>3. \A k \in 1..n :
            /\ k < i => k \in 1..n - 1 /\ L[k] = list[k]
            /\ k > i => k - 1 \in 1..n - 1 /\ L[k - 1] = list[k]
      BY Zenon, <1>5, WithoutIs
    <3> QED
      BY Zenon, <3>2, <3>3
  <2> HIDE DEF L
  <2>5. SweepOn(L, n - 1, sweeper')
    <3>1. CASE i = j
      BY Zenon, <1>6, <2>1, <3>1 DEF SweepOn
    <3>2. CASE i # j
      <4>1. /\ i + 1 \in 1..n /\ i + 1 > i /\ (i + 1) - 1 = i /\ j > i
            /\ i <= j - 1 /\ q = list[i + 1]
        BY <1>5, <1>6, <3>2
      <4>2. i \in 1..n - 1 /\ L[i] = q
        BY Zenon, <2>4, <4>1
      <4>3. j - 1 \in 1..n - 1 /\ L[j - 1] = sweeper.last
        BY Zenon, <1>3, <2>4, <4>1
      <4>4. prev = IF i = 1 THEN Null ELSE L[i - 1]
        <5>1. i # 1 => i - 1 \in 1..n /\ i - 1 < i
          BY <1>5
        <5> QED
          BY Zenon, <2>3, <2>4, <5>1
      <4> DEFINE k == j - 1
                 m == n - 1
      <4>5. /\ i \in 1..m /\ k \in 1..m /\ i <= k /\ L[i] = sweeper'.page
            /\ L[k] = sweeper'.last
            /\ sweeper'.prev = IF i = 1 THEN Null ELSE L[i - 1]
        BY Zenon, <2>1, <4>1, <4>2, <4>3, <4>4
      <4> HIDE DEF k, m
      <4>6. SweepOn(L, m, sweeper')
        BY Zenon, <4>5 DEF SweepOn
      <4> QED
        BY Zenon, <4>6 DEF m
    <3> QED
      BY Zenon, <3>1, <3>2
  <2>6. VisitOn(L, n - 1, visit')
    BY Zenon, <1>1 DEF VisitOn
  <2>7. PagesTypes'
    <3>1. next' \in [Page -> Page \cup {Null}]
      <4> HIDE DEF prev
      <4> QED
        BY Zenon, <1>3, <1>4, <2>2, <2>3
    <3>2. large_pages' \in Page \cup {Null}
      BY Zenon, <1>3, <1>4, <2>2 DEF PagesTypes
    <3>3. large_pages_tail' \in Page \cup {Null}
      BY Zenon, <2>2, <2>3, <1>4 DEF PagesTypes
    <3> QED
      BY Zenon, <1>1, <1>4, <2>1, <2>2, <3>1, <3>2, <3>3 DEF PagesTypes
  <2> QED
    BY Zenon, <1>1, <2>4, <2>5, <2>6, <2>7 DEF PagesInv
<1> QED
  BY Zenon, <1>7, <1>8 DEF SweepLargePage, q

(* A page is appended while others walk. *)
LEMMA AddLargePagePages ==
  ASSUME PagesInv, NEW p \in Page \ mapped, AddLargePageLocked(p),
         UNCHANGED <<sweeper, visit>>, Current' = Current
  PROVE  PagesInv'
<1>1. PICK n, list :
         /\ Chain(list, n, large_pages, large_pages_tail, next, mapped)
         /\ VisitOn(list, n, visit)
         /\ SweepOn(list, n, sweeper)
  BY Zenon DEF PagesInv
<1> DEFINE L == Along(list, n, p)
           m == n + 1
<1>2. Appended(p, large_pages, large_pages_tail, next, mapped,
               large_pages', next', mapped')
  BY Zenon DEF Appended, AddLargePageLocked
<1>3. Chain(L, m, large_pages', p, next', mapped')
  BY Zenon, <1>1, <1>2, ChainAppend
<1>4. large_pages_tail' = p
  BY Zenon DEF AddLargePageLocked
<1>5. n \in Nat
  BY Zenon, <1>1 DEF Chain
<1>6. \A k \in 1..n : k \in 1..m /\ L[k] = list[k]
  BY Zenon, <1>5, AlongIs
<1> HIDE DEF L, m
<1>7. VisitOn(L, m, visit')
  BY Zenon, <1>1, <1>6 DEF VisitOn
<1>8. SweepOn(L, m, sweeper')
  <2> SUFFICES ASSUME sweeper'.at \in {"large", "here"}, sweeper'.page # Null
               PROVE  \E i, j \in 1..m :
                        /\ i <= j /\ L[i] = sweeper'.page
                        /\ L[j] = sweeper'.last
                        /\ sweeper'.prev = IF i = 1 THEN Null ELSE L[i - 1]
    BY Zenon DEF SweepOn
  <2>1. sweeper' = sweeper
    BY Zenon
  <2>2. PICK i \in 1..n, j \in 1..n :
          /\ i <= j /\ list[i] = sweeper.page /\ list[j] = sweeper.last
          /\ sweeper.prev = IF i = 1 THEN Null ELSE list[i - 1]
    BY Zenon, <1>1, <2>1 DEF SweepOn
  <2>3. i # 1 => i - 1 \in 1..n
    BY <1>5
  <2>4. /\ i \in 1..m /\ j \in 1..m /\ L[i] = list[i] /\ L[j] = list[j]
        /\ i # 1 => L[i - 1] = list[i - 1]
    BY Zenon, <1>6, <2>3
  <2> QED
    BY Zenon, <2>1, <2>2, <2>4
<1>9. PagesTypes'
  <2>1. next' \in [Page -> Page \cup {Null}]
    BY Zenon DEF AddLargePageLocked, PagesInv, PagesTypes
  <2> QED
    BY Zenon, <2>1 DEF AddLargePageLocked, PagesInv, PagesTypes
<1>10. visit'.page # Null =>
         Current' = "visiting" /\ sweeper'.at \notin {"large", "here"}
  BY Zenon DEF PagesInv
<1> QED
  BY Zenon, <1>3, <1>4, <1>7, <1>8, <1>9, <1>10 DEF PagesInv

(* AllocateLargePage, by a mutator or during a scavenge. *)
LEMMA AllocateLargePageInv ==
  ASSUME ThreadsInv, HeapInv, PagesInv, NEW t \in Thread, AllocateLargePage(t)
  PROVE  ThreadsInv' /\ HeapInv' /\ PagesInv'
<1>1. /\ UNCHANGED <<safepoint, counts, marking, sweeper, visit>>
      /\ \E p \in Page \ mapped : AddLargePageLocked(p)
  BY Zenon DEF AllocateLargePage
<1>2. ThreadsInv' /\ Current' = Current /\ UNCHANGED deleted
  <2>1. CASE Doing(t, "add_page") /\ Done(t)
    <3>1. "add_page" \in Plain
      BY Zenon DEF Plain
    <3> QED
      BY Zenon, <1>1, <2>1, <3>1, PlainDone DEF Calm, Done, Then
  <2>2. CASE UNCHANGED threads
    BY Zenon, <1>1, <2>2, ThreadsStay DEF threads
  <2> QED
    BY Zenon, <2>1, <2>2 DEF AllocateLargePage
<1>3. HeapInv'
  BY Zenon, <1>1, <1>2, HeapRests
<1>4. PagesInv'
  BY Zenon, <1>1, <1>2, AddLargePagePages
<1> QED
  BY Zenon, <1>2, <1>3, <1>4

(* VisitRememberedCards waits, or takes the head and the tail. *)
LEMMA VisitRememberedCardsInv ==
  ASSUME ThreadsInv, HeapInv, PagesInv, NEW t \in Thread,
         VisitRememberedCards(t)
  PROVE  ThreadsInv' /\ HeapInv' /\ PagesInv'
<1>1. /\ Doing(t, "cards") /\ UNCHANGED <<safepoint, marking, sweeper, pages>>
  BY Zenon DEF VisitRememberedCards
<1>2. CASE Wait(t) /\ UNCHANGED visit
  <2>1. ThreadsInv' /\ Calm /\ UNCHANGED <<counts, deleted>>
    BY Zenon, <1>1, <1>2, PlainWait DEF Wait, threads
  <2> QED
    BY Zenon, <1>1, <1>2, <2>1, HeapCalm, PagesRest DEF Calm
<1>3. CASE /\ ~LargePagesBusy /\ Done(t) /\ UNCHANGED counts
           /\ visit' = [page |-> large_pages, tail |-> large_pages_tail]
  <2>1. ThreadsInv' /\ Current = "free" /\ Current' = "visiting"
    BY Zenon, <1>1, <1>3, ModeStep DEF Entry, Exit, S
  <2>2. UNCHANGED <<marker, barrier, task, deleted>> /\ ~deleted
    BY Zenon, <1>1, <1>3, Turn DEF Done, Then, marking
  <2>3. HeapInv'
    <3>1. /\ Marking' = Marking
          /\ task' \in [MarkTask -> {"none", "new", "roots", "drain", "out"}]
      BY Zenon, <2>2 DEF Marking, HeapInv
    <3>2. /\ Current' \notin Driving /\ Current \notin Driving
          /\ Current' \notin Alone
          /\ Current' \notin {"marking", "iterating", "sweeping"}
          /\ Current # "sweeping"
      BY Zenon, <2>1 DEF Driving, Alone
    <3> QED
      BY Zenon, <1>1, <1>3, <2>2, <3>1, <3>2, HeapStays
  <2>4. sweeper.at \notin {"large", "here"} /\ sweeper' = sweeper
    BY Zenon, <1>1, <1>3, <2>1, <2>2 DEF HeapInv, LargePagesBusy
  <2>5. PICK n, list :
          Chain(list, n, large_pages, large_pages_tail, next, mapped)
    BY Zenon DEF PagesInv
  <2>6. visit'.page = large_pages /\ visit'.tail = large_pages_tail
    BY Zenon, <1>3
  <2>7. VisitOn(list, n, visit')
    <3>1. CASE n = 0
      BY Zenon, <2>5, <2>6, <3>1 DEF VisitOn, Chain
    <3>2. CASE n # 0
      <4>1. 1 \in 1..n /\ n \in 1..n /\ 1 <= n
        BY <2>5, <3>2 DEF Chain
      <4>2. list[1] = large_pages /\ list[n] = large_pages_tail
        BY Zenon, <2>5, <3>2 DEF Chain
      <4> QED
        BY Zenon, <2>6, <4>1, <4>2 DEF VisitOn
    <3> QED
      BY Zenon, <3>1, <3>2
  <2>8. SweepOn(list, n, sweeper')
    BY Zenon, <2>4 DEF SweepOn
  <2>9. /\ PagesTypes
        /\ sweeper' \in [at : {"none", "here", "large", "regular", "out"},
                         page : Page \cup {Null}, prev : Page \cup {Null},
                         last : Page \cup {Null}]
        /\ visit' \in [page : Page \cup {Null}, tail : Page \cup {Null}]
    BY Zenon, <1>3, <2>4 DEF PagesInv, PagesTypes
  <2>10. PagesInv'
    BY Zenon, <1>1, <2>1, <2>4, <2>5, <2>7, <2>8, <2>9, PagesWalk
  <2> QED
    BY Zenon, <2>1, <2>3, <2>10
<1> QED
  BY Zenon, <1>2, <1>3 DEF VisitRememberedCards

(* VisitPage goes on to the next page, or ends. *)
LEMMA VisitPageInv ==
  ASSUME ThreadsInv, HeapInv, PagesInv, NEW t \in Thread, VisitPage(t)
  PROVE  ThreadsInv' /\ HeapInv' /\ PagesInv'
<1>1. /\ Doing(t, "visit")
      /\ UNCHANGED <<safepoint, counts, marking, sweeper, pages>>
  BY Zenon DEF VisitPage
<1>2. CASE visit.page = Null /\ Done(t) /\ UNCHANGED visit
  <2>1. ThreadsInv' /\ Current = "visiting" /\ Current' = "free"
    BY Zenon, <1>1, <1>2, ModeStep DEF Entry, Exit, S
  <2>2. UNCHANGED <<marker, barrier, task, deleted>>
    BY Zenon, <1>1, <1>2 DEF Done, Then, marking
  <2>3. HeapInv'
    <3>1. /\ Marking' = Marking
          /\ task' \in [MarkTask -> {"none", "new", "roots", "drain", "out"}]
      BY Zenon, <2>2 DEF Marking, HeapInv
    <3>2. /\ Current' \notin Driving /\ Current \notin Driving
          /\ Current' \notin Alone
          /\ Current' \notin {"marking", "iterating", "sweeping"}
          /\ Current # "sweeping"
      BY Zenon, <2>1 DEF Driving, Alone
    <3> QED
      BY Zenon, <1>1, <2>2, <3>1, <3>2, HeapStays
  <2>4. PICK n, list :
          /\ Chain(list, n, large_pages, large_pages_tail, next, mapped)
          /\ SweepOn(list, n, sweeper)
    BY Zenon DEF PagesInv
  <2>5. visit'.page = Null /\ SweepOn(list, n, sweeper')
    BY Zenon, <1>1, <1>2, <2>4
  <2>6. VisitOn(list, n, visit')
    BY Zenon, <2>5 DEF VisitOn
  <2>7. /\ PagesTypes
        /\ sweeper' \in [at : {"none", "here", "large", "regular", "out"},
                         page : Page \cup {Null}, prev : Page \cup {Null},
                         last : Page \cup {Null}]
        /\ visit' \in [page : Page \cup {Null}, tail : Page \cup {Null}]
    BY Zenon, <1>1, <1>2 DEF PagesInv, PagesTypes
  <2>8. PagesInv'
    BY Zenon, <1>1, <2>4, <2>5, <2>6, <2>7, PagesWalk
  <2> QED
    BY Zenon, <2>1, <2>3, <2>8
<1>3. CASE /\ visit.page # Null /\ UNCHANGED threads
           /\ visit' = [visit EXCEPT !.page = IF @ = visit.tail THEN Null
                                                                ELSE next[@]]
  <2>1. ThreadsInv' /\ Current' = Current /\ UNCHANGED deleted
    BY Zenon, <1>1, <1>3, ThreadsStay DEF threads
  <2>2. HeapInv'
    BY Zenon, <1>1, <2>1, HeapRests
  <2> DEFINE p == visit.page
             q == IF p = visit.tail THEN Null ELSE next[p]
  <2>3. p \in Page /\ q \in Page \cup {Null}
    BY Zenon, <1>3 DEF PagesInv, PagesTypes
  <2>4. /\ visit'.page = q /\ visit'.tail = visit.tail
        /\ visit' \in [page : Page \cup {Null}, tail : Page \cup {Null}]
    <3> HIDE DEF q
    <3>1. visit' = [visit EXCEPT !.page = q]
      BY Zenon, <1>3 DEF q
    <3> QED
      BY Zenon, <2>3, <3>1 DEF PagesInv, PagesTypes
  <2>5. PICK n, list :
          /\ Chain(list, n, large_pages, large_pages_tail, next, mapped)
          /\ VisitOn(list, n, visit) /\ SweepOn(list, n, sweeper)
    BY Zenon DEF PagesInv
  <2>6. PICK i \in 1..n, j \in 1..n :
          i <= j /\ list[i] = p /\ list[j] = visit.tail
    BY Zenon, <1>3, <2>5 DEF VisitOn
  <2>7. n \in Nat /\ (p = visit.tail <=> i = j)
    BY Zenon, <2>5, <2>6 DEF Chain
  <2>8. VisitOn(list, n, visit')
    <3>1. CASE i = j
      BY Zenon, <2>4, <2>7, <3>1 DEF VisitOn
    <3>2. CASE i # j
      <4> DEFINE k == i + 1
      <4>1. k \in 1..n /\ k <= j /\ i # n
        BY <2>6, <2>7, <3>2
      <4>2. next[list[i]] = list[k]
        BY Zenon, <2>5, <4>1 DEF Chain
      <4>3. list[k] = visit'.page /\ list[j] = visit'.tail
        BY Zenon, <2>4, <2>6, <2>7, <3>2, <4>2
      <4> HIDE DEF k
      <4> QED
        BY Zenon, <4>1, <4>3 DEF VisitOn
    <3> QED
      BY Zenon, <3>1, <3>2
  <2>9. /\ PagesTypes /\ SweepOn(list, n, sweeper')
        /\ sweeper' \in [at : {"none", "here", "large", "regular", "out"},
                         page : Page \cup {Null}, prev : Page \cup {Null},
                         last : Page \cup {Null}]
        /\ Current' = "visiting" /\ sweeper'.at \notin {"large", "here"}
    BY Zenon, <1>1, <1>3, <2>1, <2>5 DEF PagesInv, PagesTypes
  <2>10. PagesInv'
    BY Zenon, <1>1, <2>4, <2>5, <2>8, <2>9, PagesWalk
  <2> QED
    BY Zenon, <2>1, <2>2, <2>10
<1> QED
  BY Zenon, <1>2, <1>3 DEF VisitPage

(* Scavenged forgets the visit. *)
LEMMA ScavengedInv ==
  ASSUME ThreadsInv, HeapInv, PagesInv, NEW t \in Thread, Scavenged(t)
  PROVE  ThreadsInv' /\ HeapInv' /\ PagesInv'
<1>1. /\ UNCHANGED <<counts, marking, sweeper, pages>>
      /\ visit' = [page |-> Null, tail |-> Null]
      /\ UNCHANGED deleted
  BY Zenon DEF Scavenged, Then
<1>2. ThreadsInv' /\ Calm
  BY Zenon, ScavengedThreads
<1>3. HeapInv'
  BY Zenon, <1>1, <1>2, HeapCalm
<1>4. PICK n, list :
        /\ Chain(list, n, large_pages, large_pages_tail, next, mapped)
        /\ SweepOn(list, n, sweeper)
  BY Zenon DEF PagesInv
<1>5. visit'.page = Null /\ SweepOn(list, n, sweeper')
  BY Zenon, <1>1, <1>4
<1>6. VisitOn(list, n, visit')
  BY Zenon, <1>5 DEF VisitOn
<1>7. /\ PagesTypes
      /\ sweeper' \in [at : {"none", "here", "large", "regular", "out"},
                       page : Page \cup {Null}, prev : Page \cup {Null},
                       last : Page \cup {Null}]
      /\ visit' \in [page : Page \cup {Null}, tail : Page \cup {Null}]
  BY Zenon, <1>1 DEF PagesInv, PagesTypes
<1>8. PagesInv'
  BY Zenon, <1>1, <1>4, <1>5, <1>6, <1>7, PagesWalk
<1> QED
  BY Zenon, <1>2, <1>3, <1>8

-----------------------------------------------------------------------------
(* The invariant.                                                          *)

Inv == ThreadsInv /\ HeapInv /\ PagesInv

(* A calm step that touches nothing else. *)
LEMMA CalmInv ==
  ASSUME Inv, ThreadsInv', Calm,
         UNCHANGED <<counts, marking, deleted, sweeper, pages, visit>>
  PROVE  Inv'
BY Zenon, HeapCalm, PagesRest DEF Inv, Calm

(* A step that only changes the mode, from one to another that is not      *)
(* "visiting", and leaves the list of pages and its walkers alone.         *)
LEMMA ModeInv ==
  ASSUME Inv, ThreadsInv', HeapInv', Current # "visiting",
         UNCHANGED <<pages, sweeper, visit>>
  PROVE  Inv'
BY Zenon, PagesRest DEF Inv

(* Initially. *)
LEMMA InitInv ==
  ASSUME LibraryFacts, Init
  PROVE  Inv
<1>1. ThreadsInv
  <2>1. \A t \in Thread : todo[t] = <<>>
    BY Zenon DEF Init
  <2>2. owner = NoThread /\ depth = 0 /\ gone = {} /\ deleted = FALSE
        /\ todo = [t \in Thread |-> <<>>]
    BY Zenon DEF Init
  <2>3. <<>> \in Seq(Act \cup {S("shutdown")})
    OBVIOUS
  <2>4. FreeAt(0) \in Place /\ "free" \in Modes
    BY Zenon DEF FreeAt, Spot, Place, Modes
  <2>5. Leads(<<>>, FreeAt(0), FreeAt(0))
    BY Zenon, <2>4, LeadsNowhere
  <2>6. \A t \in Thread : Level(t) = 0
    BY Zenon, <2>2, OldSpaceAssumption DEF Level
  <2>7. Paths
    BY Zenon, <2>1, <2>2, <2>4, <2>5, <2>6 DEF Paths, FreeAt
  <2>8. Leaving
    BY Zenon, <2>1, <2>2 DEF Leaving, At
  <2> QED
    BY Zenon, <2>2, <2>3, <2>7, <2>8 DEF ThreadsInv
<1>2. HeapInv
  <2>1. Current = "free" /\ "free" \notin Driving /\ "free" \notin Alone
    BY Zenon DEF Init, Current, Driving, Alone
  <2>2. Marking = {} /\ Cardinality(Marking) = 0
    <3>1. Marking = {}
      BY Zenon DEF Init, Marking
    <3> QED
      BY Zenon, <3>1, MarkingCount
  <2>3. sweeper.at = "none" /\ ~Sweeping
    BY Zenon DEF Init, NoSweeper, Sweeping
  <2>4. task \in [MarkTask -> {"none", "new", "roots", "drain", "out"}]
    BY Zenon DEF Init
  <2>5. /\ phase = "kDone" /\ tasks = 0 /\ concurrent_marker_tasks = 0
        /\ ~marker /\ ~barrier /\ marker \in BOOLEAN /\ barrier \in BOOLEAN
    BY Zenon DEF Init
  <2> QED
    BY <2>1, <2>2, <2>3, <2>4, <2>5 DEF HeapInv, Phases
<1>3. PagesInv
  <2> DEFINE list == InitialPages
             n == Len(InitialPages)
  <2>1. /\ n \in Nat /\ n # 0 /\ list \in [1..n -> Page] /\ DOMAIN list = 1..n
        /\ Head(list) = list[1]
    BY OldSpaceAssumption
  <2>2. \A i, j \in 1..n : list[i] = list[j] => i = j
    BY Zenon, <2>1, OldSpaceAssumption
  <2>3. /\ large_pages = list[1] /\ large_pages_tail = list[n]
        /\ mapped = {list[i] : i \in 1..n}
    BY Zenon, <2>1 DEF Init
  <2>4. next = [p \in Page |-> IF \E i \in 1..n - 1 : list[i] = p
                               THEN list[1 + CHOOSE i \in 1..n : list[i] = p]
                               ELSE Null]
    BY <2>1 DEF Init
  <2>5. visit = [page |-> Null, tail |-> Null] /\ sweeper = NoSweeper
    BY Zenon DEF Init
  <2> HIDE DEF list, n
  <2>6. ASSUME NEW k \in 1..n
        PROVE  (CHOOSE i \in 1..n : list[i] = list[k]) = k
    BY Zenon, <2>2
  <2>7. ASSUME NEW i \in 1..n
        PROVE  next[list[i]] = IF i = n THEN Null ELSE list[i + 1]
    <3>1. list[i] \in Page
      BY Zenon, <2>1
    <3>2. CASE i = n
      <4>1. \A k \in 1..n - 1 : k \in 1..n /\ k # n
        BY <2>1
      <4>2. ~\E k \in 1..n - 1 : list[k] = list[i]
        BY Zenon, <2>2, <3>2, <4>1
      <4> QED
        BY Zenon, <2>4, <3>1, <3>2, <4>2
    <3>3. CASE i # n
      <4>1. i \in 1..n - 1 /\ 1 + i = i + 1
        BY <2>1, <3>3
      <4>2. next[list[i]] = list[1 + CHOOSE k \in 1..n : list[k] = list[i]]
        BY Zenon, <2>4, <3>1, <4>1
      <4>3. (CHOOSE k \in 1..n : list[k] = list[i]) = i
        BY Zenon, <2>6
      <4> QED
        BY Zenon, <3>3, <4>1, <4>2, <4>3
    <3> QED
      BY Zenon, <3>2, <3>3
  <2>8. Chain(list, n, large_pages, large_pages_tail, next, mapped)
    BY Zenon, <2>1, <2>2, <2>3, <2>7 DEF Chain
  <2>9. visit.page = Null /\ sweeper.at = "none"
    BY Zenon, <2>5 DEF NoSweeper
  <2>10. VisitOn(list, n, visit) /\ SweepOn(list, n, sweeper)
    BY Zenon, <2>9 DEF VisitOn, SweepOn
  <2>11. next \in [Page -> Page \cup {Null}]
    <3> SUFFICES ASSUME NEW p \in Page
                 PROVE  (IF \E i \in 1..n - 1 : list[i] = p
                         THEN list[1 + CHOOSE i \in 1..n : list[i] = p]
                         ELSE Null) \in Page \cup {Null}
      BY Zenon, <2>4
    <3>1. CASE \E i \in 1..n - 1 : list[i] = p
      <4>1. PICK i \in 1..n - 1 : list[i] = p
        BY Zenon, <3>1
      <4>2. i \in 1..n /\ 1 + i \in 1..n
        BY <2>1
      <4>3. (CHOOSE k \in 1..n : list[k] = p) = i
        BY <2>6, <4>1, <4>2
      <4>4. list[1 + i] \in Page
        BY Zenon, <2>1, <4>2
      <4> QED
        BY Zenon, <3>1, <4>3, <4>4
    <3>2. CASE ~\E i \in 1..n - 1 : list[i] = p
      BY Zenon, <3>2
    <3> QED
      BY Zenon, <3>1, <3>2
  <2>12. PagesTypes
    <3>1. 1 \in 1..n /\ n \in 1..n
      BY <2>1
    <3>2. list[1] \in Page /\ list[n] \in Page /\ mapped \subseteq Page
      BY Zenon, <2>1, <2>3, <3>1
    <3>3. /\ sweeper \in [at : {"none", "here", "large", "regular", "out"},
                          page : Page \cup {Null}, prev : Page \cup {Null},
                          last : Page \cup {Null}]
          /\ visit \in [page : Page \cup {Null}, tail : Page \cup {Null}]
      BY Zenon, <2>5 DEF NoSweeper
    <3> QED
      BY Zenon, <2>3, <2>11, <3>2, <3>3 DEF PagesTypes
  <2> QED
    BY Zenon, <2>8, <2>9, <2>10, <2>12 DEF PagesInv
<1> QED
  BY Zenon, <1>1, <1>2, <1>3 DEF Inv

(* The sweeper forgets its pages. *)
LEMMA SweeperForgets ==
  ASSUME NEW at \in {"none", "regular", "out"}
  PROVE  [NoSweeper EXCEPT !.at = at] \in
           [at : {"none", "regular", "out"}, page : Page \cup {Null},
            prev : Page \cup {Null}, last : Page \cup {Null}]
BY Zenon DEF NoSweeper

(* A step of a mutator. *)
LEMMA StepInv ==
  ASSUME LibraryFacts, Inv, NEW t \in Thread, Step(t)
  PROVE  Inv'
<1>0. ThreadsInv /\ HeapInv /\ PagesInv /\ PagesTypes
  BY Zenon DEF Inv, PagesInv
<1>1. CASE SafepointThreads(t)
  <2>1. UNCHANGED <<counts, marking, deleted, sweeper, pages, visit>>
    BY Zenon, <1>1 DEF SafepointThreads, Done, Then
  <2> QED
    BY Zenon, <1>0, <1>1, <2>1, SafepointThreadsThreads, CalmInv
<1>2. CASE ResumeThreads(t)
  <2>1. UNCHANGED <<counts, marking, deleted, sweeper, pages, visit>>
    BY Zenon, <1>2 DEF ResumeThreads, Done, Then
  <2> QED
    BY Zenon, <1>0, <1>2, <2>1, ResumeThreadsThreads, CalmInv
<1>3. CASE CheckFinishConcurrentMarking(t)
  <2>1. UNCHANGED <<counts, marking, deleted, sweeper, pages, visit>>
    BY Zenon, <1>3 DEF CheckFinishConcurrentMarking, Then
  <2> QED
    BY Zenon, <1>0, <1>3, <2>1, CheckFinishThreads, CalmInv
<1>4. CASE CheckStartConcurrentMarking(t)
  <2>1. UNCHANGED <<counts, marking, deleted, sweeper, pages, visit>>
    BY Zenon, <1>4 DEF CheckStartConcurrentMarking, Done, Then
  <2> QED
    BY Zenon, <1>0, <1>4, <2>1, CheckStartThreads, CalmInv
<1>5. CASE NotifyIdle(t)
  <2>1. UNCHANGED <<counts, marking, deleted, sweeper, pages, visit>>
    BY Zenon, <1>5 DEF NotifyIdle, Then
  <2> QED
    BY Zenon, <1>0, <1>5, <2>1, NotifyIdleThreads, CalmInv
<1>6. CASE NotifyIdleOld(t)
  <2>1. UNCHANGED <<counts, marking, deleted, sweeper, pages, visit>>
    BY Zenon, <1>6 DEF NotifyIdleOld, Then
  <2> QED
    BY Zenon, <1>0, <1>6, <2>1, NotifyIdleOldThreads, CalmInv
<1>7. CASE IfMarking(t)
  <2>1. UNCHANGED <<counts, marking, deleted, sweeper, pages, visit>>
    BY Zenon, <1>7 DEF IfMarking, Then
  <2> QED
    BY Zenon, <1>0, <1>7, <2>1, IfMarkingThreads, CalmInv
<1>8. CASE WaitForMarkerTasks(t)
  <2>1. UNCHANGED <<counts, marking, deleted, sweeper, pages, visit>>
    BY Zenon, <1>8 DEF WaitForMarkerTasks, Wait, threads, Done, Then
  <2> QED
    BY Zenon, <1>0, <1>8, <2>1, WaitForMarkerTasksThreads, CalmInv
<1>9. CASE WaitForSweeperTasks(t)
  <2>1. UNCHANGED <<counts, marking, deleted, sweeper, pages, visit>>
    BY Zenon, <1>9 DEF WaitForSweeperTasks, Wait, threads, Done, Then
  <2> QED
    BY Zenon, <1>0, <1>9, <2>1, WaitForSweeperTasksThreads, CalmInv
<1>10. CASE BeginCollect(t)
  <2>1. ThreadsInv' /\ HeapInv' /\ Current = "free"
    BY Zenon, <1>0, <1>10, BeginCollectThreads, BeginCollectHeap
  <2>2. UNCHANGED <<pages, sweeper, visit>>
    BY Zenon, <1>10 DEF BeginCollect
  <2> QED
    BY Zenon, <2>1, <2>2, ModeInv
<1>11. CASE StartConcurrentMark(t)
  <2>1. ThreadsInv' /\ HeapInv' /\ Current = "marking"
    BY Zenon, <1>0, <1>11, StartConcurrentMarkThreads, StartConcurrentMarkHeap
  <2>2. UNCHANGED <<pages, sweeper, visit>>
    BY Zenon, <1>11 DEF StartConcurrentMark
  <2> QED
    BY Zenon, <2>1, <2>2, ModeInv
<1>12. CASE StartMarkTask(t)
  <2>1. Doing(t, "start_task") /\ Done(t) /\ UNCHANGED safepoint
        /\ UNCHANGED <<pages, sweeper, visit>>
    BY Zenon, <1>12 DEF StartMarkTask
  <2>2. ThreadsInv' /\ Current = "starting"
    BY Zenon, <1>0, <2>1, ModeStep DEF Entry, S
  <2> QED
    BY Zenon, <1>0, <1>12, <2>1, <2>2, StartMarkTaskHeap, ModeInv
<1>13. CASE WaitForRoots(t)
  <2>1. Doing(t, "roots") /\ Done(t) /\ UNCHANGED safepoint
        /\ UNCHANGED <<pages, sweeper, visit>>
    BY Zenon, <1>13 DEF WaitForRoots
  <2>2. ThreadsInv' /\ Current = "starting"
    BY Zenon, <1>0, <2>1, ModeStep DEF Entry, S
  <2> QED
    BY Zenon, <1>0, <1>13, <2>1, <2>2, WaitForRootsHeap, ModeInv
<1>14. CASE Finalize(t)
  BY Zenon, <1>0, <1>14, FinalizeThreads, FinalizeHeap, FinalizePages DEF Inv
<1>15. CASE SweepHere(t)
  <2>1. /\ ThreadsInv' /\ HeapInv' /\ Current = "sweeping" /\ UNCHANGED visit
    BY Zenon, <1>0, <1>15, SweepHereHeap DEF SweepHere
  <2>2. CASE SweepLargePage
    <3>1. sweeper.at = "here"
      BY Zenon, <1>0, <2>1 DEF HeapInv
    <3> QED
      BY Zenon, <1>0, <2>1, <2>2, <3>1, SweepLargePagePages DEF Inv
  <2>3. CASE sweeper' = NoSweeper /\ UNCHANGED pages
    <3>1. sweeper' \in [at : {"none", "regular", "out"},
                        page : Page \cup {Null}, prev : Page \cup {Null},
                        last : Page \cup {Null}]
      BY Zenon, <2>3 DEF NoSweeper
    <3> QED
      BY Zenon, <1>0, <2>1, <2>3, <3>1, PagesSwept DEF Inv
  <2> QED
    BY Zenon, <1>15, <2>2, <2>3 DEF SweepHere
<1>16. CASE EndCollect(t)
  <2>1. ThreadsInv' /\ HeapInv' /\ Current = "ending"
    BY Zenon, <1>0, <1>16, EndCollectHeap
  <2>2. UNCHANGED <<pages, sweeper, visit>>
    BY Zenon, <1>16 DEF EndCollect
  <2> QED
    BY Zenon, <2>1, <2>2, ModeInv
<1>17. CASE AllocationFails(t)
  <2>1. UNCHANGED <<counts, marking, deleted, sweeper, pages, visit>>
    BY Zenon, <1>17 DEF AllocationFails, Done, Then
  <2> QED
    BY Zenon, <1>0, <1>17, <2>1, AllocationFailsThreads, CalmInv
<1>18. CASE VisitRememberedCards(t)
  BY Zenon, <1>0, <1>18, VisitRememberedCardsInv DEF Inv
<1>19. CASE VisitPage(t)
  BY Zenon, <1>0, <1>19, VisitPageInv DEF Inv
<1>20. CASE Scavenged(t)
  BY Zenon, <1>0, <1>20, ScavengedInv DEF Inv
<1>21. CASE HeapIterationScope(t)
  <2>1. ThreadsInv' /\ HeapInv' /\ Current = "free"
    BY Zenon, <1>0, <1>21, HeapIterationScopeThreads, HeapIterationScopeHeap
  <2>2. UNCHANGED <<pages, sweeper, visit>>
    BY Zenon, <1>21 DEF HeapIterationScope
  <2> QED
    BY Zenon, <2>1, <2>2, ModeInv
<1>22. CASE Iterate(t)
  <2>1. ThreadsInv' /\ HeapInv' /\ Current = "iterating"
    BY Zenon, <1>0, <1>22, IterateHeap
  <2>2. UNCHANGED <<pages, sweeper, visit>>
    BY Zenon, <1>22 DEF Iterate
  <2> QED
    BY Zenon, <2>1, <2>2, ModeInv
<1>23. CASE EndHeapIterationScope(t)
  <2>1. ThreadsInv' /\ HeapInv' /\ Current = "iterated"
    BY Zenon, <1>0, <1>23, EndHeapIterationScopeHeap
  <2>2. UNCHANGED <<pages, sweeper, visit>>
    BY Zenon, <1>23 DEF EndHeapIterationScope
  <2> QED
    BY Zenon, <2>1, <2>2, ModeInv
<1>24. CASE Shutdown(t)
  <2>1. ThreadsInv' /\ HeapInv' /\ Current = "free"
    BY Zenon, <1>0, <1>24, ShutdownThreads, ShutdownHeap DEF Calm
  <2>2. UNCHANGED <<pages, sweeper, visit>>
    BY Zenon, <1>24 DEF Shutdown
  <2> QED
    BY Zenon, <2>1, <2>2, ModeInv
<1> QED
  BY Zenon, <1>1, <1>2, <1>3, <1>4, <1>5, <1>6, <1>7, <1>8, <1>9, <1>10, <1>11,
     <1>12, <1>13, <1>14, <1>15, <1>16, <1>17, <1>18, <1>19, <1>20, <1>21,
     <1>22, <1>23, <1>24 DEF Step

(* A step of a task on a helper thread. *)
LEMMA TaskInv ==
  ASSUME LibraryFacts, Inv, SweeperTask \/ \E m \in MarkTask : MarkerTask(m)
  PROVE  Inv'
<1>0. ThreadsInv /\ HeapInv /\ PagesInv /\ PagesTypes
  BY Zenon DEF Inv, PagesInv
<1>1. UNCHANGED <<threads, safepoint, visit>>
  BY Zenon DEF SweeperTask, SweepLargeStep, SweepRegular, EndSweep, MarkerTask,
         MarkRoots, DrainAndExit, EndMarkTask
<1>2. ThreadsInv' /\ Current' = Current
  BY Zenon, <1>0, <1>1, ThreadsStay
<1>3. ASSUME NEW m \in MarkTask, MarkerTask(m)
      PROVE  Inv'
  <2>1. HeapInv'
    BY Zenon, <1>0, <1>3, MarkRootsHeap, DrainAndExitHeap, EndMarkTaskHeap
       DEF MarkerTask
  <2>2. UNCHANGED <<pages, sweeper, visit>>
    BY Zenon, <1>3 DEF MarkerTask, MarkRoots, DrainAndExit, EndMarkTask
  <2> QED
    BY Zenon, <1>0, <1>2, <2>1, <2>2, PagesRest DEF Inv
<1>4. CASE SweepLargeStep
  <2>1. HeapInv'
    BY Zenon, <1>0, <1>4, SweepLargeStepHeap
  <2>2. CASE SweepLargePage
    <3>1. sweeper.at = "large"
      BY Zenon, <1>4 DEF SweepLargeStep
    <3> QED
      BY Zenon, <1>0, <1>1, <1>2, <2>1, <2>2, <3>1, SweepLargePagePages DEF Inv
  <2>3. CASE sweeper' = [NoSweeper EXCEPT !.at = "regular"] /\ UNCHANGED pages
    <3>1. sweeper' \in [at : {"none", "regular", "out"},
                        page : Page \cup {Null}, prev : Page \cup {Null},
                        last : Page \cup {Null}]
      BY Zenon, <2>3, SweeperForgets
    <3> QED
      BY Zenon, <1>0, <1>1, <1>2, <2>1, <2>3, <3>1, PagesSwept DEF Inv
  <2> QED
    BY Zenon, <1>4, <2>2, <2>3 DEF SweepLargeStep
<1>5. CASE SweepRegular
  <2>1. HeapInv'
    BY Zenon, <1>0, <1>5, SweepRegularHeap
  <2>2. /\ sweeper' = [sweeper EXCEPT !.at = "out"] /\ UNCHANGED pages
    BY Zenon, <1>5 DEF SweepRegular
  <2>3. sweeper' \in [at : {"none", "regular", "out"},
                      page : Page \cup {Null}, prev : Page \cup {Null},
                      last : Page \cup {Null}]
    BY Zenon, <1>0, <2>2 DEF PagesTypes
  <2> QED
    BY Zenon, <1>0, <1>1, <1>2, <2>1, <2>2, <2>3, PagesSwept DEF Inv
<1>6. CASE EndSweep
  <2>1. HeapInv'
    BY Zenon, <1>0, <1>6, EndSweepHeap
  <2>2. sweeper' = NoSweeper /\ UNCHANGED pages
    BY Zenon, <1>6 DEF EndSweep
  <2>3. sweeper' \in [at : {"none", "regular", "out"},
                      page : Page \cup {Null}, prev : Page \cup {Null},
                      last : Page \cup {Null}]
    BY Zenon, <2>2 DEF NoSweeper
  <2> QED
    BY Zenon, <1>0, <1>1, <1>2, <2>1, <2>2, <2>3, PagesSwept DEF Inv
<1> QED
  BY Zenon, <1>3, <1>4, <1>5, <1>6 DEF SweeperTask

(* Every step. *)
LEMMA NextInv ==
  ASSUME LibraryFacts, Inv, [Next]_vars
  PROVE  Inv'
<1>0. ThreadsInv /\ HeapInv /\ PagesInv
  BY Zenon DEF Inv
<1>1. ASSUME NEW t \in Thread, Start(t)
      PROVE  Inv'
  <2>1. UNCHANGED <<counts, marking, deleted, sweeper, pages, visit>>
    BY Zenon, <1>1 DEF Start
  <2> QED
    BY Zenon, <1>0, <1>1, <2>1, StartThreads, CalmInv
<1>2. ASSUME NEW t \in Thread, Leave(t)
      PROVE  Inv'
  <2>1. UNCHANGED <<counts, marking, deleted, sweeper, pages, visit>>
    BY Zenon, <1>2 DEF Leave
  <2> QED
    BY Zenon, <1>0, <1>2, <2>1, LeaveThreads, CalmInv
<1>3. ASSUME NEW t \in Thread, AllocateLargePage(t)
      PROVE  Inv'
  BY Zenon, <1>0, <1>3, AllocateLargePageInv DEF Inv
<1>4. CASE UNCHANGED vars
  <2>1. /\ UNCHANGED <<threads, safepoint, counts, marking, sweeper, pages, visit>>
        /\ UNCHANGED deleted
    BY Zenon, <1>4 DEF vars, threads
  <2>2. ThreadsInv' /\ Current' = Current
    BY Zenon, <1>0, <2>1, ThreadsStay
  <2>3. HeapInv'
    BY Zenon, <1>0, <2>1, <2>2, HeapRests
  <2> QED
    BY Zenon, <1>0, <2>1, <2>2, <2>3, PagesRest DEF Inv
<1> QED
  BY Zenon, <1>1, <1>2, <1>3, <1>4, StepInv, TaskInv DEF Next, Finished

-----------------------------------------------------------------------------
(* What follows from the invariant.                                        *)

(* A thread that is in some mode owns the safepoint. *)
LEMMA ModeOwns ==
  ASSUME ThreadsInv, NEW t \in Thread, Mode(t) # "free"
  PROVE  owner = t /\ Current = Mode(t)
<1>1. t \notin gone
  <2>1. /\ Head(<<S("shutdown")>>) = S("shutdown")
        /\ <<S("shutdown")>> # <<>>
    OBVIOUS
  <2>2. Entry(S("shutdown")) = "free"
    BY Zenon DEF Entry, S
  <2>3. t \in gone => todo[t] \in {<<>>, <<S("shutdown")>>}
    BY Zenon DEF ThreadsInv, Paths
  <2> QED
    BY Zenon, <2>1, <2>2, <2>3 DEF Mode
<1>2. Level(t) \in Nat
  BY Zenon DEF ThreadsInv, Level
<1>3. PICK mode \in Modes : Leads(todo[t], Spot(Level(t), mode), FreeAt(0))
  BY Zenon, <1>1 DEF ThreadsInv, Paths
<1>4. mode = Mode(t) /\ (mode # "free" => Level(t) > 0)
  BY Zenon, <1>2, <1>3, ModeIs DEF Mode
<1>5. owner = t
  BY <1>4 DEF Level
<1> QED
  BY Zenon, <1>5, OldSpaceAssumption DEF Current

(* The step a thread is at gives its mode. *)
LEMMA ModeAt ==
  ASSUME NEW t
  PROVE  /\ Mode(t) \in Driving <=>
              \E do \in {"helper", "start_task", "roots", "sweep_here", "end",
                         "iterate", "iterate_end"} : At(t, do)
         /\ At(t, "helper") => Mode(t) \in {"marking", "begun"}
         /\ At(t, "helper") /\ How(t) = "mark" => Mode(t) = "marking"
         /\ At(t, "sweep_here") => Mode(t) = "sweeping"
         /\ At(t, "iterate") => Mode(t) = "iterating"
<1> DEFINE x == Head(todo[t])
<1>1. CASE todo[t] = <<>>
  <2>1. Mode(t) = "free" /\ "free" \notin Driving
    BY Zenon, <1>1 DEF Mode, Driving
  <2> QED
    BY Zenon, <1>1, <2>1 DEF At
<1>2. CASE todo[t] # <<>>
  <2>1. Mode(t) = Entry(x) /\ \A do : At(t, do) <=> x.do = do
    BY Zenon, <1>2 DEF Mode, At
  <2> HIDE DEF x
  <2>2. /\ Entry(x) \in Driving <=>
             x.do \in {"helper", "start_task", "roots", "sweep_here", "end",
                       "iterate", "iterate_end"}
    BY Zenon DEF Entry, Driving
  <2>3. /\ x.do = "helper" => Entry(x) \in {"marking", "begun"}
        /\ x.do = "helper" /\ x.how = "mark" => Entry(x) = "marking"
        /\ x.do = "sweep_here" => Entry(x) = "sweeping"
        /\ x.do = "iterate" => Entry(x) = "iterating"
    BY Zenon DEF Entry
  <2>4. How(t) = x.how
    BY Zenon DEF How, x
  <2> QED
    BY Zenon, <2>1, <2>2, <2>3, <2>4
<1> QED
  BY Zenon, <1>1, <1>2

(* There is at most one driver, the owner of the safepoint. *)
LEMMA DriversAre ==
  ASSUME ThreadsInv
  PROVE  Drivers = IF Current \in Driving THEN {owner} ELSE {}
<1>1. "free" \notin Driving
  BY Zenon DEF Driving
<1>2. \A t \in Thread : t \in Drivers <=> Mode(t) \in Driving
  BY Zenon, ModeAt DEF Drivers
<1>3. \A t \in Thread : Mode(t) \in Driving => owner = t /\ Current = Mode(t)
  BY Zenon, <1>1, ModeOwns
<1>4. Current \in Driving => owner \in Thread /\ Current = Mode(owner)
  BY Zenon, <1>1 DEF Current, ThreadsInv
<1>5. Drivers \subseteq Thread
  BY Zenon DEF Drivers
<1>6. CASE Current \in Driving
  BY Zenon, <1>2, <1>3, <1>4, <1>5, <1>6
<1>7. CASE Current \notin Driving
  BY Zenon, <1>2, <1>3, <1>5, <1>7
<1> QED
  BY Zenon, <1>6, <1>7

-----------------------------------------------------------------------------
(* The library, and the theorems.                                          *)
INSTANCE FiniteSetTheorems

(* The fact assumed above. *)
LEMMA Library ==
  LibraryFacts
<1>1. ASSUME NEW T \in SUBSET MarkTask
      PROVE  /\ Cardinality(T) \in Nat
             /\ Cardinality(T) = 0 <=> T = {}
             /\ \A m \in T : Cardinality(T \ {m}) = Cardinality(T) - 1
  <2>1. IsFiniteSet(T)
    BY Zenon, OldSpaceAssumption, FS_Subset
  <2> QED
    BY Zenon, <2>1, FS_CardinalityType, FS_EmptySet, FS_RemoveElement
<1> QED
  BY Zenon, <1>1 DEF LibraryFacts

(* The invariant of the old space. *)
THEOREM Invariant == Spec => []Inv
<1>1. Init => Inv
  BY Zenon, InitInv, Library
<1>2. Inv /\ [Next]_vars => Inv'
  BY Zenon, NextInv, Library
<1> QED
  BY <1>1, <1>2, PTL DEF Spec

(* phase_ and the counters under tasks_lock say what is really going on,   *)
(* whatever the threads decide on a phase they have read before.           *)
THEOREM PhaseCorrect == Spec => []PhaseIsTrue
<1>1. Inv => PhaseIsTrue
  <2> SUFFICES ASSUME Inv
               PROVE  PhaseIsTrue
    BY Zenon
  <2>1. ThreadsInv /\ HeapInv
    BY Zenon DEF Inv
  <2>2. Cardinality(Drivers) = IF Current \in Driving THEN 1 ELSE 0
    <3>1. CASE Current \in Driving
      <4>1. Cardinality({owner}) = 1
        BY Zenon, FS_Singleton
      <4> QED
        BY Zenon, <2>1, <3>1, <4>1, DriversAre
    <3>2. CASE Current \notin Driving
      <4>1. Cardinality({}) = 0
        BY Zenon, FS_EmptySet
      <4> QED
        BY Zenon, <2>1, <3>2, <4>1, DriversAre
    <3> QED
      BY Zenon, <3>1, <3>2
  <2> QED
    BY Zenon, <2>1, <2>2 DEF HeapInv, PhaseIsTrue, Phases
<1> QED
  BY <1>1, Invariant, PTL

(* A thread that starts or finalizes a collection, sweeps or iterates owns *)
(* the safepoint and is alone with the heap.                               *)
THEOREM QuietCorrect == Spec => []HeapIsQuiet
<1>1. Inv => HeapIsQuiet
  <2> SUFFICES ASSUME Inv, NEW t \in Thread,
                      At(t, "helper") \/ At(t, "sweep_here") \/ At(t, "iterate")
               PROVE  /\ owner = t /\ Marking = {} /\ ~Sweeping /\ Drivers = {t}
                      /\ At(t, "helper") =>
                           phase \in {"kDone", "kAwaitingFinalization"}
                      /\ At(t, "helper") /\ How(t) = "mark" => phase = "kDone"
                      /\ At(t, "iterate") => phase = "kDone"
    BY Zenon DEF HeapIsQuiet
  <2>1. ThreadsInv /\ HeapInv
    BY Zenon DEF Inv
  <2>2. /\ Mode(t) \in {"marking", "begun", "sweeping", "iterating"}
        /\ At(t, "helper") /\ How(t) = "mark" => Mode(t) = "marking"
        /\ At(t, "helper") => Mode(t) \in {"marking", "begun"}
        /\ At(t, "iterate") => Mode(t) = "iterating"
    BY Zenon, ModeAt
  <2>3. owner = t /\ Current = Mode(t)
    BY Zenon, <2>1, <2>2, ModeOwns
  <2>4. Current \in Driving /\ Current \in Alone
    BY Zenon, <2>2, <2>3 DEF Driving, Alone
  <2>5. Drivers = {t}
    BY Zenon, <2>1, <2>3, <2>4, DriversAre
  <2>6. Marking = {} /\ ~Sweeping
    BY Zenon, <2>1, <2>4 DEF HeapInv
  <2>7. ~deleted
    <3>1. todo[t] # <<>>
      BY Zenon DEF At
    <3> QED
      BY Zenon, <2>1, <3>1 DEF ThreadsInv, Leaving
  <2>8. phase \in {"kDone", "kAwaitingFinalization"}
    BY Zenon, <2>1, <2>6, <2>7 DEF HeapInv, Phases, Sweeping
  <2>9. Current \in {"marking", "iterating"} => phase = "kDone"
    BY Zenon, <2>1 DEF HeapInv
  <2> QED
    BY Zenon, <2>2, <2>3, <2>5, <2>6, <2>8, <2>9
<1> QED
  BY <1>1, Invariant, PTL

(* As many pages as the list is long. *)
LEMMA ChainCount ==
  ASSUME NEW list, NEW n, NEW head, NEW tail, NEW nx, NEW set,
         Chain(list, n, head, tail, nx, set)
  PROVE  /\ n \in Nat /\ Cardinality(set) = n
         /\ list \in [1..n -> set] /\ list \in Seq(Page) /\ Len(list) = n
<1>1. n \in Nat /\ list \in [1..n -> Page] /\ set = {list[i] : i \in 1..n}
      /\ \A i, j \in 1..n : list[i] = list[j] => i = j
  BY Zenon DEF Chain
<1>2. list \in [1..n -> set]
  BY Zenon, <1>1
<1>3. list \in Bijection(1..n, set)
  <2>1. IsInjective(list)
    BY Zenon, <1>1 DEF IsInjective
  <2>2. \A p \in set : \E i \in 1..n : list[i] = p
    BY Zenon, <1>1
  <2> QED
    BY Zenon, <1>2, <2>1, <2>2 DEF Bijection, Injection, Surjection
<1>4. Cardinality(set) = n
  BY Zenon, <1>1, <1>3, FS_CountingElements DEF ExistsBijection
<1>5. list \in Seq(Page) /\ Len(list) = n
  BY <1>1
<1> QED
  BY Zenon, <1>1, <1>2, <1>4, <1>5

(* Whatever is appended and unlinked meanwhile, the list of large pages is *)
(* that of the pages that exist, and the scavenger walks on it towards the *)
(* tail it has read.                                                       *)
THEOREM PagesCorrect == Spec => []LargePagesIntact
<1>1. Inv => LargePagesIntact
  <2> SUFFICES ASSUME Inv
               PROVE  LargePagesIntact
    BY Zenon
  <2>1. PICK n, list :
          /\ Chain(list, n, large_pages, large_pages_tail, next, mapped)
          /\ VisitOn(list, n, visit)
    BY Zenon DEF Inv, PagesInv
  <2>2. /\ n \in Nat /\ Cardinality(mapped) = n /\ list \in [1..n -> mapped]
        /\ list \in Seq(Page) /\ Len(list) = n
    BY Zenon, <2>1, ChainCount
  <2>3. DOMAIN list = 1..n /\ (list = <<>> <=> n = 0)
    BY <2>2
  <2>4. Linked(list)
    BY Zenon, <2>1, <2>2, <2>3 DEF Linked, Chain
  <2>5. mapped = {list[i] : i \in DOMAIN list}
    BY Zenon, <2>1, <2>3 DEF Chain
  <2>6. mapped # {} => list[Len(list)] = large_pages_tail
    <3>1. n = 0 => mapped = {}
      BY <2>3, <2>5
    <3> QED
      BY Zenon, <2>1, <2>2, <3>1 DEF Chain
  <2>7. visit.page # Null =>
          \E i, j \in DOMAIN list :
            i <= j /\ list[i] = visit.page /\ list[j] = visit.tail
    BY Zenon, <2>1, <2>3 DEF VisitOn
  <2> QED
    BY Zenon, <2>2, <2>4, <2>5, <2>6, <2>7 DEF LargePagesIntact
<1> QED
  BY <1>1, Invariant, PTL

(* No task outlives the group and its heap. *)
THEOREM ShutdownCorrect == Spec => []NoTaskAfterShutdown
<1>1. Inv => NoTaskAfterShutdown
  BY Zenon DEF Inv, HeapInv, NoTaskAfterShutdown
<1> QED
  BY <1>1, Invariant, PTL

=============================================================================
