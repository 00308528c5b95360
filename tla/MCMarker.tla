------------------------------- MODULE MCMarker -------------------------------
(* Marker for TLC: three plain objects, a code object and two weak         *)
(* properties of which one holds the key of the other.                     *)
EXTENDS Marker, TLC

CONSTANTS a, b, c, w1, w2, i

MCPlain == {a, b, c}
MCWeak == {w1, w2}
MCCode == {i}
MCKey == w1 :> a @@ w2 :> b
MCValue == w1 :> b @@ w2 :> c

Heap(fa, fb, fc, stack, page, temporaries, operations) ==
  [field |-> a :> fa @@ b :> fb @@ c :> fc,
   local |-> stack, young |-> page, temp |-> temporaries,
   ops |-> operations]

(* A hidden object behind a, two weak properties with a live or a dead     *)
(* key, a cycle with the code object, and a temporary.                     *)
MCHeaps == {
  Heap(c, Null, Null, {a, b}, {}, {}, 3),
  Heap(Null, Null, Null, {a, w1, i}, {w2}, {}, 1),
  Heap(Null, i, Null, {w1, w2}, {c}, {}, 1),
  Heap(b, c, a, {a}, {w2}, {a}, 2)}
=============================================================================
