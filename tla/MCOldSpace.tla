------------------------------ MODULE MCOldSpace ------------------------------
(* Instance of OldSpace for TLC. *)
EXTENDS OldSpace

CONSTANTS p1, p2

MCInitialPages == <<p1, p2>>
=============================================================================
