----------------------------- MODULE MCSafepoint -----------------------------
(* Safepoint for TLC.                                                      *)
EXTENDS Safepoint

=============================================================================
