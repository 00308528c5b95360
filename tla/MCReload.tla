------------------------------- MODULE MCReload -------------------------------
(* Reload for TLC.                                                         *)
EXTENDS Reload

=============================================================================
