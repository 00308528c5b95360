---------------------------- MODULE MCThreadPool ----------------------------
(* ThreadPool for TLC.                                                     *)
EXTENDS ThreadPool

=============================================================================
