--------------------------- MODULE MCMessageHandler ---------------------------
(* MessageHandler for TLC.                                                 *)
EXTENDS MessageHandler

=============================================================================
