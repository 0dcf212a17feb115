--------------------------- MODULE MCToolScheduler ---------------------------
(* Finite instances of ToolScheduler for TLC.                              *)
EXTENDS ToolScheduler
=============================================================================
