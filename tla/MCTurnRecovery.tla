--------------------------- MODULE MCTurnRecovery ----------------------------
(* Finite instances of TurnRecovery for TLC.                               *)
EXTENDS TurnRecovery
=============================================================================
