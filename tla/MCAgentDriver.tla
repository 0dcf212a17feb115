---------------------------- MODULE MCAgentDriver ----------------------------
(* Finite instances of AgentDriver for TLC.                                *)
EXTENDS AgentDriver, TLC

\* Messages, senders and cancellers are interchangeable.
DriverSymmetry == Permutations(Messages) \cup Permutations(Senders) \cup Permutations(Cancelers)
=============================================================================
