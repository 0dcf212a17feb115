------------------------ MODULE MCSessionWriteBehind ------------------------
(* Instances of SessionWriteBehind for TLC.                                *)
EXTENDS SessionWriteBehind, TLC

\* Write goroutines and flush callers are interchangeable.
WriteSymmetry == Permutations(Writes) \cup Permutations(Callers)
=============================================================================
