---------------------------- MODULE MCJobRegistry ----------------------------
(* Instances of JobRegistry for TLC.                                       *)
EXTENDS JobRegistry
=============================================================================
