------------------------ MODULE MCSubagentContinuation ------------------------
(* Instances of SubagentContinuation for TLC: a child and its grandchild.   *)
EXTENDS SubagentContinuation, TLC

CONSTANTS outer, inner

Chain == (outer :> Root) @@ (inner :> outer)
=============================================================================
