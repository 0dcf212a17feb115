----------------------------- MODULE DurableLog -----------------------------
(***************************************************************************)
(* What the persistence layer promises of one session, whatever batches,    *)
(* timers, failures and flushes do underneath: the session appends events   *)
(* numbered 0, 1, 2, ..; the durable log only ever grows, by the events     *)
(* that come next, some at a time, and never holds one that was not         *)
(* appended.  It may lag behind for ever (the backend may fail).            *)
(***************************************************************************)
EXTENDS Integers, Sequences

VARIABLES
    appended,   \* how many events the session has appended
    durable     \* the events a reload of the session would read

Init == appended \in Nat /\ durable = <<>>

\* The session appends its next event.
AppendEvent == appended' = appended + 1 /\ UNCHANGED durable

\* The first n events of a session.
Prefix(n) == [i \in 1 .. n |-> i - 1]

\* The next events, up to the n-th, become durable.
Persist(n) ==
    /\ Len(durable) < n
    /\ durable' = Prefix(n)
    /\ UNCHANGED appended

Next == AppendEvent \/ \E n \in 1 .. appended : Persist(n)

Spec == Init /\ [][Next]_<<appended, durable>>
=============================================================================
