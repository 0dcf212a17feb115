------------------------- MODULE SubagentContinuation -------------------------
(***************************************************************************)
(* The manager of continuable subagents (subagent/continuation.go and      *)
(* subagent/continuation-manager.go): deliveries that create, resume or    *)
(* wake a child, the watcher that settles a quiet child, and the disposal  *)
(* transactions that release a tree of them child-first.                   *)
(*                                                                         *)
(* One action is one critical section of m.mu or one call on an agent      *)
(* between two of them.  A child's agent is reduced to what the manager    *)
(* asks of it: whether it is registered, whether it runs, and how many     *)
(* waking messages wait in its inbox (AgentDriver has the detail).         *)
(* StartContinuable and Followup differ in what they validate and persist; *)
(* they are one delivery here, which finds the child absent or resident.   *)
(***************************************************************************)
EXTENDS Integers, FiniteSets

CONSTANTS
    Children,       \* session ids of the continuable children
    Root,           \* the host's agent, which has no Activation
    Parent,         \* the durable direct parent of every child
    Callers,        \* tool calls that may be under way at once
    NoCaller,
    MaxDeliveries,  \* bound: deliveries begun
    MaxOthers       \* bound: reports, interrupts and drains, together

ASSUME TreeAssumption ==
    /\ Root \notin Children
    /\ Parent \in [Children -> Children \cup {Root}]
    /\ \A S \in SUBSET Children : S # {} => \E c \in S : Parent[c] \notin S  \* a forest
    /\ IsFiniteSet(Children) /\ IsFiniteSet(Callers)
    /\ NoCaller \notin Callers
    /\ MaxDeliveries \in Nat /\ MaxOthers \in Nat

VARIABLES
    act,       \* m.activations: the resident Activation of each child
    agent,     \* the registered agent of each child
    late,      \* the transaction of each child that has removed its Activation
    lock,      \* m.locks: who runs in the child's critical section
    call,      \* the deliveries and reports
    draining,  \* m.draining
    scopes,    \* whether m.closingScopes has an entry for Root
    drain,     \* the Drain call
    used,      \* how much of the bounds was spent, and whether DrainChildren was called
    stolen,    \* history: children whose ownership an older epoch released
    dropped    \* history: children that settled over accepted work

vars == <<act, agent, late, lock, call, draining, scopes, drain, used, stolen, dropped>>

DisposalPcs == {"none", "stop", "kids", "handle", "delete"}
LatePcs == {"none", "notify", "send", "disown"}
CallPcs == {"idle", "lock", "create", "build", "own", "admit", "accept",
            "send", "announce", "retry", "rollback", "report"}

NoActivation == [here |-> FALSE, gen |-> 0, published |-> FALSE, announced |-> FALSE,
                 disposal |-> "none", settled |-> FALSE, kids |-> {}, owned |-> {}, accepted |-> 0]
NoAgent == [live |-> FALSE, running |-> FALSE, aborted |-> FALSE, latched |-> FALSE, pending |-> 0]
NoLate == [pc |-> "none", gen |-> 0, announced |-> FALSE, to |-> 0]
NoCall == [pc |-> "idle", child |-> Root, gen |-> 0, fresh |-> FALSE]

Txns == Children \X (0..MaxDeliveries)

\* The shape of the state: accepted ids never go below none.
TypeOK ==
    /\ act \in [Children -> [here : BOOLEAN, gen : 0..MaxDeliveries, published : BOOLEAN,
                             announced : BOOLEAN, disposal : DisposalPcs, settled : BOOLEAN,
                             kids : SUBSET Txns, owned : SUBSET Children, accepted : Nat]]
    /\ agent \in [Children -> [live : BOOLEAN, running : BOOLEAN, aborted : BOOLEAN,
                               latched : BOOLEAN, pending : Nat]]
    /\ late \in [Children -> [pc : LatePcs, gen : 0..MaxDeliveries, announced : BOOLEAN,
                              to : 0..MaxDeliveries]]
    /\ lock \in [Children -> Callers \cup {NoCaller}]
    /\ call \in [Callers -> [pc : CallPcs, child : Children \cup {Root},
                             gen : 0..MaxDeliveries, fresh : BOOLEAN]]
    /\ draining \in BOOLEAN /\ scopes \in BOOLEAN
    /\ drain \in [pc : {"idle", "dispose", "wait", "done"}, roots : SUBSET Txns]
    /\ used \in [deliveries : 0..MaxDeliveries, others : 0..MaxOthers, stopped : BOOLEAN]
    /\ stolen \in SUBSET Children /\ dropped \in SUBSET Children

Init ==
    /\ act = [c \in Children |-> NoActivation]
    /\ agent = [c \in Children |-> NoAgent]
    /\ late = [c \in Children |-> NoLate]
    /\ lock = [c \in Children |-> NoCaller]
    /\ call = [k \in Callers |-> NoCall]
    /\ draining = FALSE /\ scopes = FALSE
    /\ drain = [pc |-> "idle", roots |-> {}]
    /\ used = [deliveries |-> 0, others |-> 0, stopped |-> FALSE]
    /\ stolen = {} /\ dropped = {}

-----------------------------------------------------------------------------
(* What the actions ask of the state.                                      *)

\* assertAdmitting: every lineage of this forest leads to Root.
Admitting == ~draining /\ ~scopes

Registered(a) == a \in {Root} \cup {c \in Children : agent[c].live}

\* The agents in whose turn a tool call can be made.
Running == {Root} \cup {c \in Children : agent[c].running}

Closing(c) == act[c].here /\ act[c].disposal # "none"

\* A transaction is open until its channel is closed.
TxnOpen(t) ==
    \/ act[t[1]].gen = t[2] /\ Closing(t[1])
    \/ late[t[1]].gen = t[2] /\ late[t[1]].pc # "none"

\* Whose turn a call belongs to: a report comes from the child itself.
Issuer(k) == IF call[k].pc = "report" THEN call[k].child ELSE Parent[call[k].child]

InCall(a) == \E k \in Callers : call[k].pc # "idle" /\ Issuer(k) = a

\* mutant: accepted messages do not count
QuietByStatus(c) == act[c].owned = {}

\* stateOf: nothing accepted and no owned child.  It also asks the agent's status,
\* which is idle whether the agent runs or not: the loop commits its phase before
\* setPhaseLocked compares it with the old one, so SetStatus is never called.
Settled(c) == act[c].accepted = 0 /\ act[c].owned = {}

-----------------------------------------------------------------------------
(* The agent.                                                              *)

\* An idle agent starts running at once, one that was aborted latches the wake.
Woken(ag) == [ag EXCEPT !.pending = @ + 1, !.running = TRUE,
                        !.latched = IF ag.aborted THEN TRUE ELSE ag.latched]

\* Followup and Steer queue a message on the agent of one epoch.  A message for an
\* agent that was released reaches nobody.
SentTo(c, gen) ==
    IF agent[c].live /\ act[c].gen = gen THEN [agent EXCEPT ![c] = Woken(@)] ELSE agent

\* Cancel without KeepInbox discards the inbox.
Cancelled(ag) == [ag EXCEPT !.pending = 0, !.aborted = ag.running, !.latched = FALSE]

\* watchInbox clears an accepted id when the message leaves the inbox; it listens
\* from the moment the epoch is published.
Left(a, n) == [a EXCEPT !.accepted = IF a.published THEN @ - n ELSE @]

AgentClaims(c) ==
    /\ agent[c].running /\ ~agent[c].aborted /\ agent[c].pending > 0
    /\ agent' = [agent EXCEPT ![c].pending = @ - 1]
    /\ act' = [act EXCEPT ![c] = Left(@, 1)]
    /\ UNCHANGED <<late, lock, call, draining, scopes, drain, used, stolen, dropped>>

\* A run ends with its tool calls, when its inbox is empty or it was aborted.
AgentRests(c) ==
    /\ agent[c].running /\ (agent[c].pending = 0 \/ agent[c].aborted) /\ ~InCall(c)
    /\ agent' = [agent EXCEPT ![c].running = FALSE, ![c].aborted = FALSE]
    /\ UNCHANGED <<act, late, lock, call, draining, scopes, drain, used, stolen, dropped>>

\* The latched wake is replayed after the run has gone idle.
AgentReplays(c) ==
    /\ agent[c].live /\ ~agent[c].running /\ agent[c].latched
    /\ agent' = [agent EXCEPT ![c].latched = FALSE, ![c].running = agent[c].pending > 0]
    /\ UNCHANGED <<act, late, lock, call, draining, scopes, drain, used, stolen, dropped>>

\* Interrupt: the turn stops, the inbox stays.
Interrupt(c) ==
    /\ used.others < MaxOthers /\ used' = [used EXCEPT !.others = @ + 1]
    /\ act[c].here /\ ~Closing(c) /\ agent[c].running
    /\ agent' = [agent EXCEPT ![c].aborted = TRUE]
    /\ UNCHANGED <<act, late, lock, call, draining, scopes, drain, stolen, dropped>>

-----------------------------------------------------------------------------
(* Disposal.                                                               *)

\* disposeLocked on a set of children: the first opening wins.
Opened(acts, S) ==
    [c \in Children |-> IF c \in S /\ acts[c].here /\ acts[c].disposal = "none"
                        THEN [acts[c] EXCEPT !.disposal = "stop"] ELSE acts[c]]

\* watchSettlement looks again inside the child's lock.
WatcherSettles(c) ==
    /\ act[c].here /\ act[c].published /\ ~Closing(c)
    /\ lock[c] = NoCaller /\ Settled(c)
    /\ act' = [Opened(act, {c}) EXCEPT ![c].settled = TRUE]
    /\ UNCHANGED <<agent, late, lock, call, draining, scopes, drain, used, stolen, dropped>>

\* finishDisposal stops the agent and opens the transactions of its owned
\* children.  No child can join the owned set any more.
DisposalStops(c) ==
    LET kids == {d \in act[c].owned : act[d].here} IN
    /\ act[c].disposal = "stop"
    /\ act' = [Opened(act, kids) EXCEPT
                  ![c] = [Left(@, agent[c].pending) EXCEPT
                             !.disposal = "kids", !.kids = {<<d, act[d].gen>> : d \in kids}]]
    /\ agent' = [agent EXCEPT ![c] = Cancelled(@)]
    /\ dropped' = IF act[c].settled /\ agent[c].pending > 0 THEN dropped \cup {c} ELSE dropped
    /\ UNCHANGED <<late, lock, call, draining, scopes, drain, used, stolen>>

\* mutant: the handle is disposed while owned children are still closing
KidsUnawaited(c) == TRUE

KidsReleased(c) == \A t \in act[c].kids : ~TxnOpen(t)

\* The children are released and the run that was stopped is over: Handle.Dispose
\* cancels again, also a run that a late notice has started since.
DisposalQuiesces(c) ==
    /\ act[c].disposal = "kids" /\ KidsReleased(c) /\ ~agent[c].aborted
    /\ act' = [act EXCEPT ![c] = [Left(@, agent[c].pending) EXCEPT
                                     !.disposal = "handle", !.kids = {}]]
    /\ agent' = [agent EXCEPT ![c] = Cancelled(@)]
    /\ dropped' = IF act[c].settled /\ agent[c].pending > 0 THEN dropped \cup {c} ELSE dropped
    /\ UNCHANGED <<late, lock, call, draining, scopes, drain, used, stolen>>

\* Handle.Dispose waits for the agent to be idle and unregisters it.
HandleDisposed(c) ==
    /\ act[c].disposal = "handle" /\ ~agent[c].running
    /\ agent' = [agent EXCEPT ![c] = NoAgent]
    /\ act' = [act EXCEPT ![c].disposal = "delete"]
    /\ UNCHANGED <<late, lock, call, draining, scopes, drain, used, stolen, dropped>>

\* mutant: ownership is released before the parent is told
ReleasedUntold(c) ==
    /\ act[c].disposal = "delete" /\ late[c].pc = "none"
    /\ act' = [d \in Children |->
                 IF d = c THEN [NoActivation EXCEPT !.gen = act[c].gen]
                 ELSE [act[d] EXCEPT !.owned = @ \ {c}]]
    /\ late' = [late EXCEPT ![c] = [NoLate EXCEPT
                    !.pc = IF act[c].published THEN "notify" ELSE "disown",
                    !.gen = act[c].gen, !.announced = act[c].announced]]
    /\ UNCHANGED <<agent, lock, call, draining, scopes, drain, used, stolen, dropped>>

\* The Activation leaves the map; a delivery may create the next one from here on.
\* Bound: one transaction of a child at a time is past this point.
ActivationDeleted(c) ==
    /\ act[c].disposal = "delete" /\ late[c].pc = "none"
    /\ act' = [act EXCEPT ![c] = [NoActivation EXCEPT !.gen = act[c].gen]]
    /\ late' = [late EXCEPT ![c] = [NoLate EXCEPT
                    !.pc = IF act[c].published THEN "notify" ELSE "disown",
                    !.gen = act[c].gen, !.announced = act[c].announced]]
    /\ UNCHANGED <<agent, lock, call, draining, scopes, drain, used, stolen, dropped>>

\* notifySettlement: a live parent is told; a closing forest only gets an injected
\* message, which wakes nobody.
LateNotifies(c) ==
    LET p == Parent[c] IN
    /\ late[c].pc = "notify"
    /\ IF late[c].announced /\ Registered(p) /\ Admitting /\ p # Root
       THEN /\ act' = [act EXCEPT ![p].accepted = @ + 1]
            /\ late' = [late EXCEPT ![c].pc = "send", ![c].to = act[p].gen]
       ELSE /\ late' = [late EXCEPT ![c].pc = "disown"]
            /\ UNCHANGED act
    /\ UNCHANGED <<agent, lock, call, draining, scopes, drain, used, stolen, dropped>>

LateSends(c) ==
    /\ late[c].pc = "send"
    /\ agent' = SentTo(Parent[c], late[c].to)
    /\ late' = [late EXCEPT ![c].pc = "disown", ![c].to = 0]
    /\ UNCHANGED <<act, lock, call, draining, scopes, drain, used, stolen, dropped>>

\* mutant: a released child keeps its place in the owned set
OwnershipKept(c) ==
    /\ late[c].pc = "disown"
    /\ late' = [late EXCEPT ![c] = NoLate]
    /\ UNCHANGED <<act, agent, lock, call, draining, scopes, drain, used, stolen, dropped>>

\* releaseOwnership takes the id out of every owned set, then the transaction is over.
LateDisowns(c) ==
    /\ late[c].pc = "disown"
    /\ act' = [d \in Children |-> [act[d] EXCEPT !.owned = @ \ {c}]]
    /\ late' = [late EXCEPT ![c] = NoLate]
    /\ stolen' = IF act[c].here /\ \E d \in Children : c \in act[d].owned
                 THEN stolen \cup {c} ELSE stolen
    /\ UNCHANGED <<agent, lock, call, draining, scopes, drain, used, dropped>>

-----------------------------------------------------------------------------
(* Deliveries: StartContinuable and Followup.                              *)

Return(k) ==
    /\ call' = [call EXCEPT ![k] = NoCall]
    /\ lock' = [lock EXCEPT ![call[k].child] = NoCaller]

\* The Activation the delivery holds is still in the map.
Current(k) == act[call[k].child].here /\ act[call[k].child].gen = call[k].gen

Goto(k, pc) == call' = [call EXCEPT ![k].pc = pc]

DeliveryBegins(k, c) ==
    /\ call[k].pc = "idle" /\ used.deliveries < MaxDeliveries
    /\ Parent[c] \in Running
    /\ Admitting
    /\ call' = [call EXCEPT ![k] = [NoCall EXCEPT !.pc = "lock", !.child = c]]
    /\ used' = [used EXCEPT !.deliveries = @ + 1]
    /\ UNCHANGED <<act, agent, late, lock, draining, scopes, drain, stolen, dropped>>

\* mutant: an Activation that is closing counts as absent
LooksPastClosing(k) ==
    LET c == call[k].child IN
    /\ call[k].pc = "lock" /\ lock[c] = NoCaller
    /\ lock' = [lock EXCEPT ![c] = k]
    /\ call' = [call EXCEPT ![k].gen = act[c].gen,
                    ![k].pc = IF ~act[c].here \/ Closing(c) THEN "create" ELSE "admit"]
    /\ UNCHANGED <<act, agent, late, draining, scopes, drain, used, stolen, dropped>>

\* Inside the child's lock, routing depends on residency: absent creates or
\* cold-resumes, closing waits for release, resident submits.
DeliveryLooks(k) ==
    LET c == call[k].child IN
    /\ call[k].pc = "lock" /\ lock[c] = NoCaller
    /\ lock' = [lock EXCEPT ![c] = k]
    /\ call' = [call EXCEPT ![k].gen = act[c].gen,
                    ![k].pc = IF ~act[c].here THEN "create"
                              ELSE IF Closing(c) THEN "retry" ELSE "admit"]
    /\ UNCHANGED <<act, agent, late, draining, scopes, drain, used, stolen, dropped>>

\* After release the lock is let go and the delivery starts over, unless admission
\* has closed or the caller's signal is aborted by now.
DeliveryRetries(k) ==
    LET c == call[k].child IN
    /\ call[k].pc = "retry" /\ ~TxnOpen(<<c, call[k].gen>>)
    /\ lock' = [lock EXCEPT ![c] = NoCaller]
    /\ \E aborted \in BOOLEAN :
          call' = [call EXCEPT ![k] = IF Admitting /\ ~aborted
                                     THEN [NoCall EXCEPT !.pc = "lock", !.child = c]
                                     ELSE NoCall]
    /\ UNCHANGED <<act, agent, late, draining, scopes, drain, used, stolen, dropped>>

\* Admission and lineage are asserted, then the agent is built without any lock
\* that a drain would wait for.
DeliveryBuilds(k) ==
    /\ call[k].pc = "create"
    /\ IF Admitting /\ Registered(Parent[call[k].child])
       THEN Goto(k, "build") /\ UNCHANGED lock
       ELSE Return(k)
    /\ UNCHANGED <<act, agent, late, draining, scopes, drain, used, stolen, dropped>>

\* Preparation, observation or the agent factory refuses.
CreationFails(k) ==
    /\ call[k].pc = "build"
    /\ Return(k)
    /\ UNCHANGED <<act, agent, late, draining, scopes, drain, used, stolen, dropped>>

\* The factory registers the agent and the Activation enters the map.
CreationSucceeds(k) ==
    LET c == call[k].child IN
    /\ call[k].pc = "build"
    /\ act' = [act EXCEPT ![c] = [NoActivation EXCEPT !.here = TRUE, !.gen = act[c].gen + 1]]
    /\ agent' = [agent EXCEPT ![c] = [NoAgent EXCEPT !.live = TRUE]]
    /\ call' = [call EXCEPT ![k].pc = "own", ![k].gen = act[c].gen + 1, ![k].fresh = TRUE]
    /\ UNCHANGED <<late, lock, draining, scopes, drain, used, stolen, dropped>>

\* acquireOwnership refuses under a parent whose disposal is open.
MayOwn(c) == Parent[c] \notin {p \in Children : Closing(p)}

Owned(c) ==
    IF Parent[c] # Root /\ act[Parent[c]].here
    THEN [act EXCEPT ![Parent[c]].owned = @ \cup {c}] ELSE act

\* rollbackUnpublished: a transaction that was opened meanwhile is kept.
Unpublished(k) ==
    /\ act' = IF Current(k) /\ ~Closing(call[k].child)
              THEN [act EXCEPT ![call[k].child].disposal = "handle"] ELSE act
    /\ Goto(k, "rollback")

\* mutant: admission is not asserted again once the child exists
OwnsUnasserted(k) ==
    LET c == call[k].child IN
    /\ call[k].pc = "own"
    /\ IF MayOwn(c)
       THEN act' = [Owned(c) EXCEPT ![c].published = Current(k)] /\ Goto(k, "admit")
       ELSE Unpublished(k)
    /\ UNCHANGED <<agent, late, lock, draining, scopes, drain, used, stolen, dropped>>

\* materializeTracked: ownership and the start edge, or rollbackUnpublished.
DeliveryOwns(k) ==
    LET c == call[k].child IN
    /\ call[k].pc = "own"
    /\ IF Admitting /\ MayOwn(c)
       THEN act' = [Owned(c) EXCEPT ![c].published = Current(k)] /\ Goto(k, "admit")
       ELSE Unpublished(k)
    /\ UNCHANGED <<agent, late, lock, draining, scopes, drain, used, stolen, dropped>>

\* The caller's signal was aborted while the agent was being built.
CreationAborted(k) ==
    /\ call[k].pc = "own"
    /\ Unpublished(k)
    /\ UNCHANGED <<agent, late, lock, draining, scopes, drain, used, stolen, dropped>>

\* A delivery that fails disposes the Activation it has just created.
Refused(k) ==
    IF call[k].fresh
    THEN act' = Opened(act, {call[k].child}) /\ Goto(k, "rollback") /\ UNCHANGED lock
    ELSE Return(k) /\ UNCHANGED act

DeliveryRolledBack(k) ==
    /\ call[k].pc = "rollback" /\ ~TxnOpen(<<call[k].child, call[k].gen>>)
    /\ Return(k)
    /\ UNCHANGED <<act, agent, late, draining, scopes, drain, used, stolen, dropped>>

\* submitAdmitted: the admission cutoff.
DeliveryAdmits(k) ==
    LET c == call[k].child IN
    /\ call[k].pc = "admit"
    /\ IF Admitting /\ act[c].here /\ ~Closing(c) /\ Registered(Parent[c])
       THEN Goto(k, "accept") /\ UNCHANGED <<act, lock>>
       ELSE Refused(k)
    /\ UNCHANGED <<agent, late, draining, scopes, drain, used, stolen, dropped>>

\* The caller's signal is aborted, or the content does not suit the child's model.
DeliveryUnsuited(k) ==
    /\ call[k].pc = "admit"
    /\ Refused(k)
    /\ UNCHANGED <<agent, late, draining, scopes, drain, used, stolen, dropped>>

\* submit: ownership again, in a section of its own.
DeliveryAccepts(k) ==
    LET c == call[k].child IN
    /\ call[k].pc = "accept"
    /\ IF MayOwn(c)
       THEN act' = Owned(c) /\ Goto(k, "send") /\ UNCHANGED lock
       ELSE Refused(k)
    /\ UNCHANGED <<agent, late, draining, scopes, drain, used, stolen, dropped>>

\* admitWaking counts the message, then sends it: the watcher, which alone reads
\* the count, is kept out by the child's lock.
DeliverySends(k) ==
    /\ call[k].pc = "send"
    /\ act' = IF Current(k) THEN [act EXCEPT ![call[k].child].accepted = @ + 1] ELSE act
    /\ agent' = SentTo(call[k].child, call[k].gen)
    /\ Goto(k, "announce")
    /\ UNCHANGED <<late, lock, draining, scopes, drain, used, stolen, dropped>>

\* The caller has an id: the parent is owed an account from here on.
DeliveryAnnounces(k) ==
    LET c == call[k].child IN
    /\ call[k].pc = "announce"
    /\ act' = IF Current(k) THEN [act EXCEPT ![c].announced = TRUE] ELSE act
    /\ late' = IF late[c].pc # "none" /\ late[c].gen = call[k].gen
               THEN [late EXCEPT ![c].announced = TRUE] ELSE late
    /\ Return(k)
    /\ UNCHANGED <<agent, draining, scopes, drain, used, stolen, dropped>>

-----------------------------------------------------------------------------
(* ReportFrom: a running child sends its parent a message that wakes it.    *)

ReportCounts(k, c) ==
    LET p == Parent[c] IN
    /\ call[k].pc = "idle" /\ used.others < MaxOthers
    /\ agent[c].running /\ Admitting /\ act[c].here /\ ~Closing(c)
    /\ p # Root /\ agent[p].live
    /\ act' = [act EXCEPT ![p].accepted = @ + 1]
    /\ call' = [call EXCEPT ![k] = [NoCall EXCEPT !.pc = "report", !.child = c,
                                                 !.gen = act[p].gen]]
    /\ used' = [used EXCEPT !.others = @ + 1]
    /\ UNCHANGED <<agent, late, lock, draining, scopes, drain, stolen, dropped>>

ReportSends(k) ==
    /\ call[k].pc = "report"
    /\ agent' = SentTo(Parent[call[k].child], call[k].gen)
    /\ call' = [call EXCEPT ![k] = NoCall]
    /\ UNCHANGED <<act, late, lock, draining, scopes, drain, used, stolen, dropped>>

-----------------------------------------------------------------------------
(* Host teardown.                                                          *)

\* Drain closes admission and picks the Activations nobody owns.  The set of
\* materializations it then awaits is never filled.
DrainBegins ==
    /\ drain.pc = "idle" /\ used.others < MaxOthers
    /\ used' = [used EXCEPT !.others = @ + 1]
    /\ draining' = TRUE
    /\ drain' = [pc |-> "dispose",
                 roots |-> {<<c, act[c].gen>> :
                              c \in {d \in Children : act[d].here /\ \A e \in Children :
                                                        act[e].here => d \notin act[e].owned}}]
    /\ UNCHANGED <<act, agent, late, lock, call, scopes, stolen, dropped>>

DrainDisposes ==
    /\ drain.pc = "dispose"
    /\ act' = Opened(act, {c \in Children : <<c, act[c].gen>> \in drain.roots})
    /\ drain' = [drain EXCEPT !.pc = "wait"]
    /\ UNCHANGED <<agent, late, lock, call, draining, scopes, used, stolen, dropped>>

DrainEnds ==
    /\ drain.pc = "wait" /\ \A t \in drain.roots : ~TxnOpen(t)
    /\ drain' = [pc |-> "done", roots |-> {}]
    /\ UNCHANGED <<act, agent, late, lock, call, draining, scopes, used, stolen, dropped>>

\* DrainDescendants of Root: without a resident descendant it closes nothing.
DrainDescendants ==
    /\ ~scopes /\ used.others < MaxOthers /\ \E c \in Children : act[c].here
    /\ used' = [used EXCEPT !.others = @ + 1]
    /\ scopes' = TRUE
    /\ act' = Opened(act, Children)
    /\ UNCHANGED <<agent, late, lock, call, draining, drain, stolen, dropped>>

\* DrainChildren: admission stays open.
DrainChildren(c) ==
    /\ used.others < MaxOthers
    /\ used' = [used EXCEPT !.others = @ + 1, !.stopped = TRUE]
    /\ act[c].here /\ ~Closing(c) /\ Registered(Parent[c])
    /\ act' = Opened(act, {c})
    /\ UNCHANGED <<agent, late, lock, call, draining, scopes, drain, stolen, dropped>>

-----------------------------------------------------------------------------
AgentStep(c) == AgentClaims(c) \/ AgentRests(c) \/ AgentReplays(c)

DisposalStep(c) ==
    \/ DisposalStops(c) \/ DisposalQuiesces(c) \/ HandleDisposed(c) \/ ActivationDeleted(c)

LateStep(c) == LateNotifies(c) \/ LateSends(c) \/ LateDisowns(c)

DeliveryStep(k) ==
    \/ DeliveryLooks(k) \/ DeliveryRetries(k)
    \/ DeliveryBuilds(k) \/ CreationFails(k) \/ CreationSucceeds(k) \/ DeliveryOwns(k)
    \/ CreationAborted(k) \/ DeliveryRolledBack(k)
    \/ DeliveryAdmits(k) \/ DeliveryUnsuited(k) \/ DeliveryAccepts(k) \/ DeliverySends(k)
    \/ DeliveryAnnounces(k) \/ ReportSends(k)

DrainStep == DrainDisposes \/ DrainEnds

Next ==
    \/ \E c \in Children :
          \/ AgentStep(c) \/ Interrupt(c) \/ WatcherSettles(c) \/ DisposalStep(c) \/ LateStep(c)
          \/ DrainChildren(c)
          \/ \E k \in Callers : DeliveryBegins(k, c) \/ ReportCounts(k, c)
    \/ \E k \in Callers : DeliveryStep(k)
    \/ DrainBegins \/ DrainStep \/ DrainDescendants

Spec == Init /\ [][Next]_vars

\* Goroutines run, a run of an agent ends, and the child lock is granted in order.
FairSpec ==
    /\ Spec
    /\ \A c \in Children : /\ WF_vars(AgentStep(c)) /\ WF_vars(WatcherSettles(c))
                          /\ WF_vars(DisposalStep(c)) /\ WF_vars(LateStep(c))
    /\ \A k \in Callers : SF_vars(DeliveryStep(k))
    /\ WF_vars(DrainStep)

-----------------------------------------------------------------------------
(* Properties.                                                             *)

\* Neither has an older epoch released the ownership of a newer one, nor was
\* DrainChildren called.  (Otherwise a notice of an older child may wake a parent that
\* is still being created, which takes a child and is rolled back under it.)
Undisturbed == stolen = {} /\ ~used.stopped

\* "that parent cannot settle while the child is live" (acquireOwnership): a child
\* that was published under a continuable parent has that parent resident, through
\* settlement, teardown and rollback.
ParentOutlivesChild ==
    Undisturbed => \A c \in Children :
        act[c].here /\ act[c].published /\ Parent[c] # Root => act[Parent[c]].here

\* "Deliver BEFORE releasing ownership, while the parent still counts this child and
\* therefore cannot be judged settled": while a settled child has its notice to
\* deliver, its parent does not settle.
NoticeBeforeSettlement ==
    Undisturbed => \A c \in Children :
        late[c].pc \in {"notify", "send"} /\ late[c].announced /\ Parent[c] # Root
            => ~act[Parent[c]].settled

\* "wait for Agent quiescence, then for every owned child to complete disposal"
\* (watchSettlement): a child is not judged settled in the middle of a turn.
SettlesAtRest ==
    \A c \in Children : act[c].settled /\ act[c].disposal = "stop" => ~agent[c].running

\* "settlement must not treat that gap as quiet": a child that settles by itself
\* discards no message that was accepted for it.
SettlesQuiet == Undisturbed => dropped = {}

\* "wait for release rather than cold-resume into the still-registered agent": a
\* delivery that creates an agent finds none registered under that id.
ResumesIntoNone ==
    \A k \in Callers : call[k].pc = "build" => ~agent[call[k].child].live

\* After Drain has returned, whatever is resident is being released: a delivery
\* admitted before it is rolled back or disposed, also when ownership moved.
DrainedForest ==
    Undisturbed /\ drain.pc = "done" =>
        \A c \in Children :
            act[c].here => Closing(c) \/ (lock[c] # NoCaller /\ call[lock[c]].pc = "own")

\* Work that an interrupt left in the inbox, and that nothing will wake the agent for.
Parked(c) == agent[c].pending > 0 /\ ~agent[c].running /\ ~agent[c].latched

\* "a retained child would permanently pin its ancestors" (finishDisposal): every
\* Activation is released in the end, child before parent, unless an interrupt left
\* work parked in an inbox: a count of accepted messages that outlives the messages
\* is no excuse.  (DrainChildren can cross a delivery that then acquires ownership
\* of a child already released, and pins the parent.)
Released ==
    \A c \in Children :
        []<>~act[c].here \/ <>[](\E d \in Children : Parked(d)) \/ <>used.stopped
=============================================================================
