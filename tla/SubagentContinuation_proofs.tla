---------------------- MODULE SubagentContinuation_proofs ----------------------
(***************************************************************************)
(* Machine-checked proofs about SubagentContinuation, for every forest of  *)
(* children and every number of callers, deliveries and teardowns.         *)
(***************************************************************************)
EXTENDS SubagentContinuation, FiniteSetTheorems, TLAPS

-----------------------------------------------------------------------------
(* Shape.                                                                  *)

\* The shape of the state the proofs need: unlike TypeOK it bounds neither epochs
\* nor counters.
ActRec == [here : BOOLEAN, gen : Nat, published : BOOLEAN, announced : BOOLEAN,
           disposal : DisposalPcs, settled : BOOLEAN, kids : SUBSET (Children \X Nat),
           owned : SUBSET Children, accepted : Int]
AgentRec == [live : BOOLEAN, running : BOOLEAN, aborted : BOOLEAN, latched : BOOLEAN,
             pending : Nat]
LateRec == [pc : LatePcs, gen : Nat, announced : BOOLEAN, to : Nat]
CallRec == [pc : CallPcs, child : Children \cup {Root}, gen : Nat, fresh : BOOLEAN]
DrainRec == [pc : {"idle", "dispose", "wait", "done"}, roots : SUBSET (Children \X Nat)]
UsedRec == [deliveries : Nat, others : Nat, stopped : BOOLEAN]

Shape ==
    /\ act \in [Children -> ActRec]
    /\ agent \in [Children -> AgentRec]
    /\ late \in [Children -> LateRec]
    /\ lock \in [Children -> Callers \cup {NoCaller}]
    /\ call \in [Callers -> CallRec]
    /\ draining \in BOOLEAN /\ scopes \in BOOLEAN
    /\ drain \in DrainRec
    /\ used \in UsedRec
    /\ stolen \in SUBSET Children /\ dropped \in SUBSET Children

\* A parent is a child itself or Root.
LEMMA ParentType == \A c \in Children : Parent[c] \in Children \/ Parent[c] = Root
BY TreeAssumption

\* Opening transactions keeps the shape.
LEMMA OpenedShape ==
    ASSUME NEW a \in [Children -> ActRec], NEW S
    PROVE  Opened(a, S) \in [Children -> ActRec]
BY DEF Opened, ActRec, DisposalPcs

\* Waking keeps the shape.
LEMMA WokenShape ==
    ASSUME NEW g \in AgentRec
    PROVE  /\ Woken(g) \in AgentRec
           /\ Woken(g).pending = g.pending + 1 /\ Woken(g).running = TRUE
           /\ Woken(g).live = g.live
<1> DEFINE b == IF g.aborted THEN TRUE ELSE g.latched
<1>1. b \in BOOLEAN
  <2>1. CASE g.aborted = TRUE  BY <2>1
  <2>2. CASE g.aborted = FALSE  BY <2>2 DEF AgentRec
  <2>3. g.aborted \in BOOLEAN  BY DEF AgentRec
  <2> QED  BY <2>1, <2>2, <2>3
<1>2. Woken(g) = [g EXCEPT !.pending = @ + 1, !.running = TRUE, !.latched = b]  BY DEF Woken
<1> HIDE DEF b
<1>3. g.pending + 1 \in Nat  BY DEF AgentRec
<1>4. Woken(g) \in AgentRec  BY <1>1, <1>2, <1>3 DEF AgentRec
<1>5. Woken(g).pending = g.pending + 1 /\ Woken(g).live = g.live  BY <1>2 DEF AgentRec
<1>6. Woken(g).running = TRUE  BY <1>2 DEF AgentRec
<1> QED  BY <1>4, <1>5, <1>6

\* Sending keeps the shape.
LEMMA SentShape ==
    ASSUME agent \in [Children -> AgentRec], NEW c, NEW g
    PROVE  SentTo(c, g) \in [Children -> AgentRec]
<1>1. \A d \in Children : Woken(agent[d]) \in AgentRec  BY WokenShape
<1> QED  BY <1>1 DEF SentTo

\* Cancelling keeps the shape.
LEMMA CancelledShape ==
    ASSUME NEW g \in AgentRec  PROVE Cancelled(g) \in AgentRec
BY DEF Cancelled, AgentRec

\* Clearing accepted ids keeps the shape.
LEMMA LeftShape ==
    ASSUME NEW a \in ActRec, NEW n \in Nat  PROVE Left(a, n) \in ActRec
BY DEF Left, ActRec

\* Taking ownership keeps the shape.
LEMMA OwnedShape ==
    ASSUME act \in [Children -> ActRec], NEW c \in Children
    PROVE  Owned(c) \in [Children -> ActRec]
BY ParentType DEF Owned, ActRec

\* The records the actions store are of the right kind.
LEMMA EmptyShapes ==
    /\ NoActivation \in ActRec /\ NoAgent \in AgentRec /\ NoLate \in LateRec
    /\ NoCall \in CallRec
BY DEF NoActivation, NoAgent, NoLate, NoCall, ActRec, AgentRec, LateRec, CallRec,
       DisposalPcs, LatePcs, CallPcs

\* Writing one field of an Activation keeps the shape.
LEMMA FieldShape ==
    ASSUME NEW a \in [Children -> ActRec], NEW c \in Children
    PROVE  /\ \A b \in BOOLEAN : [a EXCEPT ![c].settled = b] \in [Children -> ActRec]
           /\ \A b \in BOOLEAN : [a EXCEPT ![c].published = b] \in [Children -> ActRec]
           /\ \A b \in BOOLEAN : [a EXCEPT ![c].announced = b] \in [Children -> ActRec]
           /\ \A p \in DisposalPcs : [a EXCEPT ![c].disposal = p] \in [Children -> ActRec]
           /\ [a EXCEPT ![c].accepted = @ + 1] \in [Children -> ActRec]
<1>1. a[c] \in ActRec  OBVIOUS
<1>2. /\ \A b \in BOOLEAN : [a[c] EXCEPT !.settled = b] \in ActRec
      /\ \A b \in BOOLEAN : [a[c] EXCEPT !.published = b] \in ActRec
      /\ \A b \in BOOLEAN : [a[c] EXCEPT !.announced = b] \in ActRec
  BY <1>1 DEF ActRec
<1>3. \A p \in DisposalPcs : [a[c] EXCEPT !.disposal = p] \in ActRec  BY <1>1 DEF ActRec
<1>4. [a[c] EXCEPT !.accepted = @ + 1] \in ActRec  BY <1>1 DEF ActRec
<1> QED  BY <1>2, <1>3, <1>4

\* Every step keeps the shape: the agents' own steps.
LEMMA ShapeAgent ==
    ASSUME Shape, NEW c \in Children, AgentStep(c) \/ Interrupt(c) \/ WatcherSettles(c)
    PROVE  Shape'
<1> USE DEF Shape
<1>1. CASE AgentClaims(c)
  <2>1. act[c] \in ActRec /\ 1 \in Nat  OBVIOUS
  <2>2. act' \in [Children -> ActRec]  BY <1>1, <2>1, LeftShape DEF AgentClaims
  <2>3. agent' \in [Children -> AgentRec]  BY <1>1 DEF AgentClaims, AgentRec
  <2> QED  BY <1>1, <2>2, <2>3 DEF AgentClaims
<1>2. CASE AgentRests(c)
  <2>1. agent' \in [Children -> AgentRec]  BY <1>2, ZenonT(60) DEF AgentRests, AgentRec
  <2> QED  BY <1>2, <2>1 DEF AgentRests
<1>3. CASE AgentReplays(c)
  <2>1. (agent[c].pending > 0) \in BOOLEAN  OBVIOUS
  <2>2. \A b \in BOOLEAN : [agent EXCEPT ![c].latched = FALSE, ![c].running = b]
                            \in [Children -> AgentRec]
    BY ZenonT(60) DEF AgentRec
  <2>3. agent' \in [Children -> AgentRec]  BY <1>3, <2>1, <2>2, Zenon DEF AgentReplays
  <2> QED  BY <1>3, <2>3 DEF AgentReplays
<1>4. CASE Interrupt(c)
  <2>1. agent' \in [Children -> AgentRec]  BY <1>4 DEF Interrupt, AgentRec
  <2>2. used' \in UsedRec  BY <1>4 DEF Interrupt, UsedRec
  <2> QED  BY <1>4, <2>1, <2>2 DEF Interrupt
<1>5. CASE WatcherSettles(c)
  <2> DEFINE a == Opened(act, {c})
  <2>1. a \in [Children -> ActRec]  BY OpenedShape
  <2>2. act' = [a EXCEPT ![c].settled = TRUE]  BY <1>5 DEF WatcherSettles
  <2> HIDE DEF a
  <2>3. act' \in [Children -> ActRec]  BY <2>1, <2>2, FieldShape
  <2> QED  BY <1>5, <2>3 DEF WatcherSettles
<1> QED  BY <1>1, <1>2, <1>3, <1>4, <1>5 DEF AgentStep

\* ... the steps of a disposal ...
LEMMA ShapeDisposal ==
    ASSUME Shape, NEW c \in Children, DisposalStep(c)  PROVE Shape'
<1> USE DEF Shape
<1>0. act[c] \in ActRec /\ agent[c] \in AgentRec /\ agent[c].pending \in Nat
  BY DEF AgentRec
<1>1. CASE DisposalStops(c)
  <2> DEFINE kids == {d \in act[c].owned : act[d].here}
             a == Opened(act, kids)
             r == [Left(a[c], agent[c].pending) EXCEPT
                      !.disposal = "kids", !.kids = {<<d, act[d].gen>> : d \in kids}]
  <2>1. a \in [Children -> ActRec]  BY OpenedShape
  <2>2. act' = [a EXCEPT ![c] = r]  BY <1>1, <2>1 DEF DisposalStops
  <2>3. {<<d, act[d].gen>> : d \in kids} \in SUBSET (Children \X Nat)  BY DEF ActRec
  <2>4. agent' \in [Children -> AgentRec]  BY <1>0, <1>1, CancelledShape DEF DisposalStops
  <2>5. dropped' \in SUBSET Children  BY <1>1 DEF DisposalStops
  <2>6. a[c] \in ActRec  BY <2>1
  <2> HIDE DEF a
  <2>7. Left(a[c], agent[c].pending) \in ActRec  BY <1>0, <2>6, LeftShape
  <2> HIDE DEF kids
  <2>8. r \in ActRec  BY <2>3, <2>7 DEF ActRec, DisposalPcs
  <2> HIDE DEF r
  <2>9. act' \in [Children -> ActRec]  BY <2>1, <2>2, <2>8
  <2> QED  BY <1>1, <2>4, <2>5, <2>9 DEF DisposalStops
<1>2. CASE DisposalQuiesces(c)
  <2>1. Left(act[c], agent[c].pending) \in ActRec  BY <1>0, LeftShape
  <2>2. act' \in [Children -> ActRec]
    BY <1>2, <2>1 DEF DisposalQuiesces, ActRec, DisposalPcs
  <2>3. agent' \in [Children -> AgentRec]  BY <1>0, <1>2, CancelledShape DEF DisposalQuiesces
  <2>4. dropped' \in SUBSET Children  BY <1>2 DEF DisposalQuiesces
  <2> QED  BY <1>2, <2>2, <2>3, <2>4 DEF DisposalQuiesces
<1>3. CASE HandleDisposed(c)
  <2>0. "delete" \in DisposalPcs  BY DEF DisposalPcs
  <2>1. act' \in [Children -> ActRec]  BY <1>3, <2>0, FieldShape DEF HandleDisposed
  <2>2. agent' \in [Children -> AgentRec]  BY <1>3, EmptyShapes DEF HandleDisposed
  <2> QED  BY <1>3, <2>1, <2>2 DEF HandleDisposed
<1>4. CASE ActivationDeleted(c)
  <2>1. act' \in [Children -> ActRec]
    BY <1>0, <1>4, EmptyShapes DEF ActivationDeleted, ActRec
  <2>2. late' \in [Children -> LateRec]
    BY <1>0, <1>4, EmptyShapes DEF ActivationDeleted, ActRec, LateRec, LatePcs
  <2> QED  BY <1>4, <2>1, <2>2 DEF ActivationDeleted
<1> QED  BY <1>1, <1>2, <1>3, <1>4 DEF DisposalStep

\* ... the steps of a transaction past it ...
LEMMA ShapeLate ==
    ASSUME Shape, NEW c \in Children, LateStep(c)  PROVE Shape'
<1> USE DEF Shape
<1>1. CASE LateNotifies(c)
  <2>1. act' \in [Children -> ActRec]  BY <1>1, ParentType, FieldShape, SMTT(30) DEF LateNotifies
  <2>2. late' \in [Children -> LateRec]
    <3>1. CASE Parent[c] # Root
      <4>1. act[Parent[c]].gen \in Nat  BY <3>1, ParentType DEF ActRec
      <4> QED  BY <1>1, <4>1 DEF LateNotifies, LateRec, LatePcs
    <3>2. CASE Parent[c] = Root  BY <1>1, <3>2 DEF LateNotifies, LateRec, LatePcs
    <3> QED  BY <3>1, <3>2
  <2> QED  BY <1>1, <2>1, <2>2 DEF LateNotifies
<1>2. CASE LateSends(c)
  <2>1. agent' \in [Children -> AgentRec]  BY <1>2, SentShape DEF LateSends
  <2>2. late' \in [Children -> LateRec]  BY <1>2, ZenonT(60) DEF LateSends, LateRec, LatePcs
  <2> QED  BY <1>2, <2>1, <2>2 DEF LateSends
<1>3. CASE LateDisowns(c)
  <2>1. act' \in [Children -> ActRec]
    <3>1. \A d \in Children : [act[d] EXCEPT !.owned = @ \ {c}] \in ActRec  BY DEF ActRec
    <3> QED  BY <1>3, <3>1 DEF LateDisowns
  <2>2. late' \in [Children -> LateRec]  BY <1>3, EmptyShapes DEF LateDisowns
  <2>3. stolen' \in SUBSET Children  BY <1>3 DEF LateDisowns
  <2> QED  BY <1>3, <2>1, <2>2, <2>3 DEF LateDisowns
<1> QED  BY <1>1, <1>2, <1>3 DEF LateStep

\* A call that moves on keeps the shape.
LEMMA GotoShape ==
    ASSUME call \in [Callers -> CallRec], NEW k \in Callers, NEW p \in CallPcs, Goto(k, p)
    PROVE  call' \in [Callers -> CallRec]
BY DEF Goto, CallRec

\* A call that returns keeps the shape.
LEMMA ReturnShape ==
    ASSUME Shape, NEW k \in Callers, Return(k)
    PROVE  /\ call' \in [Callers -> CallRec]
           /\ lock' \in [Children -> Callers \cup {NoCaller}]
BY EmptyShapes DEF Return, Shape

\* A refused delivery keeps the shape.
LEMMA RefusedShape ==
    ASSUME Shape, NEW k \in Callers, Refused(k)
    PROVE  /\ act' \in [Children -> ActRec]
           /\ call' \in [Callers -> CallRec]
           /\ lock' \in [Children -> Callers \cup {NoCaller}]
<1>1. CASE call[k].fresh
  <2>1. Goto(k, "rollback") /\ UNCHANGED lock /\ act' = Opened(act, {call[k].child})
    BY <1>1 DEF Refused
  <2> QED  BY <2>1, GotoShape, OpenedShape DEF Shape, CallPcs
<1>2. CASE ~call[k].fresh
  <2>1. Return(k) /\ UNCHANGED act  BY <1>2 DEF Refused
  <2> QED  BY <2>1, ReturnShape DEF Shape
<1> QED  BY <1>1, <1>2

\* A rolled back creation keeps the shape.
LEMMA UnpublishedShape ==
    ASSUME Shape, NEW k \in Callers, call[k].child \in Children, Unpublished(k)
    PROVE  act' \in [Children -> ActRec] /\ call' \in [Callers -> CallRec]
<1>1. "handle" \in DisposalPcs /\ "rollback" \in CallPcs  BY DEF DisposalPcs, CallPcs
<1>2. act' = act \/ act' = [act EXCEPT ![call[k].child].disposal = "handle"]
  BY DEF Unpublished
<1>3. Goto(k, "rollback")  BY DEF Unpublished
<1>4. call' \in [Callers -> CallRec]  BY <1>1, <1>3, GotoShape DEF Shape
<1>5. [act EXCEPT ![call[k].child].disposal = "handle"] \in [Children -> ActRec]
  BY <1>1, FieldShape DEF Shape
<1> QED  BY <1>2, <1>4, <1>5 DEF Shape

\* ... the steps of a delivery or a report ...
LEMMA ShapeDelivery ==
    ASSUME Shape, NEW k \in Callers, DeliveryStep(k),
           call[k].pc # "idle" => call[k].child \in Children
    PROVE  Shape'
<1> USE DEF Shape
<1> DEFINE c == call[k].child
<1>0. call[k] \in CallRec  OBVIOUS
<1>1. CASE DeliveryLooks(k)
  <2>1. c \in Children  BY <1>1 DEF DeliveryLooks
  <2>2. act[c].gen \in Nat  BY <2>1 DEF ActRec
  <2>3. PICK p \in CallPcs : call' = [call EXCEPT ![k].gen = act[c].gen, ![k].pc = p]
    BY <1>1 DEF DeliveryLooks, CallPcs
  <2>a. [call[k] EXCEPT !.gen = act[c].gen, !.pc = p] \in CallRec
    BY <1>0, <2>2 DEF CallRec
  <2>b. call' = [call EXCEPT ![k] = [call[k] EXCEPT !.gen = act[c].gen, !.pc = p]]
    BY <2>3
  <2>4. call' \in [Callers -> CallRec]  BY <2>a, <2>b
  <2>5. lock' \in [Children -> Callers \cup {NoCaller}]  BY <1>1 DEF DeliveryLooks
  <2> QED  BY <1>1, <2>4, <2>5 DEF DeliveryLooks
<1>2. CASE DeliveryRetries(k)
  <2>1. c \in Children  BY <1>2 DEF DeliveryRetries
  <2>2. [NoCall EXCEPT !.pc = "lock", !.child = c] \in CallRec
    BY <2>1, EmptyShapes DEF CallRec, CallPcs
  <2>3. call' \in [Callers -> CallRec]  BY <1>2, <2>2, EmptyShapes DEF DeliveryRetries
  <2>4. lock' \in [Children -> Callers \cup {NoCaller}]  BY <1>2 DEF DeliveryRetries
  <2> QED  BY <1>2, <2>3, <2>4 DEF DeliveryRetries
<1>3. CASE DeliveryBuilds(k)
  <2>1. \/ Goto(k, "build") /\ UNCHANGED lock
        \/ Return(k)
    BY <1>3 DEF DeliveryBuilds
  <2>2. "build" \in CallPcs  BY DEF CallPcs
  <2>3. call' \in [Callers -> CallRec] /\ lock' \in [Children -> Callers \cup {NoCaller}]
    BY <2>1, <2>2, GotoShape, ReturnShape
  <2> QED  BY <1>3, <2>3 DEF DeliveryBuilds
<1>4. CASE CreationFails(k)
  <2>1. call' \in [Callers -> CallRec] /\ lock' \in [Children -> Callers \cup {NoCaller}]
    BY <1>4, ReturnShape DEF CreationFails
  <2> QED  BY <1>4, <2>1 DEF CreationFails
<1>5. CASE CreationSucceeds(k)
  <2>1. c \in Children  BY <1>5 DEF CreationSucceeds
  <2>2. act[c].gen \in Nat /\ act[c].gen + 1 \in Nat  BY <2>1 DEF ActRec
  <2>3. [NoActivation EXCEPT !.here = TRUE, !.gen = act[c].gen + 1] \in ActRec
    BY <2>2, EmptyShapes DEF ActRec
  <2>4. [NoAgent EXCEPT !.live = TRUE] \in AgentRec  BY EmptyShapes DEF AgentRec
  <2>5. act' \in [Children -> ActRec] /\ agent' \in [Children -> AgentRec]
    BY <1>5, <2>3, <2>4 DEF CreationSucceeds
  <2>6. call' \in [Callers -> CallRec]
    <3>1. \A n \in Nat : [call EXCEPT ![k].pc = "own", ![k].gen = n, ![k].fresh = TRUE]
                             \in [Callers -> CallRec]
      <4> SUFFICES ASSUME NEW n \in Nat
                   PROVE  [call EXCEPT ![k].pc = "own", ![k].gen = n, ![k].fresh = TRUE]
                             \in [Callers -> CallRec]
        OBVIOUS
      <4>1. [call[k] EXCEPT !.pc = "own", !.gen = n, !.fresh = TRUE] \in CallRec
        BY <1>0 DEF CallRec, CallPcs
      <4> QED  BY <4>1
    <3>2. call' = [call EXCEPT ![k].pc = "own", ![k].gen = act[c].gen + 1, ![k].fresh = TRUE]
      BY <1>5 DEF CreationSucceeds
    <3> QED  BY <2>2, <3>1, <3>2, Zenon
  <2> QED  BY <1>5, <2>5, <2>6 DEF CreationSucceeds
<1>6. CASE DeliveryOwns(k)
  <2>1. c \in Children  BY <1>6 DEF DeliveryOwns
  <2>2. CASE Unpublished(k)
    BY <1>6, <2>1, <2>2, UnpublishedShape DEF DeliveryOwns
  <2>3. CASE act' = [Owned(c) EXCEPT ![c].published = Current(k)] /\ Goto(k, "admit")
    <3>1. Owned(c) \in [Children -> ActRec]  BY <2>1, OwnedShape
    <3>2. Current(k) \in BOOLEAN  BY <2>1 DEF Current, ActRec
    <3>3. act' \in [Children -> ActRec]  BY <2>1, <2>3, <3>1, <3>2, FieldShape
    <3>4. call' \in [Callers -> CallRec]  BY <2>3, GotoShape DEF CallPcs
    <3> QED  BY <1>6, <3>3, <3>4 DEF DeliveryOwns
  <2> QED  BY <1>6, <2>2, <2>3 DEF DeliveryOwns
<1>7. CASE CreationAborted(k)
  <2>1. c \in Children  BY <1>7 DEF CreationAborted
  <2> QED  BY <1>7, <2>1, UnpublishedShape DEF CreationAborted
<1>8. CASE DeliveryRolledBack(k)
  <2>1. call' \in [Callers -> CallRec] /\ lock' \in [Children -> Callers \cup {NoCaller}]
    BY <1>8, ReturnShape DEF DeliveryRolledBack
  <2> QED  BY <1>8, <2>1 DEF DeliveryRolledBack
<1>9. CASE DeliveryAdmits(k) \/ DeliveryUnsuited(k)
  <2>1. \/ Goto(k, "accept") /\ UNCHANGED <<act, lock>>
        \/ Refused(k)
    BY <1>9 DEF DeliveryAdmits, DeliveryUnsuited
  <2>2. "accept" \in CallPcs  BY DEF CallPcs
  <2>3. /\ act' \in [Children -> ActRec] /\ call' \in [Callers -> CallRec]
        /\ lock' \in [Children -> Callers \cup {NoCaller}]
    BY <2>1, <2>2, GotoShape, RefusedShape
  <2>4. UNCHANGED <<agent, late, draining, scopes, drain, used, stolen, dropped>>
    BY <1>9 DEF DeliveryAdmits, DeliveryUnsuited
  <2> QED  BY <2>3, <2>4
<1>10. CASE DeliveryAccepts(k)
  <2>1. c \in Children  BY <1>10 DEF DeliveryAccepts
  <2>2. \/ act' = Owned(c) /\ Goto(k, "send") /\ UNCHANGED lock
        \/ Refused(k)
    BY <1>10 DEF DeliveryAccepts
  <2>3. "send" \in CallPcs  BY DEF CallPcs
  <2>4. /\ act' \in [Children -> ActRec] /\ call' \in [Callers -> CallRec]
        /\ lock' \in [Children -> Callers \cup {NoCaller}]
    BY <2>1, <2>2, <2>3, GotoShape, RefusedShape, OwnedShape
  <2> QED  BY <1>10, <2>4 DEF DeliveryAccepts
<1>11. CASE DeliverySends(k)
  <2>1. c \in Children  BY <1>11 DEF DeliverySends
  <2>2. "announce" \in CallPcs  BY DEF CallPcs
  <2>3. act' \in [Children -> ActRec]  BY <1>11, <2>1, FieldShape DEF DeliverySends
  <2>4. agent' \in [Children -> AgentRec]  BY <1>11, SentShape DEF DeliverySends
  <2>5. call' \in [Callers -> CallRec]  BY <1>11, <2>2, GotoShape DEF DeliverySends
  <2> QED  BY <1>11, <2>3, <2>4, <2>5 DEF DeliverySends
<1>12. CASE DeliveryAnnounces(k)
  <2>1. c \in Children  BY <1>12 DEF DeliveryAnnounces
  <2>2. act' \in [Children -> ActRec]  BY <1>12, <2>1, FieldShape DEF DeliveryAnnounces
  <2>3. late' \in [Children -> LateRec]  BY <1>12, <2>1 DEF DeliveryAnnounces, LateRec
  <2>4. call' \in [Callers -> CallRec] /\ lock' \in [Children -> Callers \cup {NoCaller}]
    BY <1>12, ReturnShape DEF DeliveryAnnounces
  <2> QED  BY <1>12, <2>2, <2>3, <2>4 DEF DeliveryAnnounces
<1>13. CASE ReportSends(k)
  <2>1. agent' \in [Children -> AgentRec]  BY <1>13, SentShape DEF ReportSends
  <2>2. call' \in [Callers -> CallRec]  BY <1>13, EmptyShapes DEF ReportSends
  <2> QED  BY <1>13, <2>1, <2>2 DEF ReportSends
<1> QED
  BY <1>1, <1>2, <1>3, <1>4, <1>5, <1>6, <1>7, <1>8, <1>9, <1>10, <1>11, <1>12, <1>13
  DEF DeliveryStep

\* Spending a bound keeps the shape.
LEMMA UsedShape ==
    ASSUME used \in UsedRec
    PROVE  /\ [used EXCEPT !.others = @ + 1] \in UsedRec
           /\ [used EXCEPT !.deliveries = @ + 1] \in UsedRec
           /\ [used EXCEPT !.others = @ + 1, !.stopped = TRUE] \in UsedRec
<1>1. used.others + 1 \in Nat /\ used.deliveries + 1 \in Nat  BY DEF UsedRec
<1>2. [used EXCEPT !.others = @ + 1] \in UsedRec  BY <1>1 DEF UsedRec
<1>3. [used EXCEPT !.deliveries = @ + 1] \in UsedRec  BY <1>1 DEF UsedRec
<1>4. [used EXCEPT !.others = @ + 1, !.stopped = TRUE] \in UsedRec  BY <1>1 DEF UsedRec
<1> QED  BY <1>2, <1>3, <1>4

\* ... and the steps that begin a call or belong to a teardown.
LEMMA ShapeTeardown ==
    ASSUME Shape,
           \/ \E c \in Children : DrainChildren(c)
           \/ \E c \in Children, k \in Callers : DeliveryBegins(k, c) \/ ReportCounts(k, c)
           \/ DrainBegins \/ DrainStep \/ DrainDescendants
    PROVE  Shape'
<1> USE DEF Shape
<1>1. ASSUME NEW c \in Children, DrainChildren(c)  PROVE Shape'
  <2>1. act' \in [Children -> ActRec]  BY <1>1, OpenedShape DEF DrainChildren
  <2>2. used' \in UsedRec
    <3>1. used' = [used EXCEPT !.others = @ + 1, !.stopped = TRUE]  BY <1>1 DEF DrainChildren
    <3> QED  BY <3>1, UsedShape
  <2> QED  BY <1>1, <2>1, <2>2 DEF DrainChildren
<1>2. ASSUME NEW c \in Children, NEW k \in Callers, DeliveryBegins(k, c)  PROVE Shape'
  <2>1. [NoCall EXCEPT !.pc = "lock", !.child = c] \in CallRec
    BY EmptyShapes DEF CallRec, CallPcs
  <2>2. call' \in [Callers -> CallRec]  BY <1>2, <2>1 DEF DeliveryBegins
  <2>3. used' \in UsedRec
    <3>1. used' = [used EXCEPT !.deliveries = @ + 1]  BY <1>2 DEF DeliveryBegins
    <3> QED  BY <3>1, UsedShape
  <2> QED  BY <1>2, <2>2, <2>3 DEF DeliveryBegins
<1>3. ASSUME NEW c \in Children, NEW k \in Callers, ReportCounts(k, c)  PROVE Shape'
  <2>1. Parent[c] \in Children  BY <1>3, ParentType DEF ReportCounts
  <2>2. act[Parent[c]].gen \in Nat  BY <2>1 DEF ActRec
  <2>3. [NoCall EXCEPT !.pc = "report", !.child = c, !.gen = act[Parent[c]].gen] \in CallRec
    BY <2>2, EmptyShapes DEF CallRec, CallPcs
  <2>4. call' \in [Callers -> CallRec]  BY <1>3, <2>3 DEF ReportCounts
  <2>5. act' \in [Children -> ActRec]  BY <1>3, <2>1, FieldShape DEF ReportCounts
  <2>6. used' \in UsedRec
    <3>1. used' = [used EXCEPT !.others = @ + 1]  BY <1>3 DEF ReportCounts
    <3> QED  BY <3>1, UsedShape
  <2> QED  BY <1>3, <2>4, <2>5, <2>6 DEF ReportCounts
<1>4. CASE DrainBegins
  <2>1. \A c \in Children : act[c].gen \in Nat  BY DEF ActRec
  <2>2. drain' \in DrainRec  BY <1>4, <2>1 DEF DrainBegins, DrainRec
  <2>3. used' \in UsedRec /\ draining' \in BOOLEAN  BY <1>4 DEF DrainBegins, UsedRec
  <2> QED  BY <1>4, <2>2, <2>3 DEF DrainBegins
<1>5. CASE DrainDisposes
  <2>1. act' \in [Children -> ActRec]  BY <1>5, OpenedShape DEF DrainDisposes
  <2>2. drain' \in DrainRec  BY <1>5 DEF DrainDisposes, DrainRec
  <2> QED  BY <1>5, <2>1, <2>2 DEF DrainDisposes
<1>6. CASE DrainEnds
  <2>1. drain' \in DrainRec  BY <1>6 DEF DrainEnds, DrainRec
  <2> QED  BY <1>6, <2>1 DEF DrainEnds
<1>7. CASE DrainDescendants
  <2>1. act' \in [Children -> ActRec]  BY <1>7, OpenedShape DEF DrainDescendants
  <2>2. used' \in UsedRec /\ scopes' \in BOOLEAN  BY <1>7 DEF DrainDescendants, UsedRec
  <2> QED  BY <1>7, <2>1, <2>2 DEF DrainDescendants
<1> QED  BY <1>1, <1>2, <1>3, <1>4, <1>5, <1>6, <1>7 DEF DrainStep

-----------------------------------------------------------------------------
(* What the actions do to the Activations, field by field.                 *)

\* An Activation keeps everything but its counts.
Kept(d) ==
    /\ act'[d].here = act[d].here /\ act'[d].gen = act[d].gen
    /\ act'[d].published = act[d].published /\ act'[d].disposal = act[d].disposal
    /\ act'[d].settled = act[d].settled /\ act'[d].kids = act[d].kids
    /\ act'[d].owned = act[d].owned

\* ... or has its disposal opened, being in S.
KeptOpen(d, S) ==
    /\ act'[d].here = act[d].here /\ act'[d].gen = act[d].gen
    /\ act'[d].published = act[d].published
    /\ act'[d].disposal = IF d \in S /\ act[d].here /\ act[d].disposal = "none"
                          THEN "stop" ELSE act[d].disposal
    /\ act'[d].settled = act[d].settled /\ act'[d].kids = act[d].kids
    /\ act'[d].owned = act[d].owned

\* ... or a child joins its owned set.
KeptJoin(d, c) ==
    /\ act'[d].here = act[d].here /\ act'[d].gen = act[d].gen
    /\ act'[d].disposal = act[d].disposal
    /\ act'[d].settled = act[d].settled /\ act'[d].kids = act[d].kids
    /\ act'[d].owned = IF d = Parent[c] /\ act[d].here THEN act[d].owned \cup {c}
                       ELSE act[d].owned

\* A child is not its own parent.
LEMMA NotOwnParent == \A c \in Children : Parent[c] # c
<1> SUFFICES ASSUME NEW c \in Children  PROVE Parent[c] # c
  OBVIOUS
<1>1. {c} \in SUBSET Children /\ {c} # {}  OBVIOUS
<1>2. PICK d \in {c} : Parent[d] \notin {c}  BY <1>1, TreeAssumption
<1> QED  BY <1>2

\* An unchanged map keeps every Activation.
LEMMA KeptAll == ASSUME act' = act  PROVE \A d \in Children : Kept(d)
BY DEF Kept

\* Opening transactions.
LEMMA OpenEffect ==
    ASSUME Shape, NEW S, act' = Opened(act, S)  PROVE \A d \in Children : KeptOpen(d, S)
BY DEF Shape, Opened, KeptOpen, ActRec

\* Counting a message, announcing, and clearing an accepted id change no more than
\* the counts.
LEMMA CountEffect ==
    ASSUME Shape, NEW c \in Children,
           \/ act' = [act EXCEPT ![c].accepted = @ + 1]
           \/ act' = [act EXCEPT ![c].announced = TRUE]
           \/ act' = [act EXCEPT ![c] = Left(@, 1)]
           \/ act' = act
    PROVE  \A d \in Children : Kept(d)
<1>1. CASE act' = [act EXCEPT ![c].accepted = @ + 1]  BY <1>1 DEF Shape, ActRec, Kept
<1>2. CASE act' = [act EXCEPT ![c].announced = TRUE]  BY <1>2 DEF Shape, ActRec, Kept
<1>3. CASE act' = [act EXCEPT ![c] = Left(@, 1)]  BY <1>3 DEF Shape, ActRec, Kept, Left
<1> QED  BY <1>1, <1>2, <1>3, KeptAll

\* The watcher.
LEMMA WatcherEffect ==
    ASSUME Shape, NEW c \in Children, WatcherSettles(c)
    PROVE  /\ \A d \in Children \ {c} : Kept(d)
           /\ act'[c].here = act[c].here /\ act'[c].gen = act[c].gen
           /\ act'[c].published = act[c].published /\ act'[c].disposal = "stop"
           /\ act'[c].settled = TRUE /\ act'[c].kids = act[c].kids
           /\ act'[c].owned = act[c].owned
<1>1. act[c].here /\ act[c].disposal = "none"  BY DEF WatcherSettles, Closing
<1>2. act' = [act EXCEPT ![c] = [[act[c] EXCEPT !.disposal = "stop"] EXCEPT !.settled = TRUE]]
  BY <1>1 DEF WatcherSettles, Opened, Shape
<1> QED  BY <1>2 DEF Shape, ActRec, Kept

\* The children a disposal opens.
LEMMA StopEffect ==
    ASSUME Shape, NEW c \in Children, DisposalStops(c)
    PROVE  /\ \A d \in Children \ {c} :
                 KeptOpen(d, {e \in act[c].owned : act[e].here})
           /\ act'[c].here = act[c].here /\ act'[c].gen = act[c].gen
           /\ act'[c].published = act[c].published /\ act'[c].disposal = "kids"
           /\ act'[c].settled = act[c].settled /\ act'[c].owned = act[c].owned
           /\ act'[c].kids = {<<d, act[d].gen>> : d \in {e \in act[c].owned : act[e].here}}
           /\ act'[c].accepted = IF act[c].published THEN act[c].accepted - agent[c].pending
                                 ELSE act[c].accepted
<1> DEFINE S == {e \in act[c].owned : act[e].here}
           K == {<<d, act[d].gen>> : d \in S}
           a == Opened(act, S)
           n == agent[c].pending
           l == Left(a[c], n)
           r == [l EXCEPT !.disposal = "kids", !.kids = K]
<1>1. act' = [a EXCEPT ![c] = r]
  <2>1. a \in [Children -> ActRec]  BY OpenedShape DEF Shape
  <2> QED  BY <2>1 DEF DisposalStops
<1>2. a \in [Children -> ActRec]  BY OpenedShape DEF Shape
<1>3. \A d \in Children : /\ a[d].here = act[d].here /\ a[d].gen = act[d].gen
                          /\ a[d].published = act[d].published
                          /\ a[d].disposal = IF d \in S /\ act[d].here /\ act[d].disposal = "none"
                                             THEN "stop" ELSE act[d].disposal
                          /\ a[d].settled = act[d].settled /\ a[d].kids = act[d].kids
                          /\ a[d].owned = act[d].owned /\ a[d].accepted = act[d].accepted
  BY DEF Shape, Opened, ActRec
<1> HIDE DEF S, K, a, n
<1>4. /\ l.here = a[c].here /\ l.gen = a[c].gen /\ l.published = a[c].published
      /\ l.settled = a[c].settled /\ l.owned = a[c].owned
      /\ l.accepted = IF a[c].published THEN a[c].accepted - n ELSE a[c].accepted
      /\ l \in [here : BOOLEAN, gen : Nat, published : BOOLEAN, announced : BOOLEAN,
                disposal : DisposalPcs, settled : BOOLEAN, kids : SUBSET (Children \X Nat),
                owned : SUBSET Children, accepted : {l.accepted}]
  BY <1>2 DEF Left, ActRec
<1> HIDE DEF l
<1>5. /\ r.here = l.here /\ r.gen = l.gen /\ r.published = l.published
      /\ r.settled = l.settled /\ r.owned = l.owned /\ r.accepted = l.accepted
      /\ r.disposal = "kids" /\ r.kids = K
  BY <1>4
<1> HIDE DEF r
<1>6. \A d \in Children \ {c} : KeptOpen(d, S)  BY <1>1, <1>2, <1>3 DEF KeptOpen
<1>7. act'[c] = r  BY <1>1, <1>2
<1> QED  BY <1>3, <1>4, <1>5, <1>6, <1>7 DEF S, K, n

\* The end of the wait for children.
LEMMA QuiesceEffect ==
    ASSUME Shape, NEW c \in Children, DisposalQuiesces(c)
    PROVE  /\ \A d \in Children \ {c} : Kept(d)
           /\ act'[c].here = act[c].here /\ act'[c].gen = act[c].gen
           /\ act'[c].published = act[c].published /\ act'[c].disposal = "handle"
           /\ act'[c].settled = act[c].settled /\ act'[c].owned = act[c].owned
           /\ act'[c].kids = {}
           /\ act'[c].accepted = IF act[c].published THEN act[c].accepted - agent[c].pending
                                 ELSE act[c].accepted
<1> DEFINE n == agent[c].pending
           l == Left(act[c], n)
           r == [l EXCEPT !.disposal = "handle", !.kids = {}]
<1>1. act' = [act EXCEPT ![c] = r]  BY DEF DisposalQuiesces
<1>2. act[c] \in ActRec  BY DEF Shape
<1> HIDE DEF n
<1>4. /\ l.here = act[c].here /\ l.gen = act[c].gen /\ l.published = act[c].published
      /\ l.settled = act[c].settled /\ l.owned = act[c].owned
      /\ l.accepted = IF act[c].published THEN act[c].accepted - n ELSE act[c].accepted
      /\ l \in [here : BOOLEAN, gen : Nat, published : BOOLEAN, announced : BOOLEAN,
                disposal : DisposalPcs, settled : BOOLEAN, kids : SUBSET (Children \X Nat),
                owned : SUBSET Children, accepted : {l.accepted}]
  BY <1>2 DEF Left, ActRec
<1> HIDE DEF l
<1>5. /\ r.here = l.here /\ r.gen = l.gen /\ r.published = l.published
      /\ r.settled = l.settled /\ r.owned = l.owned /\ r.accepted = l.accepted
      /\ r.disposal = "handle" /\ r.kids = {}
  BY <1>4
<1> HIDE DEF r
<1>6. \A d \in Children \ {c} : Kept(d)  BY <1>1 DEF Kept, Shape
<1>7. act'[c] = r  BY <1>1 DEF Shape
<1> QED  BY <1>4, <1>5, <1>6, <1>7 DEF n

\* The handle is gone.
LEMMA HandleEffect ==
    ASSUME Shape, NEW c \in Children,
           \/ act' = [act EXCEPT ![c].disposal = "delete"]
           \/ act' = [act EXCEPT ![c].disposal = "handle"]
    PROVE  /\ \A d \in Children \ {c} : Kept(d)
           /\ act'[c].here = act[c].here /\ act'[c].gen = act[c].gen
           /\ act'[c].published = act[c].published
           /\ act'[c].disposal \in {"delete", "handle"}
           /\ act' = [act EXCEPT ![c].disposal = "delete"] => act'[c].disposal = "delete"
           /\ act' = [act EXCEPT ![c].disposal = "handle"] => act'[c].disposal = "handle"
           /\ act'[c].settled = act[c].settled /\ act'[c].owned = act[c].owned
           /\ act'[c].kids = act[c].kids
<1>1. CASE act' = [act EXCEPT ![c].disposal = "delete"]  BY <1>1 DEF Shape, ActRec, Kept
<1>2. CASE act' = [act EXCEPT ![c].disposal = "handle"]  BY <1>2 DEF Shape, ActRec, Kept
<1> QED  BY <1>1, <1>2

\* An Activation leaves the map, or a new one enters it.
LEMMA EpochEffect ==
    ASSUME Shape, NEW c \in Children, NEW h \in BOOLEAN, NEW n,
           act' = [act EXCEPT ![c] = [NoActivation EXCEPT !.here = h, !.gen = n]]
    PROVE  /\ \A d \in Children \ {c} : Kept(d)
           /\ act'[c].here = h /\ act'[c].gen = n
           /\ act'[c].published = FALSE /\ act'[c].disposal = "none"
           /\ act'[c].settled = FALSE /\ act'[c].owned = {} /\ act'[c].kids = {}
           /\ act'[c].accepted = 0
<1>1. act'[c] = [NoActivation EXCEPT !.here = h, !.gen = n]  BY DEF Shape
<1>2. \A d \in Children \ {c} : Kept(d)  BY DEF Shape, Kept
<1>3. /\ NoActivation \in ActRec /\ NoActivation.published = FALSE
      /\ NoActivation.disposal = "none" /\ NoActivation.settled = FALSE
      /\ NoActivation.owned = {} /\ NoActivation.kids = {} /\ NoActivation.accepted = 0
  BY EmptyShapes DEF NoActivation
<1>4. \A r \in ActRec : LET q == [r EXCEPT !.here = h, !.gen = n] IN
          /\ q.here = h /\ q.gen = n /\ q.published = r.published
          /\ q.disposal = r.disposal /\ q.settled = r.settled /\ q.kids = r.kids
          /\ q.owned = r.owned /\ q.accepted = r.accepted
  BY DEF ActRec
<1>5. LET q == act'[c] IN
      /\ q.here = h /\ q.gen = n /\ q.published = NoActivation.published
      /\ q.disposal = NoActivation.disposal /\ q.settled = NoActivation.settled
      /\ q.kids = NoActivation.kids /\ q.owned = NoActivation.owned
      /\ q.accepted = NoActivation.accepted
  BY <1>1, <1>3, <1>4, Zenon
<1> QED  BY <1>2, <1>3, <1>5

\* ... it leaves the number of its epoch behind.
LEMMA DeletedEffect ==
    ASSUME Shape, NEW c \in Children, ActivationDeleted(c)
    PROVE  /\ \A d \in Children \ {c} : Kept(d) /\ act'[d].accepted = act[d].accepted
           /\ act'[c].here = FALSE /\ act'[c].gen = act[c].gen
           /\ act'[c].published = FALSE /\ act'[c].disposal = "none"
           /\ act'[c].settled = FALSE /\ act'[c].owned = {} /\ act'[c].kids = {}
<1> DEFINE n == act[c].gen
<1>1. act'[c] = [NoActivation EXCEPT !.gen = n]  BY DEF Shape, ActivationDeleted
<1>2. \A d \in Children \ {c} : Kept(d) /\ act'[d].accepted = act[d].accepted
  BY DEF Shape, Kept, ActivationDeleted
<1>3. /\ NoActivation \in ActRec /\ NoActivation.published = FALSE
      /\ NoActivation.disposal = "none" /\ NoActivation.settled = FALSE
      /\ NoActivation.owned = {} /\ NoActivation.kids = {} /\ NoActivation.here = FALSE
  BY EmptyShapes DEF NoActivation
<1> HIDE DEF n
<1>4. \A r \in ActRec : LET q == [r EXCEPT !.gen = n] IN
          /\ q.here = r.here /\ q.gen = n /\ q.published = r.published
          /\ q.disposal = r.disposal /\ q.settled = r.settled /\ q.kids = r.kids
          /\ q.owned = r.owned
  BY DEF ActRec
<1>5. LET q == act'[c] IN
      /\ q.here = NoActivation.here /\ q.gen = n
      /\ q.published = NoActivation.published
      /\ q.disposal = NoActivation.disposal /\ q.settled = NoActivation.settled
      /\ q.kids = NoActivation.kids /\ q.owned = NoActivation.owned
  BY <1>1, <1>3, <1>4, Zenon
<1> QED  BY <1>2, <1>3, <1>5 DEF n

\* Ownership is released.
LEMMA DisownEffect ==
    ASSUME Shape, NEW c \in Children, LateDisowns(c)
    PROVE  \A d \in Children :
              /\ act'[d].here = act[d].here /\ act'[d].gen = act[d].gen
              /\ act'[d].published = act[d].published /\ act'[d].disposal = act[d].disposal
              /\ act'[d].settled = act[d].settled /\ act'[d].kids = act[d].kids
              /\ act'[d].owned = act[d].owned \ {c} /\ act'[d].accepted = act[d].accepted
<1>1. \A d \in Children : act'[d] = [act[d] EXCEPT !.owned = @ \ {c}]
  BY DEF LateDisowns
<1>2. \A r \in ActRec : LET q == [r EXCEPT !.owned = @ \ {c}] IN
          /\ q.here = r.here /\ q.gen = r.gen /\ q.published = r.published
          /\ q.disposal = r.disposal /\ q.settled = r.settled /\ q.kids = r.kids
          /\ q.owned = r.owned \ {c} /\ q.accepted = r.accepted
  BY DEF ActRec
<1> SUFFICES ASSUME NEW d \in Children
             PROVE  /\ act'[d].here = act[d].here /\ act'[d].gen = act[d].gen
                    /\ act'[d].published = act[d].published
                    /\ act'[d].disposal = act[d].disposal
                    /\ act'[d].settled = act[d].settled /\ act'[d].kids = act[d].kids
                    /\ act'[d].owned = act[d].owned \ {c} /\ act'[d].accepted = act[d].accepted
  OBVIOUS
<1>3. act[d] \in ActRec  BY DEF Shape
<1>4. act'[d] = [act[d] EXCEPT !.owned = @ \ {c}]  BY <1>1
<1> QED  BY <1>2, <1>3, <1>4

\* The maps with ownership taken, field by field.
LEMMA OwnedFields ==
    ASSUME Shape, NEW c \in Children, NEW d \in Children
    PROVE  /\ Owned(c)[d].here = act[d].here /\ Owned(c)[d].gen = act[d].gen
           /\ Owned(c)[d].published = act[d].published
           /\ Owned(c)[d].disposal = act[d].disposal
           /\ Owned(c)[d].settled = act[d].settled /\ Owned(c)[d].kids = act[d].kids
           /\ Owned(c)[d].owned = IF d = Parent[c] /\ act[d].here
                                  THEN act[d].owned \cup {c} ELSE act[d].owned
<1>1. CASE Parent[c] # Root /\ act[Parent[c]].here
  <2>1. Owned(c) = [act EXCEPT ![Parent[c]].owned = @ \cup {c}]  BY <1>1 DEF Owned
  <2>2. CASE d = Parent[c]
    <3>1. Owned(c)[d] = [act[d] EXCEPT !.owned = @ \cup {c}]  BY <2>1, <2>2 DEF Shape
    <3>2. act[d] \in ActRec  BY DEF Shape
    <3> QED  BY <1>1, <2>2, <3>1, <3>2 DEF ActRec
  <2>3. CASE d # Parent[c]
    <3>1. Owned(c)[d] = act[d]  BY <2>1, <2>3 DEF Shape
    <3> QED  BY <2>3, <3>1
  <2> QED  BY <2>2, <2>3
<1>2. CASE ~(Parent[c] # Root /\ act[Parent[c]].here)
  <2>1. Owned(c) = act  BY <1>2 DEF Owned
  <2>2. ~(d = Parent[c] /\ act[d].here)  BY <1>2, TreeAssumption
  <2> QED  BY <2>1, <2>2
<1> QED  BY <1>1, <1>2

\* Ownership is taken.
LEMMA OwnEffect ==
    ASSUME Shape, NEW c \in Children, act' = Owned(c)
    PROVE  \A d \in Children : KeptJoin(d, c) /\ act'[d].published = act[d].published
BY OwnedFields DEF KeptJoin

\* Ownership is taken and the epoch is published.
LEMMA PublishEffect ==
    ASSUME Shape, NEW c \in Children, NEW b \in BOOLEAN,
           act' = [Owned(c) EXCEPT ![c].published = b]
    PROVE  /\ \A d \in Children : KeptJoin(d, c)
           /\ \A d \in Children \ {c} : act'[d].published = act[d].published
           /\ act'[c].published = b
<1> DEFINE a == Owned(c)
<1>1. a \in [Children -> ActRec]  BY OwnedShape DEF Shape
<1>2. \A d \in Children : /\ a[d].here = act[d].here /\ a[d].gen = act[d].gen
                          /\ a[d].published = act[d].published
                          /\ a[d].disposal = act[d].disposal
                          /\ a[d].settled = act[d].settled /\ a[d].kids = act[d].kids
                          /\ a[d].owned = IF d = Parent[c] /\ act[d].here
                                          THEN act[d].owned \cup {c} ELSE act[d].owned
  BY OwnedFields
<1> HIDE DEF a
<1>3. act' = [a EXCEPT ![c].published = b]  BY DEF a
<1>4. /\ \A d \in Children : /\ act'[d].here = a[d].here /\ act'[d].gen = a[d].gen
                             /\ act'[d].disposal = a[d].disposal
                             /\ act'[d].settled = a[d].settled /\ act'[d].kids = a[d].kids
                             /\ act'[d].owned = a[d].owned
      /\ \A d \in Children \ {c} : act'[d].published = a[d].published
      /\ act'[c].published = b
  BY <1>1, <1>3 DEF ActRec
<1>5. \A d \in Children : KeptJoin(d, c)
  <2> SUFFICES ASSUME NEW d \in Children  PROVE KeptJoin(d, c)
    OBVIOUS
  <2>1. act'[d].owned = IF d = Parent[c] /\ act[d].here THEN act[d].owned \cup {c}
                        ELSE act[d].owned
    BY <1>2, <1>4
  <2>2. /\ act'[d].here = act[d].here /\ act'[d].gen = act[d].gen
        /\ act'[d].disposal = act[d].disposal
        /\ act'[d].settled = act[d].settled /\ act'[d].kids = act[d].kids
    BY <1>2, <1>4
  <2> QED  BY <2>1, <2>2, Zenon DEF KeptJoin
<1> QED  BY <1>2, <1>4, <1>5

-----------------------------------------------------------------------------
(* Residence: the lock, the map and the registry agree.                    *)

\* The places of a delivery inside its child's lock.
Holding == CallPcs \ {"idle", "lock", "report"}

\* An agent is registered exactly while its Activation is in the map and its handle
\* has not been disposed; only a registered agent runs.
ResidentAt(d) ==
    /\ agent[d].live <=> act[d].here /\ act[d].disposal # "delete"
    /\ agent[d].running => agent[d].live
    /\ act[d].disposal # "none" => act[d].here
    /\ ~act[d].here => /\ ~act[d].published /\ ~act[d].settled
                       /\ act[d].owned = {} /\ act[d].kids = {}

Resident == \A d \in Children : ResidentAt(d)

\* A delivery past its first look holds the child's lock, creates only where there
\* is nothing and keeps the epoch it found or created.
LockedCall(k) ==
    LET c == call[k].child IN
    /\ call[k].pc # "idle" => c \in Children
    /\ call[k].pc \in Holding => lock[c] = k
    /\ call[k].pc \in {"create", "build"} => ~act[c].here
    /\ call[k].pc \in Holding => call[k].gen = act[c].gen
    /\ call[k].pc \in {"admit", "accept", "send"} /\ act[c].here => act[c].published
    /\ call[k].pc = "rollback" /\ act[c].here => act[c].disposal # "none"

Locked == \A k \in Callers : LockedCall(k)

\* An epoch that is not published is in the hands of the delivery that creates it,
\* or closing.
Creating ==
    \A c \in Children :
        act[c].here /\ ~act[c].published /\ act[c].disposal = "none" =>
            /\ lock[c] # NoCaller
            /\ call[lock[c]].pc = "own" /\ call[lock[c]].child = c

\* A tool call is made in the turn of its issuer.
InTurn ==
    \A k \in Callers :
        call[k].pc # "idle" => Issuer(k) = Root \/ agent[Issuer(k)].running

\* The bookkeeping of ownership and settlement: only a closing Activation waits for
\* children, and one that settled has none.
BooksAt(d) ==
    /\ \A e \in act[d].owned : Parent[e] = d
    /\ act[d].settled => act[d].disposal # "none" /\ act[d].owned = {} /\ act[d].kids = {}
    /\ act[d].disposal \in {"none", "stop"} => act[d].kids = {}

Books == \A d \in Children : BooksAt(d)

\* A notice is addressed to an epoch of the parent that has existed.
Dated == \A d \in Children : Parent[d] # Root => late[d].to <= act[Parent[d]].gen

ResidenceInv == Shape /\ Resident /\ Locked /\ Creating /\ InTurn /\ Books /\ Dated

\* An Activation that stays is the same epoch, and neither its publication nor its
\* disposal is undone.
Onward(d) ==
    /\ act'[d].gen = act[d].gen
    /\ act'[d].here => act[d].here
    /\ act'[d].here /\ act[d].published => act'[d].published
    /\ act'[d].here /\ act[d].disposal # "none" => act'[d].disposal # "none"

\* An Activation that is kept, opened or joined goes onward.
LEMMA KeptOnward ==
    ASSUME NEW d \in Children, Kept(d) \/ \E S : KeptOpen(d, S)
    PROVE  Onward(d)
BY DEF Kept, KeptOpen, Onward

\* Every step but the creation of an epoch goes onward.
LEMMA OnwardChild ==
    ASSUME Shape, NEW c \in Children, NEW d \in Children,
           \/ AgentStep(c) \/ Interrupt(c) \/ WatcherSettles(c) \/ DisposalStep(c)
           \/ LateStep(c) \/ DrainChildren(c)
           \/ \E k \in Callers : DeliveryBegins(k, c) \/ ReportCounts(k, c)
           \/ DrainBegins \/ DrainStep \/ DrainDescendants
    PROVE  Onward(d)
<1>1. CASE AgentStep(c)
  <2>1. act' = act \/ act' = [act EXCEPT ![c] = Left(@, 1)]
    BY <1>1 DEF AgentStep, AgentClaims, AgentRests, AgentReplays
  <2> QED  BY <2>1, CountEffect, KeptOnward
<1>2. CASE Interrupt(c) \/ (\E k \in Callers : DeliveryBegins(k, c)) \/ DrainBegins \/ DrainEnds
  <2>1. act' = act  BY <1>2 DEF Interrupt, DeliveryBegins, DrainBegins, DrainEnds
  <2> QED  BY <2>1, KeptAll, KeptOnward
<1>3. CASE WatcherSettles(c)
  <2>1. act[c].disposal = "none" /\ act[c].here BY <1>3 DEF WatcherSettles, Closing
  <2> QED  BY <1>3, <2>1, WatcherEffect, KeptOnward DEF Onward
<1>4. CASE DisposalStops(c)
  <2>1. CASE d = c  BY <1>4, <2>1, StopEffect DEF Onward
  <2>2. CASE d # c  BY <1>4, <2>2, StopEffect, KeptOnward
  <2> QED  BY <2>1, <2>2
<1>5. CASE DisposalQuiesces(c)
  <2>1. CASE d = c  BY <1>5, <2>1, QuiesceEffect DEF Onward
  <2>2. CASE d # c  BY <1>5, <2>2, QuiesceEffect, KeptOnward
  <2> QED  BY <2>1, <2>2
<1>6. CASE HandleDisposed(c)
  <2>0. act' = [act EXCEPT ![c].disposal = "delete"]  BY <1>6 DEF HandleDisposed
  <2>1. CASE d = c  BY <2>0, <2>1, HandleEffect DEF Onward
  <2>2. CASE d # c  BY <2>0, <2>2, HandleEffect, KeptOnward
  <2> QED  BY <2>1, <2>2
<1>7. CASE ActivationDeleted(c)
  <2>1. CASE d = c  BY <1>7, <2>1, DeletedEffect DEF Onward
  <2>2. CASE d # c  BY <1>7, <2>2, DeletedEffect, KeptOnward
  <2> QED  BY <2>1, <2>2
<1>8. CASE LateNotifies(c) \/ LateSends(c)
  <2>1. act' = act \/ (Parent[c] # Root /\ act' = [act EXCEPT ![Parent[c]].accepted = @ + 1])
    BY <1>8 DEF LateNotifies, LateSends
  <2> QED  BY <2>1, ParentType, CountEffect, KeptAll, KeptOnward
<1>9. CASE LateDisowns(c)  BY <1>9, DisownEffect DEF Onward
<1>10. CASE DrainChildren(c) \/ DrainDisposes \/ DrainDescendants
  <2>1. PICK S : act' = Opened(act, S)  BY <1>10 DEF DrainChildren, DrainDisposes, DrainDescendants
  <2> QED  BY <2>1, OpenEffect, KeptOnward
<1>11. CASE \E k \in Callers : ReportCounts(k, c)
  <2>1. Parent[c] # Root /\ act' = [act EXCEPT ![Parent[c]].accepted = @ + 1]
    BY <1>11 DEF ReportCounts
  <2> QED  BY <2>1, ParentType, CountEffect, KeptOnward
<1> QED
  BY <1>1, <1>2, <1>3, <1>4, <1>5, <1>6, <1>7, <1>8, <1>9, <1>10, <1>11
  DEF DisposalStep, LateStep, DrainStep

\* What a rollback does to the map.
LEMMA UnpublishedEffect ==
    ASSUME Shape, NEW k \in Callers, call[k].child \in Children, Unpublished(k)
    PROVE  \/ act' = act
           \/ /\ act' = [act EXCEPT ![call[k].child].disposal = "handle"]
              /\ Current(k) /\ act[call[k].child].disposal = "none"
BY DEF Unpublished, Closing, Current

\* ... also in a delivery, whose child may be created by it.
LEMMA OnwardDelivery ==
    ASSUME Shape, NEW k \in Callers, LockedCall(k), DeliveryStep(k), NEW d \in Children
    PROVE  Onward(d) \/ (CreationSucceeds(k) /\ call[k].child = d)
<1> DEFINE c == call[k].child
<1>0. call[k].pc # "idle" => c \in Children  BY DEF LockedCall
<1>1. CASE DeliveryLooks(k) \/ DeliveryRetries(k) \/ DeliveryBuilds(k) \/ CreationFails(k)
           \/ DeliveryRolledBack(k) \/ ReportSends(k)
  <2>1. act' = act
    BY <1>1 DEF DeliveryLooks, DeliveryRetries, DeliveryBuilds, CreationFails,
                DeliveryRolledBack, ReportSends
  <2> QED  BY <2>1, KeptAll, KeptOnward
<1>2. CASE CreationSucceeds(k)
  <2>1. act' = [act EXCEPT ![c] = [NoActivation EXCEPT !.here = TRUE, !.gen = act[c].gen + 1]]
        /\ c \in Children
    BY <1>0, <1>2 DEF CreationSucceeds
  <2>2. CASE d # c  BY <2>1, <2>2, EpochEffect, KeptOnward
  <2> QED  BY <1>2, <2>2
<1>3. ASSUME Unpublished(k), c \in Children  PROVE Onward(d)
  <2>1. CASE act' = act  BY <2>1, KeptAll, KeptOnward
  <2>2. CASE act' = [act EXCEPT ![c].disposal = "handle"]
    <3>1. CASE d = c  BY <1>3, <2>2, <3>1, HandleEffect DEF Onward
    <3>2. CASE d # c  BY <1>3, <2>2, <3>2, HandleEffect, KeptOnward
    <3> QED  BY <3>1, <3>2
  <2> QED  BY <1>3, <2>1, <2>2, UnpublishedEffect
<1>4. CASE CreationAborted(k)  BY <1>0, <1>3, <1>4 DEF CreationAborted
<1>5. CASE DeliveryOwns(k)
  <2>1. c \in Children /\ call[k].pc = "own"  BY <1>0, <1>5 DEF DeliveryOwns
  <2>2. CASE act' = [Owned(c) EXCEPT ![c].published = Current(k)]
    <3>1. Current(k) \in BOOLEAN  BY <2>1 DEF Current, Shape, ActRec
    <3>2. call[k].gen = act[c].gen  BY <2>1 DEF LockedCall, Holding, CallPcs
    <3>3. act[c].here => Current(k)  BY <3>2 DEF Current
    <3>4. KeptJoin(d, c) /\ (d # c => act'[d].published = act[d].published)
          /\ act'[c].published = Current(k)
      BY <2>1, <2>2, <3>1, PublishEffect
    <3> QED  BY <3>3, <3>4 DEF KeptJoin, Onward
  <2> QED  BY <1>3, <1>5, <2>1, <2>2 DEF DeliveryOwns
<1>6. ASSUME Refused(k)  PROVE Onward(d)
  <2>1. act' = act \/ act' = Opened(act, {c})  BY <1>6 DEF Refused
  <2> QED  BY <2>1, OpenEffect, KeptAll, KeptOnward
<1>7. CASE DeliveryAdmits(k) \/ DeliveryUnsuited(k)
  <2>1. Refused(k) \/ act' = act  BY <1>7 DEF DeliveryAdmits, DeliveryUnsuited
  <2> QED  BY <1>6, <2>1, KeptAll, KeptOnward
<1>8. CASE DeliveryAccepts(k)
  <2>1. c \in Children  BY <1>0, <1>8 DEF DeliveryAccepts
  <2>2. Refused(k) \/ act' = Owned(c)  BY <1>8 DEF DeliveryAccepts
  <2>3. CASE act' = Owned(c)  BY <2>1, <2>3, OwnEffect DEF KeptJoin, Onward
  <2> QED  BY <1>6, <2>2, <2>3
<1>9. CASE DeliverySends(k) \/ DeliveryAnnounces(k)
  <2>1. c \in Children  BY <1>0, <1>9 DEF DeliverySends, DeliveryAnnounces
  <2>2. act' = act \/ act' = [act EXCEPT ![c].accepted = @ + 1]
        \/ act' = [act EXCEPT ![c].announced = TRUE]
    BY <1>9 DEF DeliverySends, DeliveryAnnounces
  <2> QED  BY <2>1, <2>2, CountEffect, KeptOnward
<1> QED  BY <1>1, <1>2, <1>4, <1>5, <1>7, <1>8, <1>9 DEF DeliveryStep

\* An agent that stays registered starts running only when it is registered.
CalmAgent(d) ==
    /\ agent'[d].live = agent[d].live
    /\ agent'[d].running => agent[d].running \/ agent[d].live

\* A turn goes on.
TurnKept(d) == agent[d].running => agent'[d].running

\* A message wakes only a registered agent.
LEMMA SentEffect ==
    ASSUME Shape, NEW c, NEW g, agent' = SentTo(c, g), NEW d \in Children
    PROVE  /\ CalmAgent(d) /\ TurnKept(d)
           /\ agent'[d] = IF d = c /\ agent[c].live /\ act[c].gen = g
                          THEN Woken(agent[c]) ELSE agent[d]
<1>1. agent[d] \in AgentRec  BY DEF Shape
<1>2. agent'[d] = IF d = c /\ agent[c].live /\ act[c].gen = g
                  THEN Woken(agent[c]) ELSE agent[d]
  BY DEF Shape, SentTo
<1>3. Woken(agent[d]).live = agent[d].live /\ Woken(agent[d]).running = TRUE
  BY <1>1, WokenShape
<1> QED  BY <1>2, <1>3 DEF CalmAgent, TurnKept

\* An unchanged registry.
LEMMA AgentsKept == ASSUME agent' = agent  PROVE \A d \in Children : CalmAgent(d) /\ TurnKept(d)
BY DEF CalmAgent, TurnKept

\* The steps of a child and of a teardown, but for the disposal of a handle, keep
\* registrations; a turn ends only when it rests.
LEMMA AgentChild ==
    ASSUME Shape, NEW c \in Children, NEW d \in Children,
           \/ AgentStep(c) \/ Interrupt(c) \/ WatcherSettles(c)
           \/ DisposalStops(c) \/ DisposalQuiesces(c) \/ ActivationDeleted(c)
           \/ LateStep(c) \/ DrainChildren(c)
           \/ \E k \in Callers : DeliveryBegins(k, c) \/ ReportCounts(k, c)
           \/ DrainBegins \/ DrainStep \/ DrainDescendants
    PROVE  CalmAgent(d) /\ (TurnKept(d) \/ (AgentRests(c) /\ d = c))
<1>0. agent[c] \in AgentRec /\ agent \in [Children -> AgentRec]  BY DEF Shape
<1>1. CASE AgentClaims(c)
  BY <1>0, <1>1 DEF AgentClaims, CalmAgent, TurnKept, AgentRec
<1>2. CASE AgentRests(c)
  BY <1>0, <1>2 DEF AgentRests, CalmAgent, TurnKept, AgentRec
<1>3. CASE AgentReplays(c)
  <2>1. CASE d = c
    <3>1. agent[c].live /\ ~agent[c].running  BY <1>3 DEF AgentReplays
    <3>2. agent'[c].live = agent[c].live  BY <1>0, <1>3 DEF AgentReplays, AgentRec
    <3> QED  BY <2>1, <3>1, <3>2 DEF CalmAgent, TurnKept
  <2>2. CASE d # c
    <3>1. agent'[d] = agent[d]  BY <1>0, <1>3, <2>2 DEF AgentReplays
    <3> QED  BY <3>1 DEF CalmAgent, TurnKept
  <2> QED  BY <2>1, <2>2
<1>4. CASE Interrupt(c)
  BY <1>0, <1>4 DEF Interrupt, CalmAgent, TurnKept, AgentRec
<1>5. CASE DisposalStops(c) \/ DisposalQuiesces(c)
  <2>1. agent' = [agent EXCEPT ![c] = Cancelled(@)]
    BY <1>5 DEF DisposalStops, DisposalQuiesces
  <2>2. Cancelled(agent[c]).live = agent[c].live /\ Cancelled(agent[c]).running = agent[c].running
    BY <1>0 DEF Cancelled, AgentRec
  <2>3. CASE d = c
    <3>1. agent'[d] = Cancelled(agent[c])  BY <1>0, <2>1, <2>3
    <3> QED  BY <2>2, <2>3, <3>1 DEF CalmAgent, TurnKept
  <2>4. CASE d # c
    <3>1. agent'[d] = agent[d]  BY <1>0, <2>1, <2>4
    <3> QED  BY <3>1 DEF CalmAgent, TurnKept
  <2> QED  BY <2>3, <2>4
<1>6. CASE LateSends(c)  BY <1>6, SentEffect DEF LateSends
<1>7. CASE WatcherSettles(c) \/ ActivationDeleted(c) \/ LateNotifies(c) \/ LateDisowns(c)
           \/ DrainChildren(c) \/ (\E k \in Callers : DeliveryBegins(k, c) \/ ReportCounts(k, c))
           \/ DrainBegins \/ DrainStep \/ DrainDescendants
  <2>1. agent' = agent
    BY <1>7 DEF WatcherSettles, ActivationDeleted, LateNotifies, LateDisowns, DrainChildren,
                DeliveryBegins, ReportCounts, DrainBegins, DrainStep, DrainDisposes, DrainEnds,
                DrainDescendants
  <2> QED  BY <2>1, AgentsKept
<1> QED  BY <1>1, <1>2, <1>3, <1>4, <1>5, <1>6, <1>7 DEF AgentStep, LateStep

\* ... so do the steps of a delivery, but for the creation of an epoch.
LEMMA AgentDelivery ==
    ASSUME Shape, NEW k \in Callers, DeliveryStep(k), NEW d \in Children
    PROVE  (CalmAgent(d) /\ TurnKept(d)) \/ CreationSucceeds(k)
<1>1. CASE DeliverySends(k) \/ ReportSends(k)
  <2>1. PICK c, g : agent' = SentTo(c, g)  BY <1>1 DEF DeliverySends, ReportSends
  <2> QED  BY <2>1, SentEffect
<1>2. CASE agent' = agent  BY <1>2, AgentsKept
<1>3. DeliverySends(k) \/ ReportSends(k) \/ CreationSucceeds(k) \/ agent' = agent
  BY DEF DeliveryStep, DeliveryLooks, DeliveryRetries, DeliveryBuilds, CreationFails,
         DeliveryOwns, CreationAborted, DeliveryRolledBack, DeliveryAdmits, DeliveryUnsuited,
         DeliveryAccepts, DeliveryAnnounces
<1> QED  BY <1>1, <1>2, <1>3

\* It stays as it is where the Activation does.
LEMMA ResidentFrame ==
    ASSUME Shape, Shape', NEW d \in Children, ResidentAt(d), CalmAgent(d),
           Kept(d) \/ \E S : KeptOpen(d, S)
    PROVE  ResidentAt(d)'
BY DEF ResidentAt, CalmAgent, Kept, KeptOpen

\* Every step of a child keeps residence and registration together.
LEMMA ResidentChild ==
    ASSUME Shape, Shape', NEW c \in Children, NEW d \in Children, ResidentAt(d),
           \/ AgentStep(c) \/ Interrupt(c) \/ WatcherSettles(c) \/ DisposalStep(c)
           \/ LateStep(c) \/ DrainChildren(c)
           \/ \E k \in Callers : DeliveryBegins(k, c) \/ ReportCounts(k, c)
           \/ DrainBegins \/ DrainStep \/ DrainDescendants
    PROVE  ResidentAt(d)'
<1>0. ~HandleDisposed(c) => CalmAgent(d)  BY AgentChild DEF DisposalStep
<1>a. ASSUME Kept(d) \/ \E S : KeptOpen(d, S), ~HandleDisposed(c)  PROVE ResidentAt(d)'
  BY <1>0, <1>a, ResidentFrame
<1>b. HandleDisposed(c) => act[c].disposal = "handle" /\ act'[c].disposal = "delete"
  BY HandleEffect DEF HandleDisposed
<1>1. CASE AgentStep(c)
  <2>1. act' = act \/ act' = [act EXCEPT ![c] = Left(@, 1)]
    BY <1>1 DEF AgentStep, AgentClaims, AgentRests, AgentReplays
  <2>2. \A e \in Children : Kept(e)  BY <2>1, CountEffect
  <2> QED  BY <1>a, <1>b, <2>2 DEF Kept
<1>2. CASE Interrupt(c) \/ (\E k \in Callers : DeliveryBegins(k, c)) \/ DrainBegins \/ DrainEnds
  <2>1. act' = act  BY <1>2 DEF Interrupt, DeliveryBegins, DrainBegins, DrainEnds
  <2>2. \A e \in Children : Kept(e)  BY <2>1, KeptAll
  <2> QED  BY <1>a, <1>b, <2>2 DEF Kept
<1>3. CASE WatcherSettles(c)
  <2>1. act[c].here /\ act'[c].disposal = "stop" /\ act[c].disposal = "none"
    BY <1>3, WatcherEffect DEF WatcherSettles, Closing
  <2>2. CASE d # c  BY <1>3, <1>a, <1>b, <2>1, <2>2, WatcherEffect
  <2>3. CASE d = c  BY <1>0, <1>3, <1>b, <2>1, <2>3, WatcherEffect DEF ResidentAt, CalmAgent
  <2> QED  BY <2>2, <2>3
<1>4. CASE DisposalStops(c)
  <2>1. act[c].disposal = "stop" /\ act'[c].disposal = "kids"
    BY <1>4, StopEffect DEF DisposalStops
  <2>2. CASE d # c  BY <1>4, <1>a, <1>b, <2>1, <2>2, StopEffect
  <2>3. CASE d = c  BY <1>0, <1>4, <1>b, <2>1, <2>3, StopEffect DEF ResidentAt, CalmAgent
  <2> QED  BY <2>2, <2>3
<1>5. CASE DisposalQuiesces(c)
  <2>1. act[c].disposal = "kids" /\ act'[c].disposal = "handle"
    BY <1>5, QuiesceEffect DEF DisposalQuiesces
  <2>2. CASE d # c  BY <1>5, <1>a, <1>b, <2>1, <2>2, QuiesceEffect
  <2>3. CASE d = c  BY <1>0, <1>5, <1>b, <2>1, <2>3, QuiesceEffect DEF ResidentAt, CalmAgent
  <2> QED  BY <2>2, <2>3
<1>6. CASE HandleDisposed(c)
  <2>0. act' = [act EXCEPT ![c].disposal = "delete"] /\ agent' = [agent EXCEPT ![c] = NoAgent]
        /\ act[c].disposal = "handle"
    BY <1>6 DEF HandleDisposed
  <2>1. NoAgent.live = FALSE /\ NoAgent.running = FALSE  BY DEF NoAgent
  <2>2. CASE d # c
    <3>1. CalmAgent(d)  BY <2>0, <2>2 DEF CalmAgent, Shape
    <3> QED  BY <2>0, <2>2, <3>1, HandleEffect, ResidentFrame
  <2>3. CASE d = c
    <3>1. agent'[d] = NoAgent  BY <2>0, <2>3 DEF Shape
    <3> QED  BY <2>0, <2>1, <2>3, <3>1, HandleEffect, ZenonT(60) DEF ResidentAt
  <2> QED  BY <2>2, <2>3
<1>7. CASE ActivationDeleted(c)
  <2>1. act[c].disposal = "delete" /\ act'[c].disposal = "none" /\ act'[c].here = FALSE
    BY <1>7, DeletedEffect DEF ActivationDeleted
  <2>2. CASE d # c  BY <1>7, <1>a, <1>b, <2>1, <2>2, DeletedEffect
  <2>3. CASE d = c  BY <1>0, <1>7, <1>b, <2>1, <2>3, DeletedEffect DEF ResidentAt, CalmAgent
  <2> QED  BY <2>2, <2>3
<1>8. CASE LateNotifies(c) \/ LateSends(c)
  <2>1. act' = act \/ (Parent[c] # Root /\ act' = [act EXCEPT ![Parent[c]].accepted = @ + 1])
    BY <1>8 DEF LateNotifies, LateSends
  <2>2. \A e \in Children : Kept(e)  BY <2>1, ParentType, CountEffect, KeptAll
  <2> QED  BY <1>a, <1>b, <2>2 DEF Kept
<1>9. CASE LateDisowns(c)
  BY <1>0, <1>9, <1>b, DisownEffect DEF ResidentAt, CalmAgent
<1>10. CASE DrainChildren(c) \/ DrainDisposes \/ DrainDescendants
  <2>1. PICK S : act' = Opened(act, S)  BY <1>10 DEF DrainChildren, DrainDisposes, DrainDescendants
  <2>2. KeptOpen(d, S) /\ KeptOpen(c, S)  BY <2>1, OpenEffect
  <2> QED  BY <1>a, <1>b, <2>2 DEF KeptOpen
<1>11. CASE \E k \in Callers : ReportCounts(k, c)
  <2>1. Parent[c] # Root /\ act' = [act EXCEPT ![Parent[c]].accepted = @ + 1]
    BY <1>11 DEF ReportCounts
  <2>2. \A e \in Children : Kept(e)  BY <2>1, ParentType, CountEffect
  <2> QED  BY <1>a, <1>b, <2>2 DEF Kept
<1> QED
  BY <1>1, <1>2, <1>3, <1>4, <1>5, <1>6, <1>7, <1>8, <1>9, <1>10, <1>11
  DEF DisposalStep, LateStep, DrainStep

\* What a delivery does to the map: it leaves it alone, ...
Spares(k) == \A d \in Children : Kept(d)

\* ... opens the disposal of the epoch it created, ...
Reopens(k) ==
    /\ call[k].fresh /\ call[k].pc \in {"admit", "accept"} /\ call[k].child \in Children
    /\ Goto(k, "rollback") /\ lock' = lock /\ agent' = agent /\ late' = late
    /\ \A d \in Children : KeptOpen(d, {call[k].child})

\* ... withdraws an epoch it has not published, ...
Withdraws(k) ==
    LET c == call[k].child IN
    /\ call[k].pc = "own" /\ c \in Children /\ Current(k) /\ act[c].disposal = "none"
    /\ Goto(k, "rollback") /\ lock' = lock /\ agent' = agent /\ late' = late
    /\ \A d \in Children \ {c} : Kept(d)
    /\ act'[c].here = act[c].here /\ act'[c].gen = act[c].gen
    /\ act'[c].published = act[c].published /\ act'[c].disposal = "handle"
    /\ act'[c].settled = act[c].settled /\ act'[c].owned = act[c].owned
    /\ act'[c].kids = act[c].kids

\* ... or has the parent own its child, which it may publish.
Joins(k) ==
    LET c == call[k].child IN
    /\ c \in Children /\ MayOwn(c)
    /\ lock' = lock /\ agent' = agent /\ late' = late
    /\ \A d \in Children : KeptJoin(d, c)
    /\ \A d \in Children \ {c} : act'[d].published = act[d].published
    /\ \/ call[k].pc = "own" /\ Admitting /\ act'[c].published = act[c].here /\ Goto(k, "admit")
       \/ call[k].pc = "accept" /\ act'[c].published = act[c].published /\ Goto(k, "send")

\* A delivery that is refused.
LEMMA RefusedClass ==
    ASSUME Shape, NEW k \in Callers, call[k].pc \in {"admit", "accept"},
           call[k].child \in Children, Refused(k), agent' = agent, late' = late
    PROVE  Spares(k) \/ Reopens(k)
<1>1. CASE call[k].fresh
  <2>1. act' = Opened(act, {call[k].child}) /\ Goto(k, "rollback") /\ lock' = lock
    BY <1>1 DEF Refused
  <2> QED  BY <1>1, <2>1, OpenEffect DEF Reopens
<1>2. CASE ~call[k].fresh
  <2>1. act' = act  BY <1>2 DEF Refused
  <2> QED  BY <2>1, KeptAll DEF Spares
<1> QED  BY <1>1, <1>2

\* A creation that is rolled back.
LEMMA UnpublishedClass ==
    ASSUME Shape, NEW k \in Callers, call[k].pc = "own",
           call[k].child \in Children, Unpublished(k), lock' = lock, agent' = agent, late' = late
    PROVE  Spares(k) \/ Withdraws(k)
<1>1. CASE act' = act  BY <1>1, KeptAll DEF Spares
<1>2. CASE /\ act' = [act EXCEPT ![call[k].child].disposal = "handle"]
           /\ Current(k) /\ act[call[k].child].disposal = "none"
  <2>1. Goto(k, "rollback")  BY DEF Unpublished
  <2> QED  BY <1>2, <2>1, HandleEffect DEF Withdraws
<1> QED  BY <1>1, <1>2, UnpublishedEffect

\* Every step of a delivery is one of these, or creates the epoch.
LEMMA DeliveryClasses ==
    ASSUME Shape, NEW k \in Callers, LockedCall(k), DeliveryStep(k)
    PROVE  Spares(k) \/ Reopens(k) \/ Withdraws(k) \/ Joins(k) \/ CreationSucceeds(k)
<1> DEFINE c == call[k].child
<1>0. call[k].pc # "idle" => c \in Children  BY DEF LockedCall
<1>1. CASE DeliveryLooks(k) \/ DeliveryRetries(k) \/ DeliveryBuilds(k) \/ CreationFails(k)
           \/ DeliveryRolledBack(k) \/ ReportSends(k)
  <2>1. act' = act
    BY <1>1 DEF DeliveryLooks, DeliveryRetries, DeliveryBuilds, CreationFails,
                DeliveryRolledBack, ReportSends
  <2> QED  BY <2>1, KeptAll DEF Spares
<1>4. CASE CreationAborted(k)  BY <1>0, <1>4, UnpublishedClass DEF CreationAborted
<1>5. CASE DeliveryOwns(k)
  <2>1. /\ c \in Children /\ call[k].pc = "own"
        /\ lock' = lock /\ agent' = agent /\ late' = late
    BY <1>0, <1>5 DEF DeliveryOwns
  <2>2. CASE act' = [Owned(c) EXCEPT ![c].published = Current(k)] /\ Goto(k, "admit")
             /\ Admitting /\ MayOwn(c)
    <3>1. Current(k) \in BOOLEAN  BY <2>1 DEF Current, Shape, ActRec
    <3>2. call[k].gen = act[c].gen  BY <2>1 DEF LockedCall, Holding, CallPcs
    <3>3. Current(k) = act[c].here  BY <2>1, <3>2 DEF Current, Shape, ActRec
    <3>4. /\ \A d \in Children : KeptJoin(d, c)
          /\ \A d \in Children \ {c} : act'[d].published = act[d].published
          /\ act'[c].published = Current(k)
      BY <2>1, <2>2, <3>1, PublishEffect
    <3> QED  BY <2>1, <2>2, <3>3, <3>4, Zenon DEF Joins
  <2>3. CASE Unpublished(k)  BY <2>1, <2>3, UnpublishedClass
  <2> QED  BY <1>5, <2>2, <2>3 DEF DeliveryOwns
<1>7. CASE DeliveryAdmits(k) \/ DeliveryUnsuited(k)
  <2>1. Refused(k) \/ act' = act  BY <1>7 DEF DeliveryAdmits, DeliveryUnsuited
  <2>2. call[k].pc = "admit" /\ agent' = agent /\ late' = late
    BY <1>7 DEF DeliveryAdmits, DeliveryUnsuited
  <2> QED  BY <1>0, <2>1, <2>2, RefusedClass, KeptAll DEF Spares
<1>8. CASE DeliveryAccepts(k)
  <2>1. c \in Children /\ call[k].pc = "accept" /\ agent' = agent /\ late' = late
    BY <1>0, <1>8 DEF DeliveryAccepts
  <2>2. Refused(k) \/ (act' = Owned(c) /\ MayOwn(c) /\ Goto(k, "send") /\ lock' = lock)
    BY <1>8 DEF DeliveryAccepts
  <2>3. CASE act' = Owned(c) /\ MayOwn(c) /\ Goto(k, "send") /\ lock' = lock
    BY <2>1, <2>3, OwnEffect DEF Joins
  <2> QED  BY <2>1, <2>2, <2>3, RefusedClass
<1>9. CASE DeliverySends(k) \/ DeliveryAnnounces(k)
  <2>1. c \in Children  BY <1>0, <1>9 DEF DeliverySends, DeliveryAnnounces
  <2>2. act' = act \/ act' = [act EXCEPT ![c].accepted = @ + 1]
        \/ act' = [act EXCEPT ![c].announced = TRUE]
    BY <1>9 DEF DeliverySends, DeliveryAnnounces
  <2> QED  BY <2>1, <2>2, CountEffect DEF Spares
<1> QED  BY <1>1, <1>4, <1>5, <1>7, <1>8, <1>9 DEF DeliveryStep

\* What a creation does.
LEMMA CreationEffect ==
    ASSUME Shape, NEW k \in Callers, LockedCall(k), CreationSucceeds(k)
    PROVE  LET c == call[k].child IN
           /\ c \in Children /\ lock[c] = k /\ ~act[c].here
           /\ \A d \in Children \ {c} : Kept(d) /\ agent'[d] = agent[d]
           /\ act'[c].here /\ act'[c].gen = act[c].gen + 1
           /\ act'[c].published = FALSE /\ act'[c].disposal = "none"
           /\ act'[c].settled = FALSE /\ act'[c].owned = {} /\ act'[c].kids = {}
           /\ act'[c].accepted = 0
           /\ agent'[c].live = TRUE /\ agent'[c].running = FALSE /\ agent'[c].pending = 0
           /\ call'[k].pc = "own" /\ call'[k].child = c /\ call'[k].gen = act[c].gen + 1
           /\ call'[k].fresh = TRUE /\ \A j \in Callers \ {k} : call'[j] = call[j]
<1> DEFINE c == call[k].child
<1>1. c \in Children /\ lock[c] = k /\ ~act[c].here
  BY DEF CreationSucceeds, LockedCall, Holding, CallPcs
<1>2. act' = [act EXCEPT ![c] = [NoActivation EXCEPT !.here = TRUE, !.gen = act[c].gen + 1]]
  BY DEF CreationSucceeds
<1>3. /\ \A d \in Children \ {c} : Kept(d)
      /\ act'[c].here /\ act'[c].gen = act[c].gen + 1
      /\ act'[c].published = FALSE /\ act'[c].disposal = "none"
      /\ act'[c].settled = FALSE /\ act'[c].owned = {} /\ act'[c].kids = {}
      /\ act'[c].accepted = 0
  BY <1>1, <1>2, EpochEffect
<1>4. agent' = [agent EXCEPT ![c] = [NoAgent EXCEPT !.live = TRUE]]  BY DEF CreationSucceeds
<1>5. /\ \A d \in Children \ {c} : agent'[d] = agent[d]
      /\ agent'[c] = [NoAgent EXCEPT !.live = TRUE]
  BY <1>1, <1>4 DEF Shape
<1>6. agent'[c].live = TRUE /\ agent'[c].running = FALSE /\ agent'[c].pending = 0
  BY <1>5 DEF NoAgent
<1>7. call' = [call EXCEPT ![k].pc = "own", ![k].gen = act[c].gen + 1, ![k].fresh = TRUE]
  BY DEF CreationSucceeds
<1>8. /\ call'[k].pc = "own" /\ call'[k].child = c /\ call'[k].gen = act[c].gen + 1
      /\ call'[k].fresh = TRUE /\ \A j \in Callers \ {k} : call'[j] = call[j]
  <2>1. call'[k] = [call[k] EXCEPT !.pc = "own", !.gen = act[c].gen + 1, !.fresh = TRUE]
    BY <1>7 DEF Shape
  <2>2. call[k] \in CallRec  BY DEF Shape
  <2>3. \A j \in Callers \ {k} : call'[j] = call[j]  BY <1>7 DEF Shape
  <2> QED  BY <2>1, <2>2, <2>3 DEF CallRec
<1> QED  BY <1>1, <1>3, <1>5, <1>6, <1>8

\* Every step of a delivery keeps residence and registration together.
LEMMA ResidentDelivery ==
    ASSUME Shape, Shape', NEW k \in Callers, LockedCall(k), DeliveryStep(k), NEW d \in Children,
           ResidentAt(d), Books
    PROVE  ResidentAt(d)'
<1> DEFINE c == call[k].child
<1>0. CalmAgent(d) \/ CreationSucceeds(k)  BY AgentDelivery
<1>1. CASE CreationSucceeds(k)
  <2>1. CASE d = c  BY <1>1, <2>1, CreationEffect DEF ResidentAt
  <2>2. CASE d # c
    <3>1. agent'[d] = agent[d] /\ Kept(d)  BY <1>1, <2>2, CreationEffect, ZenonT(60)
    <3> QED  BY <3>1, ResidentFrame DEF CalmAgent
  <2> QED  BY <2>1, <2>2
<1>2. ASSUME Spares(k) \/ Reopens(k), ~CreationSucceeds(k)  PROVE ResidentAt(d)'
  BY <1>0, <1>2, ResidentFrame DEF Spares, Reopens
<1>3. CASE Withdraws(k)
  <2>1. agent' = agent /\ act[c].here  BY <1>3 DEF Withdraws, Current
  <2>2. CASE d = c  BY <1>3, <2>1, <2>2 DEF Withdraws, ResidentAt
  <2>3. CASE d # c
    <3>1. Kept(d)  BY <1>3, <2>3 DEF Withdraws
    <3> QED  BY <2>1, <3>1, ResidentFrame, AgentsKept
  <2> QED  BY <2>2, <2>3
<1>4. CASE Joins(k)
  <2>1. agent' = agent /\ KeptJoin(d, c)  BY <1>4 DEF Joins
  <2>2. ~act[d].here => act'[d].published = act[d].published \/ act'[d].published = act[d].here
    BY <1>4 DEF Joins
  <2> QED  BY <2>1, <2>2 DEF KeptJoin, ResidentAt
<1> QED  BY <1>1, <1>2, <1>3, <1>4, DeliveryClasses

\* The steps that are not a delivery's own.
OtherStep(c) ==
    \/ AgentStep(c) \/ Interrupt(c) \/ WatcherSettles(c) \/ DisposalStep(c)
    \/ LateStep(c) \/ DrainChildren(c)
    \/ \E k \in Callers : DeliveryBegins(k, c) \/ ReportCounts(k, c)
    \/ DrainBegins \/ DrainStep \/ DrainDescendants

\* The teardowns that open transactions.
Teardown(c) == DrainChildren(c) \/ DrainDisposes \/ DrainDescendants

\* What the other steps do to the map.
LEMMA OtherClasses ==
    ASSUME Shape, NEW c \in Children, OtherStep(c)
    PROVE  \/ \A d \in Children : Kept(d)
           \/ Teardown(c) /\ \E S : \A d \in Children : KeptOpen(d, S)
           \/ WatcherSettles(c) \/ DisposalStops(c) \/ DisposalQuiesces(c)
           \/ HandleDisposed(c) \/ ActivationDeleted(c) \/ LateDisowns(c)
<1>1. CASE AgentStep(c)
  <2>1. act' = act \/ act' = [act EXCEPT ![c] = Left(@, 1)]
    BY <1>1 DEF AgentStep, AgentClaims, AgentRests, AgentReplays
  <2> QED  BY <2>1, CountEffect
<1>2. CASE Interrupt(c) \/ (\E k \in Callers : DeliveryBegins(k, c)) \/ DrainBegins \/ DrainEnds
  <2>1. act' = act  BY <1>2 DEF Interrupt, DeliveryBegins, DrainBegins, DrainEnds
  <2> QED  BY <2>1, KeptAll
<1>3. CASE LateNotifies(c) \/ LateSends(c)
  <2>1. act' = act \/ (Parent[c] # Root /\ act' = [act EXCEPT ![Parent[c]].accepted = @ + 1])
    BY <1>3 DEF LateNotifies, LateSends
  <2> QED  BY <2>1, ParentType, CountEffect, KeptAll
<1>4. CASE Teardown(c)
  <2>1. PICK S : act' = Opened(act, S)
    BY <1>4 DEF Teardown, DrainChildren, DrainDisposes, DrainDescendants
  <2>2. \A d \in Children : KeptOpen(d, S)  BY <2>1, OpenEffect
  <2> QED  BY <1>4, <2>2
<1>5. CASE \E k \in Callers : ReportCounts(k, c)
  <2>1. Parent[c] # Root /\ act' = [act EXCEPT ![Parent[c]].accepted = @ + 1]
    BY <1>5 DEF ReportCounts
  <2> QED  BY <2>1, ParentType, CountEffect
<1> QED
  BY <1>1, <1>2, <1>3, <1>4, <1>5 DEF OtherStep, DisposalStep, LateStep, DrainStep, Teardown

\* Every step is a delivery's own or another one.
LEMMA StepKinds ==
    ASSUME Next, NEW d \in Children
    PROVE  (\E c \in Children : OtherStep(c)) \/ (\E k \in Callers : DeliveryStep(k))
BY DEF Next, OtherStep

\* The calls under the other steps: only the ones that begin move.
LEMMA OtherCalls ==
    ASSUME Shape, NEW c \in Children, OtherStep(c)
    PROVE  /\ lock' = lock
           /\ \/ call' = call
              \/ \E k \in Callers :
                    /\ call[k].pc = "idle" /\ \A j \in Callers \ {k} : call'[j] = call[j]
                    /\ call'[k].child = c
                    /\ \/ DeliveryBegins(k, c) /\ call'[k].pc = "lock" /\ ~call'[k].fresh
                       \/ ReportCounts(k, c) /\ call'[k].pc = "report"
<1>1. ASSUME NEW k \in Callers, DeliveryBegins(k, c)
      PROVE  /\ lock' = lock /\ call[k].pc = "idle"
             /\ \A j \in Callers \ {k} : call'[j] = call[j]
             /\ call'[k].child = c /\ call'[k].pc = "lock" /\ ~call'[k].fresh
  <2>1. call'[k] = [NoCall EXCEPT !.pc = "lock", !.child = c]
    BY <1>1 DEF DeliveryBegins, Shape
  <2>2. call'[k].child = c /\ call'[k].pc = "lock" /\ ~call'[k].fresh  BY <2>1 DEF NoCall
  <2>3. \A j \in Callers \ {k} : call'[j] = call[j]  BY <1>1 DEF DeliveryBegins, Shape
  <2> QED  BY <1>1, <2>2, <2>3 DEF DeliveryBegins
<1>2. ASSUME NEW k \in Callers, ReportCounts(k, c)
      PROVE  /\ lock' = lock /\ call[k].pc = "idle"
             /\ \A j \in Callers \ {k} : call'[j] = call[j]
             /\ call'[k].child = c /\ call'[k].pc = "report"
  <2> DEFINE n == act[Parent[c]].gen
  <2>1. call'[k] = [NoCall EXCEPT !.pc = "report", !.child = c, !.gen = n]
    BY <1>2 DEF ReportCounts, Shape
  <2> HIDE DEF n
  <2>2. call'[k].child = c /\ call'[k].pc = "report"  BY <2>1 DEF NoCall
  <2>3. \A j \in Callers \ {k} : call'[j] = call[j]  BY <1>2 DEF ReportCounts, Shape
  <2> QED  BY <1>2, <2>2, <2>3 DEF ReportCounts
<1>3. CASE ~\E k \in Callers : DeliveryBegins(k, c) \/ ReportCounts(k, c)
  BY <1>3 DEF OtherStep, AgentStep, DisposalStep, LateStep, DrainStep, AgentClaims, AgentRests,
     AgentReplays, Interrupt, WatcherSettles, DisposalStops, DisposalQuiesces, HandleDisposed,
     ActivationDeleted, LateNotifies, LateSends, LateDisowns, DrainChildren, DrainBegins,
     DrainDisposes, DrainEnds, DrainDescendants
<1> QED  BY <1>1, <1>2, <1>3

\* A call that moves on.
LEMMA GotoEffect ==
    ASSUME Shape, NEW k \in Callers, NEW p, Goto(k, p)
    PROVE  /\ call'[k].pc = p /\ call'[k].child = call[k].child /\ call'[k].gen = call[k].gen
           /\ call'[k].fresh = call[k].fresh
           /\ \A j \in Callers \ {k} : call'[j] = call[j]
<1>1. call'[k] = [call[k] EXCEPT !.pc = p] /\ \A j \in Callers \ {k} : call'[j] = call[j]
  BY DEF Goto, Shape
<1>2. call[k] \in CallRec  BY DEF Shape
<1> QED  BY <1>1, <1>2 DEF CallRec

\* A call that returns.
LEMMA ReturnEffect ==
    ASSUME Shape, NEW k \in Callers, Return(k)
    PROVE  /\ call'[k].pc = "idle"
           /\ \A j \in Callers \ {k} : call'[j] = call[j]
           /\ \A d \in Children : lock'[d] = IF d = call[k].child THEN NoCaller ELSE lock[d]
<1>1. call'[k] = NoCall /\ \A j \in Callers \ {k} : call'[j] = call[j]  BY DEF Return, Shape
<1>2. NoCall.pc = "idle"  BY DEF NoCall
<1> QED  BY <1>1, <1>2 DEF Return, Shape

\* The places a delivery passes through inside its child's lock.
Passes == {<<"create", "build">>, <<"own", "admit">>, <<"own", "rollback">>,
           <<"admit", "accept">>, <<"admit", "rollback">>, <<"accept", "send">>,
           <<"accept", "rollback">>, <<"send", "announce">>}

\* How a delivery moves: it returns, starts over, looks, creates or passes on.
Moves(k) ==
    LET c == call[k].child IN
    /\ c \in Children /\ call[k].pc # "idle"
    /\ \A j \in Callers \ {k} : call'[j] = call[j]
    /\ \A d \in Children : lock'[d] = lock[d] \/ (d = c /\ lock[d] \in {k, NoCaller})
    /\ \/ call'[k].pc = "idle"
       \/ call'[k].pc = "lock" /\ call'[k].child = c /\ ~call'[k].fresh /\ call[k].pc = "retry"
       \/ /\ DeliveryLooks(k) /\ lock'[c] = k /\ lock[c] = NoCaller
          /\ call'[k].child = c /\ call'[k].gen = act[c].gen /\ call'[k].fresh = call[k].fresh
          /\ call'[k].pc = IF ~act[c].here THEN "create"
                           ELSE IF Closing(c) THEN "retry" ELSE "admit"
       \/ CreationSucceeds(k) /\ lock' = lock
       \/ /\ call'[k].child = c /\ call'[k].gen = call[k].gen /\ call'[k].fresh = call[k].fresh
          /\ lock' = lock /\ call[k].pc \in Holding
          /\ <<call[k].pc, call'[k].pc>> \in Passes

\* Every step of a delivery is such a move.
LEMMA DeliveryMoves ==
    ASSUME Shape, NEW k \in Callers, LockedCall(k), DeliveryStep(k)
    PROVE  Moves(k)
<1> USE DEF Moves, Passes
<1> DEFINE c == call[k].child
<1>0. /\ call[k].pc # "idle" => c \in Children
      /\ call[k].pc \in Holding => lock[c] = k
  BY DEF LockedCall
<1>a. ASSUME Return(k), call[k].pc \in Holding  PROVE Moves(k)
  <2>1. call[k].pc # "idle"  BY <1>a DEF Holding
  <2> QED  BY <1>0, <1>a, <2>1, ReturnEffect
<1>b. ASSUME NEW p, Goto(k, p), lock' = lock, call[k].pc \in Holding,
             <<call[k].pc, p>> \in Passes
      PROVE  Moves(k)
  <2>1. call[k].pc # "idle"  BY <1>b DEF Holding
  <2> QED  BY <1>0, <1>b, <2>1, GotoEffect
<1>1. CASE DeliveryLooks(k)
  <2> DEFINE n == act[c].gen
             p == IF ~act[c].here THEN "create" ELSE IF Closing(c) THEN "retry" ELSE "admit"
  <2>1. call' = [call EXCEPT ![k].gen = n, ![k].pc = p]  BY <1>1 DEF DeliveryLooks
  <2>2. call[k] \in CallRec  BY DEF Shape
  <2> HIDE DEF n, p
  <2>3. call'[k] = [call[k] EXCEPT !.gen = n, !.pc = p]
        /\ \A j \in Callers \ {k} : call'[j] = call[j]
    BY <2>1 DEF Shape
  <2>4. call'[k].pc = p /\ call'[k].gen = n /\ call'[k].child = c /\ call'[k].fresh = call[k].fresh
    BY <2>2, <2>3 DEF CallRec
  <2>5. c \in Children /\ lock[c] = NoCaller /\ call[k].pc = "lock"
    BY <1>0, <1>1 DEF DeliveryLooks
  <2>6. lock'[c] = k /\ \A d \in Children \ {c} : lock'[d] = lock[d]
    BY <1>1, <2>5 DEF DeliveryLooks, Shape
  <2> QED  BY <1>1, <2>3, <2>4, <2>5, <2>6 DEF n, p
<1>2. CASE DeliveryRetries(k)
  <2>1. call[k].pc = "retry" /\ c \in Children  BY <1>0, <1>2 DEF DeliveryRetries
  <2>2. \A d \in Children : lock'[d] = lock[d] \/ (d = c /\ lock[d] \in {k, NoCaller})
    BY <1>0, <1>2, <2>1 DEF DeliveryRetries, Holding, CallPcs, Shape
  <2>3. /\ call'[k] = NoCall \/ call'[k] = [NoCall EXCEPT !.pc = "lock", !.child = c]
        /\ \A j \in Callers \ {k} : call'[j] = call[j]
    BY <1>2 DEF DeliveryRetries, Shape
  <2>4. call'[k].pc = "idle" \/ (call'[k].pc = "lock" /\ call'[k].child = c /\ ~call'[k].fresh)
    <3>1. CASE call'[k] = NoCall  BY <3>1 DEF NoCall
    <3>2. CASE call'[k] = [NoCall EXCEPT !.pc = "lock", !.child = c]  BY <3>2 DEF NoCall
    <3> QED  BY <2>3, <3>1, <3>2
  <2> QED  BY <2>1, <2>2, <2>3, <2>4
<1>3. CASE DeliveryBuilds(k)
  <2>1. call[k].pc = "create" /\ call[k].pc \in Holding  BY <1>3 DEF DeliveryBuilds, Holding, CallPcs
  <2>2. Return(k) \/ (Goto(k, "build") /\ lock' = lock)  BY <1>3 DEF DeliveryBuilds
  <2> QED  BY <1>a, <1>b, <2>1, <2>2
<1>4. CASE CreationFails(k) \/ DeliveryRolledBack(k) \/ DeliveryAnnounces(k)
  <2>1. Return(k) /\ call[k].pc \in Holding
    BY <1>4 DEF CreationFails, DeliveryRolledBack, DeliveryAnnounces, Holding, CallPcs
  <2> QED  BY <1>a, <2>1
<1>5. CASE CreationSucceeds(k)
  <2>1. lock' = lock /\ call[k].pc = "build"  BY <1>5 DEF CreationSucceeds
  <2> QED  BY <1>5, <2>1, CreationEffect
<1>6. CASE DeliveryOwns(k) \/ CreationAborted(k)
  <2>1. call[k].pc = "own" /\ call[k].pc \in Holding /\ lock' = lock
    BY <1>6 DEF DeliveryOwns, CreationAborted, Holding, CallPcs
  <2>2. Goto(k, "admit") \/ Goto(k, "rollback")
    BY <1>6 DEF DeliveryOwns, CreationAborted, Unpublished
  <2> QED  BY <1>b, <2>1, <2>2
<1>7. CASE DeliveryAdmits(k) \/ DeliveryUnsuited(k)
  <2>1. call[k].pc = "admit" /\ call[k].pc \in Holding
    BY <1>7 DEF DeliveryAdmits, DeliveryUnsuited, Holding, CallPcs
  <2>2. ((Goto(k, "accept") \/ Goto(k, "rollback")) /\ lock' = lock) \/ Return(k)
    BY <1>7 DEF DeliveryAdmits, DeliveryUnsuited, Refused
  <2> QED  BY <1>a, <1>b, <2>1, <2>2
<1>8. CASE DeliveryAccepts(k)
  <2>1. call[k].pc = "accept" /\ call[k].pc \in Holding
    BY <1>8 DEF DeliveryAccepts, Holding, CallPcs
  <2>2. ((Goto(k, "send") \/ Goto(k, "rollback")) /\ lock' = lock) \/ Return(k)
    BY <1>8 DEF DeliveryAccepts, Refused
  <2> QED  BY <1>a, <1>b, <2>1, <2>2
<1>9. CASE DeliverySends(k)
  <2>1. call[k].pc = "send" /\ call[k].pc \in Holding /\ Goto(k, "announce") /\ lock' = lock
    BY <1>9 DEF DeliverySends, Holding, CallPcs
  <2> QED  BY <1>b, <2>1
<1>10. CASE ReportSends(k)
  <2>1. call[k].pc = "report" /\ lock' = lock /\ call'[k] = NoCall
        /\ \A j \in Callers \ {k} : call'[j] = call[j]
    BY <1>10 DEF ReportSends, Shape
  <2> QED  BY <1>0, <2>1 DEF NoCall
<1> HIDE DEF Moves, Passes
<1> QED
  BY <1>1, <1>2, <1>3, <1>4, <1>5, <1>6, <1>7, <1>8, <1>9, <1>10 DEF DeliveryStep

\* Books are kept where the Activation is.
LEMMA BooksFrame ==
    ASSUME NEW d \in Children, BooksAt(d), Kept(d) \/ \E S : KeptOpen(d, S)
    PROVE  BooksAt(d)'
BY DEF BooksAt, Kept, KeptOpen

\* Every other step keeps the books.
LEMMA BooksOther ==
    ASSUME Shape, NEW c \in Children, OtherStep(c), NEW d \in Children, BooksAt(d), ResidentAt(d)
    PROVE  BooksAt(d)'
<1>1. CASE \A e \in Children : Kept(e)  BY <1>1, BooksFrame
<1>2. CASE \E S : \A e \in Children : KeptOpen(e, S)  BY <1>2, BooksFrame
<1>3. CASE WatcherSettles(c)
  <2>1. act[c].here /\ act[c].disposal = "none" /\ act[c].owned = {}
    BY <1>3 DEF WatcherSettles, Settled, Closing
  <2>2. CASE d = c  BY <1>3, <2>1, <2>2, WatcherEffect DEF BooksAt
  <2>3. CASE d # c  BY <1>3, <2>3, WatcherEffect, BooksFrame
  <2> QED  BY <2>2, <2>3
<1>4. CASE DisposalStops(c)
  <2>1. CASE d = c
    <3>1. act[c].owned = {} => act'[c].kids = {}
      <4>1. act'[c].kids = {<<e, act[e].gen>> : e \in {f \in act[c].owned : act[f].here}}
        BY <1>4, StopEffect
      <4> QED  BY <4>1
    <3>2. /\ act'[c].disposal = "kids" /\ act'[c].owned = act[c].owned
          /\ act'[c].settled = act[c].settled
      BY <1>4, StopEffect
    <3> QED  BY <2>1, <3>1, <3>2 DEF BooksAt
  <2>2. CASE d # c  BY <1>4, <2>2, StopEffect, BooksFrame
  <2> QED  BY <2>1, <2>2
<1>5. CASE DisposalQuiesces(c)
  <2>1. CASE d = c  BY <1>5, <2>1, QuiesceEffect DEF BooksAt
  <2>2. CASE d # c  BY <1>5, <2>2, QuiesceEffect, BooksFrame
  <2> QED  BY <2>1, <2>2
<1>6. CASE HandleDisposed(c)
  <2>0. act' = [act EXCEPT ![c].disposal = "delete"]  BY <1>6 DEF HandleDisposed
  <2>1. CASE d = c  BY <2>0, <2>1, HandleEffect DEF BooksAt
  <2>2. CASE d # c  BY <2>0, <2>2, HandleEffect, BooksFrame
  <2> QED  BY <2>1, <2>2
<1>7. CASE ActivationDeleted(c)
  <2>1. CASE d = c  BY <1>7, <2>1, DeletedEffect DEF BooksAt
  <2>2. CASE d # c  BY <1>7, <2>2, DeletedEffect, BooksFrame
  <2> QED  BY <2>1, <2>2
<1>8. CASE LateDisowns(c)  BY <1>8, DisownEffect DEF BooksAt
<1> QED  BY <1>1, <1>2, <1>3, <1>4, <1>5, <1>6, <1>7, <1>8, OtherClasses

\* Every step of a delivery keeps the books.
LEMMA BooksDelivery ==
    ASSUME Shape, NEW k \in Callers, LockedCall(k), DeliveryStep(k), NEW d \in Children,
           BooksAt(d), ResidentAt(d)
    PROVE  BooksAt(d)'
<1> DEFINE c == call[k].child
<1>1. CASE CreationSucceeds(k)
  <2>1. CASE d = c  BY <1>1, <2>1, CreationEffect DEF BooksAt
  <2>2. CASE d # c  BY <1>1, <2>2, CreationEffect, BooksFrame
  <2> QED  BY <2>1, <2>2
<1>2. CASE Spares(k) \/ Reopens(k)  BY <1>2, BooksFrame DEF Spares, Reopens
<1>3. CASE Withdraws(k)
  <2>1. act[c].disposal = "none" /\ act'[c].disposal = "handle"  BY <1>3 DEF Withdraws
  <2>2. CASE d = c  BY <1>3, <2>1, <2>2 DEF Withdraws, BooksAt
  <2>3. CASE d # c  BY <1>3, <2>3, BooksFrame DEF Withdraws
  <2> QED  BY <2>2, <2>3
<1>4. CASE Joins(k)
  <2>1. KeptJoin(d, c) /\ MayOwn(c) /\ c \in Children  BY <1>4 DEF Joins
  <2>2. d = Parent[c] /\ act[d].here => act[d].disposal = "none"  BY <2>1 DEF MayOwn, Closing
  <2> QED  BY <2>1, <2>2 DEF KeptJoin, BooksAt
<1> QED  BY <1>1, <1>2, <1>3, <1>4, DeliveryClasses

\* The late transaction of a child under the other steps.
LEMMA LateOther ==
    ASSUME Shape, NEW c \in Children, OtherStep(c), NEW d \in Children
    PROVE  \/ late'[d] = late[d]
           \/ d = c /\ late'[d].to = 0
           \/ d = c /\ late'[d].to = late[d].to
           \/ d = c /\ LateNotifies(c) /\ Parent[c] # Root /\ late'[d].to = act[Parent[c]].gen
<1>0. late[c] \in LateRec  BY DEF Shape
<1>1. CASE ActivationDeleted(c)
  <2> DEFINE p == IF act[c].published THEN "notify" ELSE "disown"
             n == act[c].gen
             a == act[c].announced
  <2>1. late' = [late EXCEPT ![c] = [NoLate EXCEPT !.pc = p, !.gen = n, !.announced = a]]
    BY <1>1 DEF ActivationDeleted
  <2> HIDE DEF p, n, a
  <2>2. [NoLate EXCEPT !.pc = p, !.gen = n, !.announced = a].to = 0  BY DEF NoLate
  <2> QED  BY <2>1, <2>2 DEF Shape
<1>2. CASE LateNotifies(c)
  <2> DEFINE n == act[Parent[c]].gen
  <2>1. \/ late' = [late EXCEPT ![c].pc = "send", ![c].to = n] /\ Parent[c] # Root
        \/ late' = [late EXCEPT ![c].pc = "disown"]
    BY <1>2 DEF LateNotifies
  <2> HIDE DEF n
  <2>2. CASE late' = [late EXCEPT ![c].pc = "send", ![c].to = n] /\ Parent[c] # Root
    <3>1. \A e \in Children \ {c} : late'[e] = late[e]  BY <2>2 DEF Shape
    <3>2. late'[c].to = n  BY <1>0, <2>2 DEF Shape, LateRec
    <3> QED  BY <1>2, <2>2, <3>1, <3>2 DEF n
  <2>3. CASE late' = [late EXCEPT ![c].pc = "disown"]
    <3>1. \A e \in Children \ {c} : late'[e] = late[e]  BY <2>3 DEF Shape
    <3>2. late'[c].to = late[c].to  BY <1>0, <2>3 DEF Shape, LateRec
    <3> QED  BY <3>1, <3>2
  <2> QED  BY <2>1, <2>2, <2>3
<1>3. CASE LateSends(c)
  <2>1. late' = [late EXCEPT ![c].pc = "disown", ![c].to = 0]  BY <1>3 DEF LateSends
  <2>2. \A e \in Children \ {c} : late'[e] = late[e]  BY <2>1 DEF Shape
  <2>3. late'[c].to = 0  BY <1>0, <2>1 DEF Shape, LateRec
  <2> QED  BY <2>2, <2>3
<1>4. CASE LateDisowns(c)
  <2>1. late' = [late EXCEPT ![c] = NoLate]  BY <1>4 DEF LateDisowns
  <2> QED  BY <2>1 DEF Shape, NoLate
<1>5. CASE ~(ActivationDeleted(c) \/ LateStep(c))
  <2>1. late' = late
    BY <1>5 DEF OtherStep, AgentStep, DisposalStep, LateStep, DrainStep, AgentClaims, AgentRests,
     AgentReplays, Interrupt, WatcherSettles, DisposalStops, DisposalQuiesces, HandleDisposed,
     DrainChildren, DrainBegins, DrainDisposes, DrainEnds, DrainDescendants,
     DeliveryBegins, ReportCounts
  <2> QED  BY <2>1
<1> QED  BY <1>1, <1>2, <1>3, <1>4, <1>5 DEF LateStep

\* A delivery only announces to it.
LEMMA LateDelivery ==
    ASSUME Shape, NEW k \in Callers, DeliveryStep(k), NEW d \in Children
    PROVE  /\ late'[d].pc = late[d].pc /\ late'[d].gen = late[d].gen /\ late'[d].to = late[d].to
           /\ late'[d] = late[d] \/ DeliveryAnnounces(k)
<1>1. late' = late \/ (DeliveryAnnounces(k) /\ late' = [late EXCEPT ![call[k].child].announced = TRUE])
  BY DEF DeliveryStep, DeliveryLooks, DeliveryRetries, DeliveryBuilds, CreationFails,
         CreationSucceeds, DeliveryOwns, CreationAborted, DeliveryRolledBack, DeliveryAdmits,
         DeliveryUnsuited, DeliveryAccepts, DeliverySends, DeliveryAnnounces, ReportSends
<1>2. CASE late' = late  BY <1>2
<1>3. CASE DeliveryAnnounces(k) /\ late' = [late EXCEPT ![call[k].child].announced = TRUE]
  <2>1. late[d] \in LateRec  BY DEF Shape
  <2> QED  BY <1>3, <2>1 DEF Shape, LateRec
<1> QED  BY <1>1, <1>2, <1>3

\* Epochs only grow.
LEMMA EpochsGrow ==
    ASSUME Shape, Locked, Next, NEW d \in Children
    PROVE  act'[d].gen \in {act[d].gen, act[d].gen + 1}
<1>1. CASE \E c \in Children : OtherStep(c)
  <2>1. Onward(d)  BY <1>1, OnwardChild DEF OtherStep
  <2> QED  BY <2>1 DEF Onward
<1>2. ASSUME NEW k \in Callers, DeliveryStep(k)
      PROVE  act'[d].gen \in {act[d].gen, act[d].gen + 1}
  <2>1. LockedCall(k)  BY DEF Locked
  <2>2. CASE Onward(d)  BY <2>2 DEF Onward
  <2>3. CASE CreationSucceeds(k) /\ call[k].child = d  BY <2>1, <2>3, CreationEffect
  <2> QED  BY <1>2, <2>1, <2>2, <2>3, OnwardDelivery
<1> QED  BY <1>1, <1>2, StepKinds

\* Notices stay addressed to epochs that have existed.
LEMMA DatedStep ==
    ASSUME Shape, Locked, Dated, Next  PROVE Dated'
<1> SUFFICES ASSUME NEW d \in Children, Parent[d] # Root
             PROVE  late'[d].to <= act'[Parent[d]].gen
  BY DEF Dated
<1>0. Parent[d] \in Children  BY ParentType
<1>1. /\ act[Parent[d]].gen \in Nat /\ late[d].to \in Nat
      /\ late[d].to <= act[Parent[d]].gen
  BY <1>0 DEF Shape, ActRec, LateRec, Dated
<1>2. act'[Parent[d]].gen \in {act[Parent[d]].gen, act[Parent[d]].gen + 1}
  BY <1>0, EpochsGrow
<1>3. late'[d].to \in {0, late[d].to, act[Parent[d]].gen}
  <2>1. CASE \E c \in Children : OtherStep(c)  BY <2>1, LateOther
  <2>2. CASE \E k \in Callers : DeliveryStep(k)  BY <2>2, LateDelivery
  <2> QED  BY <2>1, <2>2, StepKinds
<1> QED  BY <1>1, <1>2, <1>3

\* A call that does not move, on a child that goes onward.
LEMMA LockedFrame ==
    ASSUME NEW j \in Callers, LockedCall(j), call'[j] = call[j],
           call[j].pc \in Holding => lock'[call[j].child] = j,
           call[j].pc # "idle" => Onward(call[j].child)
    PROVE  LockedCall(j)'
<1>1. CASE call[j].pc = "idle"  BY <1>1 DEF LockedCall, Holding
<1>2. CASE call[j].pc # "idle"  BY <1>2 DEF LockedCall, Onward
<1> QED  BY <1>1, <1>2

\* Every other step keeps the calls and the locks together.
LEMMA LockedOther ==
    ASSUME Shape, Locked, NEW c \in Children, OtherStep(c)  PROVE Locked'
<1> SUFFICES ASSUME NEW j \in Callers  PROVE LockedCall(j)'
  BY DEF Locked
<1>0. LockedCall(j) /\ lock' = lock  BY OtherCalls DEF Locked
<1>1. CASE call'[j] = call[j]
  <2>1. call[j].pc # "idle" => Onward(call[j].child)
    BY <1>0, OnwardChild DEF LockedCall, OtherStep
  <2>2. call[j].pc \in Holding => lock'[call[j].child] = j  BY <1>0 DEF LockedCall
  <2> QED  BY <1>0, <1>1, <2>1, <2>2, LockedFrame
<1>2. CASE call'[j].child = c /\ call'[j].pc \in {"lock", "report"}
  BY <1>2 DEF LockedCall, Holding
<1> QED  BY <1>1, <1>2, OtherCalls

\* Every step of a delivery keeps the calls and the locks together.
LEMMA LockedDelivery ==
    ASSUME Shape, Resident, Locked, Creating, NEW k \in Callers, DeliveryStep(k)  PROVE Locked'
<1> DEFINE c == call[k].child
<1>0. LockedCall(k)  BY DEF Locked
<1>1. ASSUME NEW j \in Callers \ {k}  PROVE LockedCall(j)'
  <2>1. LockedCall(j) /\ call'[j] = call[j]  BY <1>0, DeliveryMoves DEF Moves, Locked
  <2>2. call[j].pc \in Holding => lock'[call[j].child] = j
    <3> SUFFICES ASSUME call[j].pc \in Holding  PROVE lock'[call[j].child] = j
      OBVIOUS
    <3>1. lock[call[j].child] = j /\ call[j].child \in Children
      BY <2>1 DEF LockedCall, Holding
    <3>2. j # NoCaller  BY TreeAssumption
    <3> QED  BY <1>0, <3>1, <3>2, DeliveryMoves DEF Moves
  <2>3. call[j].pc # "idle" => Onward(call[j].child) \/ call[j].pc \in {"lock", "report"}
    <3>1. CreationSucceeds(k) => lock[c] = k  BY <1>0, CreationEffect
    <3>2. call[j].pc \in Holding \cup {"idle", "lock", "report"}
      BY DEF Holding, CallPcs, Shape, CallRec
    <3> QED  BY <1>0, <2>1, <3>1, <3>2, OnwardDelivery DEF LockedCall
  <2>4. CASE call[j].pc \in {"lock", "report"}
    BY <2>1, <2>4 DEF LockedCall, Holding
  <2>5. CASE ~(call[j].pc \in {"lock", "report"})  BY <2>1, <2>2, <2>3, <2>5, LockedFrame
  <2> QED  BY <2>4, <2>5
<1>2. LockedCall(k)'
  <2>1. c \in Children  BY <1>0, DeliveryMoves DEF Moves
  <2>2. CASE call'[k].pc = "idle"  BY <2>2 DEF LockedCall, Holding
  <2>3. CASE call'[k].pc = "lock" /\ call'[k].child = c
    BY <2>1, <2>3 DEF LockedCall, Holding
  <2>4. CASE DeliveryLooks(k) /\ call'[k].child = c /\ call'[k].gen = act[c].gen
             /\ lock'[c] = k /\ lock[c] = NoCaller
             /\ call'[k].pc = IF ~act[c].here THEN "create"
                              ELSE IF Closing(c) THEN "retry" ELSE "admit"
    <3>1. act' = act  BY <2>4 DEF DeliveryLooks
    <3>2. act[c].here /\ ~Closing(c) => act[c].published  BY <2>1, <2>4 DEF Creating, Closing
    <3> QED  BY <2>1, <2>4, <3>1, <3>2 DEF LockedCall
  <2>5. CASE CreationSucceeds(k) /\ lock' = lock
    <3>1. /\ call'[k].pc = "own" /\ call'[k].child = c /\ call'[k].gen = act[c].gen + 1
          /\ act'[c].gen = act[c].gen + 1 /\ lock[c] = k
      BY <1>0, <2>5, CreationEffect
    <3> QED  BY <2>1, <2>5, <3>1 DEF LockedCall
  <2>6. CASE /\ call'[k].child = c /\ call'[k].gen = call[k].gen
             /\ lock' = lock /\ call[k].pc \in Holding
             /\ <<call[k].pc, call'[k].pc>> \in Passes
    <3>1. Onward(c)
      <4>1. CreationSucceeds(k) => call[k].pc = "build"  BY DEF CreationSucceeds
      <4> QED  BY <1>0, <2>1, <2>6, <4>1, OnwardDelivery DEF Passes
    <3>2. call[k].gen = act[c].gen /\ lock[c] = k  BY <1>0, <2>6 DEF LockedCall
    <3>3. CASE call'[k].pc \in {"build", "announce"}
      BY <1>0, <2>1, <2>6, <3>1, <3>2, <3>3 DEF LockedCall, Onward, Passes
    <3>4. CASE call'[k].pc = "rollback"
      <4>1. act'[c].here => act'[c].disposal # "none"
        <5>1. CASE DeliveryOwns(k) \/ CreationAborted(k)
          <6>1. Unpublished(k)
            <7>1. Goto(k, "admit") => call'[k].pc = "admit"  BY GotoEffect
            <7> QED  BY <3>4, <5>1, <7>1 DEF DeliveryOwns, CreationAborted
          <6>2. act[c].here => Current(k)  BY <3>2 DEF Current
          <6>3. act[c].here /\ ~Closing(c) => act' = [act EXCEPT ![c].disposal = "handle"]
            BY <6>1, <6>2 DEF Unpublished
          <6>4. act[c].here /\ ~Closing(c) => act'[c].disposal = "handle"
            BY <2>1, <6>3, HandleEffect
          <6> QED  BY <3>1, <6>4 DEF Onward, Closing
        <5>2. CASE DeliveryAdmits(k) \/ DeliveryUnsuited(k) \/ DeliveryAccepts(k)
          <6>1. Refused(k)
            <7>1. /\ Goto(k, "accept") => call'[k].pc = "accept"
                  /\ Goto(k, "send") => call'[k].pc = "send"
              BY GotoEffect
            <7> QED  BY <3>4, <5>2, <7>1 DEF DeliveryAdmits, DeliveryUnsuited, DeliveryAccepts
          <6>2. Return(k) => call'[k].pc = "idle"  BY ReturnEffect
          <6>3. act' = Opened(act, {c})  BY <3>4, <6>1, <6>2 DEF Refused
          <6>4. KeptOpen(c, {c})  BY <2>1, <6>3, OpenEffect
          <6> QED  BY <6>4 DEF KeptOpen
        <5>3. call[k].pc \in {"own", "admit", "accept"}  BY <2>6, <3>4 DEF Passes
        <5> QED  BY <5>1, <5>2, <5>3
          DEF DeliveryStep, DeliveryLooks, DeliveryRetries, DeliveryBuilds, CreationFails,
              CreationSucceeds, DeliveryRolledBack, DeliverySends, DeliveryAnnounces, ReportSends
      <4> QED  BY <2>1, <2>6, <3>1, <3>2, <3>4, <4>1 DEF LockedCall, Onward
    <3>5. CASE call'[k].pc \in {"accept", "send"}
      BY <1>0, <2>1, <2>6, <3>1, <3>2, <3>5 DEF LockedCall, Onward, Passes
    <3>6. CASE call'[k].pc = "admit"
      <4>1. act'[c].here => act'[c].published
        <5>1. call[k].pc = "own"  BY <2>6, <3>6 DEF Passes
        <5>3. DeliveryOwns(k) \/ CreationAborted(k)
          BY <5>1 DEF DeliveryStep, DeliveryLooks, DeliveryRetries, DeliveryBuilds, CreationFails,
              CreationSucceeds, DeliveryRolledBack, DeliverySends, DeliveryAnnounces, ReportSends,
              DeliveryAdmits, DeliveryUnsuited, DeliveryAccepts
        <5>4. ~Unpublished(k)
          <6>1. Goto(k, "rollback") => call'[k].pc = "rollback"  BY GotoEffect
          <6> QED  BY <3>6, <6>1 DEF Unpublished
        <5>5. act' = [Owned(c) EXCEPT ![c].published = Current(k)]
          BY <5>3, <5>4 DEF DeliveryOwns, CreationAborted
        <5>6. Current(k) \in BOOLEAN  BY <2>1 DEF Current, Shape, ActRec
        <5>7. act'[c].published = Current(k)  BY <2>1, <5>5, <5>6, PublishEffect
        <5>8. act[c].here => Current(k)  BY <3>2 DEF Current
        <5> QED  BY <3>1, <5>7, <5>8 DEF Onward
      <4> QED  BY <2>1, <2>6, <3>1, <3>2, <3>6, <4>1 DEF LockedCall, Onward
    <3> QED  BY <2>6, <3>3, <3>4, <3>5, <3>6 DEF Passes
  <2> QED  BY <1>0, <2>2, <2>3, <2>4, <2>5, <2>6, DeliveryMoves DEF Moves
<1> QED  BY <1>1, <1>2 DEF Locked

\* An epoch that is not published stays with the delivery that creates it.
LEMMA CreatingStep ==
    ASSUME Shape, Locked, Locked', Creating, Next  PROVE Creating'
<1> SUFFICES ASSUME NEW d \in Children,
                    act'[d].here, ~act'[d].published, act'[d].disposal = "none"
             PROVE  lock'[d] # NoCaller /\ call'[lock'[d]].pc = "own" /\ call'[lock'[d]].child = d
  BY DEF Creating
<1>1. ASSUME Onward(d)
      PROVE  lock[d] \in Callers /\ call[lock[d]].pc = "own" /\ call[lock[d]].child = d
  BY <1>1 DEF Onward, Creating, Shape
<1>2. ASSUME NEW c \in Children, OtherStep(c)
      PROVE  lock'[d] # NoCaller /\ call'[lock'[d]].pc = "own" /\ call'[lock'[d]].child = d
  <2>1. Onward(d)  BY <1>2, OnwardChild DEF OtherStep
  <2>2. lock' = lock /\ call'[lock[d]] = call[lock[d]]  BY <1>1, <1>2, <2>1, OtherCalls
  <2> QED  BY <1>1, <2>1, <2>2, TreeAssumption
<1>3. ASSUME NEW k \in Callers, DeliveryStep(k)
      PROVE  lock'[d] # NoCaller /\ call'[lock'[d]].pc = "own" /\ call'[lock'[d]].child = d
  <2>0. LockedCall(k) /\ LockedCall(k)'  BY DEF Locked
  <2>1. CASE CreationSucceeds(k) /\ call[k].child = d
    <3>1. lock' = lock  BY <2>1 DEF CreationSucceeds
    <3>2. lock[d] = k /\ call'[k].pc = "own" /\ call'[k].child = d
      BY <2>0, <2>1, CreationEffect
    <3>3. k # NoCaller  BY TreeAssumption
    <3> QED  BY <3>1, <3>2, <3>3
  <2>2. CASE Onward(d) /\ lock[d] # k
    <3>0. lock[d] # NoCaller  BY <1>1, <2>2, TreeAssumption
    <3>1. lock'[d] = lock[d]  BY <1>3, <2>0, <2>2, <3>0, DeliveryMoves DEF Moves
    <3>2. call'[lock[d]] = call[lock[d]]  BY <1>1, <1>3, <2>0, <2>2, DeliveryMoves DEF Moves
    <3> QED  BY <1>1, <2>2, <3>1, <3>2, TreeAssumption
  <2>3. CASE Onward(d) /\ lock[d] = k
    <3>1. call[k].pc = "own" /\ call[k].child = d  BY <1>1, <2>3
    <3>2. DeliveryOwns(k) \/ CreationAborted(k)
      BY <1>3, <3>1 DEF DeliveryStep, DeliveryLooks, DeliveryRetries, DeliveryBuilds,
         CreationFails, CreationSucceeds, DeliveryRolledBack, DeliverySends, DeliveryAnnounces,
         ReportSends, DeliveryAdmits, DeliveryUnsuited, DeliveryAccepts
    <3>3. Goto(k, "admit") \/ Goto(k, "rollback")
      BY <3>2 DEF DeliveryOwns, CreationAborted, Unpublished
    <3>4. call'[k].pc \in {"admit", "rollback"} /\ call'[k].child = d  BY <3>1, <3>3, GotoEffect
    <3> QED  BY <2>0, <3>4 DEF LockedCall
  <2> QED  BY <1>3, <2>0, <2>1, <2>2, <2>3, OnwardDelivery
<1> QED  BY <1>2, <1>3, StepKinds

\* A tool call stays in the turn of its issuer.
LEMMA InTurnStep ==
    ASSUME Shape, Resident, Locked, Locked', InTurn, Next, NEW j \in Callers, call'[j].pc # "idle"
    PROVE  Issuer(j)' = Root \/ agent'[Issuer(j)'].running
<1>0. LockedCall(j) /\ LockedCall(j)'  BY DEF Locked
<1>1. call'[j].child \in Children  BY <1>0 DEF LockedCall
<1>2. ASSUME call[j].pc # "idle"
      PROVE  /\ call[j].child \in Children /\ Issuer(j) \in Children \cup {Root}
             /\ Issuer(j) = Root \/ agent[Issuer(j)].running
  BY <1>0, <1>2, ParentType DEF InTurn, LockedCall, Issuer
<1>3. ASSUME call[j].pc # "idle", Issuer(j)' = Issuer(j),
             Issuer(j) # Root => TurnKept(Issuer(j))
      PROVE  Issuer(j)' = Root \/ agent'[Issuer(j)'].running
  BY <1>2, <1>3 DEF TurnKept
<1>4. ASSUME NEW c \in Children, OtherStep(c)
      PROVE  Issuer(j)' = Root \/ agent'[Issuer(j)'].running
  <2>1. CASE call'[j] = call[j]
    <3>1. Issuer(j)' = Issuer(j) /\ call[j].pc # "idle"  BY <2>1 DEF Issuer
    <3>2. CASE HandleDisposed(c)
      <4>1. ~agent[c].running /\ agent' = [agent EXCEPT ![c] = NoAgent]
        BY <3>2 DEF HandleDisposed
      <4>2. Issuer(j) # c  BY <1>2, <3>1, <4>1, TreeAssumption
      <4>3. Issuer(j) # Root => TurnKept(Issuer(j))
        BY <1>2, <3>1, <4>1, <4>2 DEF TurnKept, Shape
      <4> QED  BY <1>3, <3>1, <4>3
    <3>3. CASE AgentRests(c)
      <4>1. Issuer(j) # c  BY <3>1, <3>3 DEF AgentRests, InCall
      <4>2. agent' = [agent EXCEPT ![c].running = FALSE, ![c].aborted = FALSE]
        BY <3>3 DEF AgentRests
      <4>3. Issuer(j) # Root => TurnKept(Issuer(j))
        BY <1>2, <3>1, <4>1, <4>2 DEF TurnKept, Shape
      <4> QED  BY <1>3, <3>1, <4>3
    <3>4. CASE ~HandleDisposed(c) /\ ~AgentRests(c)
      <4>1. Issuer(j) # Root => TurnKept(Issuer(j))
        BY <1>2, <1>4, <3>1, <3>4, AgentChild DEF OtherStep, DisposalStep
      <4> QED  BY <1>3, <3>1, <4>1
    <3> QED  BY <3>2, <3>3, <3>4
  <2>2. CASE DeliveryBegins(j, c) /\ call'[j].pc = "lock" /\ call'[j].child = c
    <3>1. Issuer(j)' = Parent[c]  BY <2>2 DEF Issuer
    <3>2. agent' = agent /\ Parent[c] \in Running  BY <2>2 DEF DeliveryBegins
    <3> QED  BY <3>1, <3>2 DEF Running
  <2>3. CASE ReportCounts(j, c) /\ call'[j].pc = "report" /\ call'[j].child = c
    <3>1. Issuer(j)' = c  BY <2>3 DEF Issuer
    <3>2. agent' = agent /\ agent[c].running  BY <2>3 DEF ReportCounts
    <3> QED  BY <3>1, <3>2
  <2> QED  BY <1>4, <2>1, <2>2, <2>3, OtherCalls
<1>5. ASSUME NEW k \in Callers, DeliveryStep(k)
      PROVE  Issuer(j)' = Root \/ agent'[Issuer(j)'].running
  <2>0. LockedCall(k)  BY DEF Locked
  <2>1. Issuer(j)' = Issuer(j) /\ call[j].pc # "idle"
    <3>1. CASE j # k
      <4>1. call'[j] = call[j]  BY <1>5, <2>0, <3>1, DeliveryMoves DEF Moves
      <4> QED  BY <4>1 DEF Issuer
    <3>2. CASE j = k
      <4>1. call'[k].child = call[k].child /\ call'[k].pc # "report" /\ call[k].pc # "idle"
            /\ call[k].pc # "report"
        <5>1. CASE CreationSucceeds(k)
          <6>1. call[k].pc = "build"  BY <5>1 DEF CreationSucceeds
          <6> QED  BY <2>0, <5>1, <6>1, CreationEffect
        <5>2. CASE DeliveryLooks(k)
          <6>1. call[k].pc = "lock"  BY <5>2 DEF DeliveryLooks
          <6> QED  BY <1>5, <2>0, <3>2, <6>1, DeliveryMoves DEF Moves, Holding, CreationSucceeds
        <5>3. CASE ~CreationSucceeds(k) /\ ~DeliveryLooks(k)
          <6>1. Moves(k) /\ call'[k].pc # "idle"  BY <1>5, <2>0, <3>2, DeliveryMoves
          <6> QED  BY <5>3, <6>1 DEF Moves, Passes
        <5> QED  BY <5>1, <5>2, <5>3
      <4> QED  BY <3>2, <4>1 DEF Issuer
    <3> QED  BY <3>1, <3>2
  <2>2. CASE CreationSucceeds(k)
    <3> DEFINE c == call[k].child
    <3>1. c \in Children /\ ~act[c].here /\ \A d \in Children \ {c} : agent'[d] = agent[d]
      BY <2>0, <2>2, CreationEffect, ZenonT(60)
    <3>2. ~agent[c].running  BY <3>1 DEF Resident, ResidentAt
    <3>3. Issuer(j) # Root => TurnKept(Issuer(j))  BY <1>2, <2>1, <3>1, <3>2 DEF TurnKept
    <3> QED  BY <1>3, <2>1, <3>3
  <2>3. CASE ~CreationSucceeds(k)
    <3>1. Issuer(j) # Root => TurnKept(Issuer(j))  BY <1>2, <1>5, <2>1, <2>3, AgentDelivery
    <3> QED  BY <1>3, <2>1, <3>1
  <2> QED  BY <2>2, <2>3
<1> QED  BY <1>1, <1>4, <1>5, StepKinds

\* The shape is kept by every step.
LEMMA ShapeStep ==
    ASSUME Shape, Locked, Next  PROVE Shape'
<1>1. \A k \in Callers : call[k].pc # "idle" => call[k].child \in Children
  BY DEF Locked, LockedCall
<1> QED
  BY <1>1, ShapeAgent, ShapeDisposal, ShapeLate, ShapeDelivery, ShapeTeardown DEF Next

\* Residence is inductive: the beginning ...
LEMMA ResidenceInit == ASSUME Init  PROVE ResidenceInv
<1>1. \A c \in Children :
         /\ act[c] = NoActivation /\ agent[c] = NoAgent /\ late[c] = NoLate
         /\ lock[c] = NoCaller
  BY DEF Init
<1>2. \A k \in Callers : call[k] = NoCall  BY DEF Init
<1>3. /\ ~NoActivation.here /\ ~NoActivation.published /\ NoActivation.disposal = "none"
      /\ ~NoActivation.settled /\ NoActivation.owned = {} /\ NoActivation.kids = {}
      /\ NoActivation.gen = 0
  BY DEF NoActivation
<1>4. ~NoAgent.live /\ ~NoAgent.running /\ NoLate.to = 0 /\ NoCall.pc = "idle"
  BY DEF NoAgent, NoLate, NoCall
<1>5. Shape
  <2>1. draining \in BOOLEAN /\ scopes \in BOOLEAN /\ stolen = {} /\ dropped = {}  BY DEF Init
  <2>2. drain \in DrainRec /\ used \in UsedRec  BY DEF Init, DrainRec, UsedRec
  <2>3. /\ act \in [Children -> ActRec] /\ agent \in [Children -> AgentRec]
        /\ late \in [Children -> LateRec] /\ call \in [Callers -> CallRec]
        /\ lock \in [Children -> Callers \cup {NoCaller}]
    BY EmptyShapes DEF Init
  <2> QED  BY <2>1, <2>2, <2>3 DEF Shape
<1>6. Resident  BY <1>1, <1>3, <1>4 DEF Resident, ResidentAt
<1>7. Locked  BY <1>2, <1>4 DEF Locked, LockedCall, Holding
<1>8. Creating  BY <1>1, <1>3 DEF Creating
<1>9. InTurn  BY <1>2, <1>4 DEF InTurn
<1>10. Books  BY <1>1, <1>3 DEF Books, BooksAt
<1>11. Dated  BY <1>1, <1>3, <1>4, ParentType DEF Dated
<1> QED  BY <1>5, <1>6, <1>7, <1>8, <1>9, <1>10, <1>11 DEF ResidenceInv

\* ... and every step.
LEMMA ResidenceStep == ASSUME ResidenceInv, [Next]_vars  PROVE ResidenceInv'
<1> USE DEF ResidenceInv
<1>1. CASE UNCHANGED vars
  BY <1>1 DEF vars, Shape, Resident, ResidentAt, Locked, LockedCall, Creating, InTurn, Issuer,
              Books, BooksAt, Dated
<1>2. CASE Next
  <2>1. Shape'  BY <1>2, ShapeStep
  <2>2. Resident'
    <3> SUFFICES ASSUME NEW d \in Children  PROVE ResidentAt(d)'
      BY DEF Resident
    <3>1. ResidentAt(d)  BY DEF Resident
    <3>2. ASSUME NEW c \in Children, OtherStep(c)  PROVE ResidentAt(d)'
      BY <2>1, <3>1, <3>2, ResidentChild DEF OtherStep
    <3>3. ASSUME NEW k \in Callers, DeliveryStep(k)  PROVE ResidentAt(d)'
      <4>1. LockedCall(k)  BY DEF Locked
      <4> QED  BY <2>1, <3>1, <3>3, <4>1, ResidentDelivery
    <3> QED  BY <1>2, <3>2, <3>3, StepKinds
  <2>3. Locked'
    <3>1. CASE \E c \in Children : OtherStep(c)  BY <3>1, LockedOther
    <3>2. CASE \E k \in Callers : DeliveryStep(k)  BY <3>2, LockedDelivery
    <3>3. CASE Children = {}
      <4>1. \A k \in Callers : call[k].pc = "idle"  BY <3>3 DEF Locked, LockedCall
      <4>2. ~\E k \in Callers : DeliveryStep(k)  BY <3>3, DeliveryMoves DEF Moves, Locked
      <4>3. call' = call
        BY <1>2, <3>3, <4>2 DEF Next, DrainBegins, DrainStep, DrainDisposes, DrainEnds,
                                DrainDescendants
      <4> QED  BY <4>1, <4>3 DEF Locked, LockedCall, Holding
    <3> QED  BY <1>2, <3>1, <3>2, <3>3, StepKinds
  <2>4. Creating'  BY <1>2, <2>3, CreatingStep
  <2>5. InTurn'
    <3>1. \A j \in Callers : call'[j].pc # "idle" =>
             Issuer(j)' = Root \/ agent'[Issuer(j)'].running
      BY <1>2, <2>3, InTurnStep
    <3> QED  BY <3>1 DEF InTurn
  <2>6. Books'
    <3> SUFFICES ASSUME NEW d \in Children  PROVE BooksAt(d)'
      BY DEF Books
    <3>1. BooksAt(d) /\ ResidentAt(d)  BY DEF Books, Resident
    <3>2. ASSUME NEW c \in Children, OtherStep(c)  PROVE BooksAt(d)'
      BY <3>1, <3>2, BooksOther
    <3>3. ASSUME NEW k \in Callers, DeliveryStep(k)  PROVE BooksAt(d)'
      <4>1. LockedCall(k)  BY DEF Locked
      <4> QED  BY <3>1, <3>3, <4>1, BooksDelivery
    <3> QED  BY <1>2, <3>2, <3>3, StepKinds
  <2>7. Dated'  BY <1>2, DatedStep
  <2> QED  BY <2>1, <2>2, <2>3, <2>4, <2>5, <2>6, <2>7
<1> QED  BY <1>1, <1>2

\* "wait for release rather than cold-resume into the still-registered agent"
\* (continuation-manager.go): a delivery that creates an agent finds none registered
\* under the child's id, whatever teardown or disposal runs beside it.
THEOREM ResumesIntoNoAgent == Spec => []ResumesIntoNone
<1>1. ResidenceInv => ResumesIntoNone
  <2> SUFFICES ASSUME ResidenceInv, NEW k \in Callers, call[k].pc = "build"
               PROVE  ~agent[call[k].child].live
    BY DEF ResumesIntoNone
  <2>1. LockedCall(k)  BY DEF ResidenceInv, Locked
  <2>2. call[k].child \in Children /\ ~act[call[k].child].here  BY <2>1 DEF LockedCall
  <2> QED  BY <2>2 DEF ResidenceInv, Resident, ResidentAt
<1>2. Init => ResidenceInv  BY ResidenceInit
<1>3. ResidenceInv /\ [Next]_vars => ResidenceInv'  BY ResidenceStep
<1> QED  BY <1>1, <1>2, <1>3, PTL DEF Spec

-----------------------------------------------------------------------------
(* The tree: parents and children.                                         *)

\* Nobody has sent this epoch anything, and it owns nothing.
Untouched(c) ==
    /\ ~agent[c].running /\ agent[c].pending = 0
    /\ act[c].owned = {} /\ act[c].kids = {}

\* An epoch that is not published is untouched ...
FreshChild(c) == act[c].here /\ ~act[c].published => Untouched(c)

\* ... and so is one whose first message has not been sent by the delivery that
\* created it.
FreshCall(k) ==
    /\ /\ call[k].pc \in {"own", "admit", "accept", "send", "rollback"} /\ call[k].fresh
       /\ act[call[k].child].here
       => Untouched(call[k].child)
    /\ call[k].pc = "lock" => ~call[k].fresh
    /\ call[k].pc = "own" => call[k].fresh

\* While admission is open only the watcher and the rollback of an untouched epoch
\* dispose of a child ...
ClosedChild(c) == act[c].disposal # "none" /\ ~act[c].settled /\ Admitting => Untouched(c)

\* ... and neither does so under a delivery.
ClosedCall(k) ==
    /\ call[k].pc \in {"own", "admit", "accept", "send", "announce"} =>
          ~act[call[k].child].settled
    /\ /\ call[k].pc \in {"own", "admit", "accept", "send"}
       /\ act[call[k].child].disposal # "none"
       => ~Admitting

\* A published child is in its parent's owned set; once the parent waits for its
\* children, it waits for this one, which is closing.
AttachedAt(c) ==
    LET p == Parent[c] IN
    act[c].here /\ act[c].published /\ p # Root =>
        /\ act[p].here /\ c \in act[p].owned
        /\ act[p].disposal \in {"none", "stop", "kids"}
        /\ act[p].disposal = "kids" =>
              act[c].disposal # "none" /\ <<c, act[c].gen>> \in act[p].kids

\* A child that has its notice to deliver is still counted by its parent.
AccountableAt(c) ==
    LET p == Parent[c] IN
    late[c].pc \in {"notify", "send"} /\ p # Root =>
        /\ ~act[p].settled
        /\ act[p].here /\ act[p].published /\ act[p].disposal = "none" =>
              c \in act[p].owned
        /\ Admitting => act[p].here /\ act[p].disposal = "none" /\ c \in act[p].owned
        /\ late[c].pc = "send" /\ act[p].here /\ late[c].to = act[p].gen =>
              c \in act[p].owned

TreeInv ==
    /\ \A c \in Children :
          FreshChild(c) /\ ClosedChild(c) /\ AttachedAt(c) /\ AccountableAt(c)
    /\ \A k \in Callers : FreshCall(k) /\ ClosedCall(k)
    /\ drain.pc # "idle" => draining

\* A disturbance lasts, DrainChildren is one, and so is the loss of a child that is
\* still in the map.
LEMMA DisturbedLater ==
    ASSUME Shape, Next, Undisturbed'
    PROVE  /\ Undisturbed
           /\ \A c \in Children : ~DrainChildren(c)
           /\ \A c \in Children : LateDisowns(c) /\ act[c].here =>
                 \A d \in Children : c \notin act[d].owned
<1>0. stolen' = {} /\ ~used'.stopped  BY DEF Undisturbed
<1>1. ASSUME NEW c \in Children, DrainChildren(c)  PROVE FALSE
  <2>1. used' = [used EXCEPT !.others = @ + 1, !.stopped = TRUE]  BY <1>1 DEF DrainChildren
  <2>2. used'.stopped = TRUE  BY <2>1 DEF Shape, UsedRec
  <2> QED  BY <1>0, <2>2
<1>2. ~used.stopped
  <2>1. \/ used' = used \/ used' = [used EXCEPT !.others = @ + 1]
        \/ used' = [used EXCEPT !.deliveries = @ + 1]
    BY <1>1, ZenonT(60) DEF Next, AgentStep, DisposalStep, LateStep, DrainStep, DeliveryStep, AgentClaims,
       AgentRests, AgentReplays, Interrupt, WatcherSettles, DisposalStops, DisposalQuiesces,
       HandleDisposed, ActivationDeleted, LateNotifies, LateSends, LateDisowns, DrainBegins,
       DrainDisposes, DrainEnds, DrainDescendants, DeliveryBegins, ReportCounts, DeliveryLooks,
       DeliveryRetries, DeliveryBuilds, CreationFails, CreationSucceeds, DeliveryOwns,
       CreationAborted, DeliveryRolledBack, DeliveryAdmits, DeliveryUnsuited, DeliveryAccepts,
       DeliverySends, DeliveryAnnounces, ReportSends
  <2>2. used'.stopped = used.stopped
    <3>1. CASE used' = used  BY <3>1
    <3>2. CASE used' = [used EXCEPT !.others = @ + 1]  BY <3>2 DEF Shape, UsedRec
    <3>3. CASE used' = [used EXCEPT !.deliveries = @ + 1]  BY <3>3 DEF Shape, UsedRec
    <3> QED  BY <2>1, <3>1, <3>2, <3>3
  <2> QED  BY <1>0, <2>2
<1>3. ASSUME NEW c \in Children, LateDisowns(c)
      PROVE  /\ act[c].here => \A d \in Children : c \notin act[d].owned
             /\ stolen = {}
  BY <1>0, <1>3 DEF LateDisowns
<1>4. stolen = {}
  <2>1. CASE \E c \in Children : LateDisowns(c)  BY <1>3, <2>1
  <2>2. CASE ~\E c \in Children : LateDisowns(c)
    <3>1. stolen' = stolen
      BY <2>2, ZenonT(60) DEF Next, AgentStep, DisposalStep, LateStep, DrainStep, DeliveryStep, AgentClaims,
       AgentRests, AgentReplays, Interrupt, WatcherSettles, DisposalStops, DisposalQuiesces,
       HandleDisposed, ActivationDeleted, LateNotifies, LateSends, DrainBegins,
       DrainDisposes, DrainEnds, DrainDescendants, DrainChildren, DeliveryBegins, ReportCounts,
       DeliveryLooks, DeliveryRetries, DeliveryBuilds, CreationFails, CreationSucceeds,
       DeliveryOwns, CreationAborted, DeliveryRolledBack, DeliveryAdmits, DeliveryUnsuited,
       DeliveryAccepts, DeliverySends, DeliveryAnnounces, ReportSends
    <3> QED  BY <1>0, <3>1
  <2> QED  BY <2>1, <2>2
<1> QED  BY <1>1, <1>2, <1>3, <1>4 DEF Undisturbed

\* Admission, once closed, stays closed; the teardowns close it.
LEMMA AdmissionCloses ==
    ASSUME Next
    PROVE  /\ Admitting' => Admitting
           /\ DrainBegins \/ DrainDescendants => ~Admitting'
<1>1. /\ DrainBegins => draining' = TRUE /\ scopes' = scopes
      /\ DrainDescendants => scopes' = TRUE /\ draining' = draining
  BY DEF DrainBegins, DrainDescendants
<1>2. CASE ~DrainBegins /\ ~DrainDescendants
  <2>1. draining' = draining /\ scopes' = scopes
    BY <1>2, ZenonT(60) DEF Next, AgentStep, DisposalStep, LateStep, DrainStep, DeliveryStep, AgentClaims,
       AgentRests, AgentReplays, Interrupt, WatcherSettles, DisposalStops, DisposalQuiesces,
       HandleDisposed, ActivationDeleted, LateNotifies, LateSends, LateDisowns,
       DrainDisposes, DrainEnds, DrainChildren, DeliveryBegins, ReportCounts,
       DeliveryLooks, DeliveryRetries, DeliveryBuilds, CreationFails, CreationSucceeds,
       DeliveryOwns, CreationAborted, DeliveryRolledBack, DeliveryAdmits, DeliveryUnsuited,
       DeliveryAccepts, DeliverySends, DeliveryAnnounces, ReportSends
  <2> QED  BY <1>2, <2>1 DEF Admitting
<1> QED  BY <1>1, <1>2 DEF Admitting

\* Drain has closed admission before it opens a transaction.
LEMMA DrainCloses ==
    ASSUME Shape, Next, drain.pc # "idle" => draining
    PROVE  drain'.pc # "idle" => draining'
<1>1. CASE DrainBegins  BY <1>1 DEF DrainBegins
<1>2. CASE DrainStep
  <2>1. draining' = draining /\ drain.pc # "idle"
    BY <1>2 DEF DrainStep, DrainDisposes, DrainEnds
  <2> QED  BY <2>1
<1>3. CASE ~DrainBegins /\ ~DrainStep
  <2>1. drain' = drain /\ draining' = draining
    BY <1>3, ZenonT(60) DEF Next, AgentStep, DisposalStep, LateStep, DeliveryStep, AgentClaims,
       AgentRests, AgentReplays, Interrupt, WatcherSettles, DisposalStops, DisposalQuiesces,
       HandleDisposed, ActivationDeleted, LateNotifies, LateSends, LateDisowns,
       DrainChildren, DrainDescendants, DeliveryBegins, ReportCounts,
       DeliveryLooks, DeliveryRetries, DeliveryBuilds, CreationFails, CreationSucceeds,
       DeliveryOwns, CreationAborted, DeliveryRolledBack, DeliveryAdmits, DeliveryUnsuited,
       DeliveryAccepts, DeliverySends, DeliveryAnnounces, ReportSends
  <2> QED  BY <2>1
<1> QED  BY <1>1, <1>2, <1>3

\* A running child is published, hence in its parent's owned set.
LEMMA RunningIsOwned ==
    ASSUME ResidenceInv, TreeInv, NEW e \in Children, agent[e].running, Parent[e] # Root
    PROVE  e \in act[Parent[e]].owned /\ act[Parent[e]].here
<1>1. act[e].here  BY DEF ResidenceInv, Resident, ResidentAt
<1>2. act[e].published  BY <1>1 DEF TreeInv, FreshChild, Untouched
<1> QED  BY <1>1, <1>2 DEF TreeInv, AttachedAt

\* The agent of an untouched epoch is disturbed only by the first message.
LEMMA QuietAgent ==
    ASSUME ResidenceInv, TreeInv, Next, NEW c \in Children, act[c].here, Untouched(c),
           \A k \in Callers : DeliverySends(k) => call[k].child # c
    PROVE  ~agent'[c].running /\ agent'[c].pending = 0
<1>0. /\ Shape /\ agent[c] \in AgentRec /\ agent \in [Children -> AgentRec]
      /\ ~agent[c].running /\ agent[c].pending = 0 /\ act[c].owned = {}
  BY DEF ResidenceInv, Shape, Untouched
<1>a. ASSUME agent'[c] = agent[c]  PROVE ~agent'[c].running /\ agent'[c].pending = 0
  BY <1>0, <1>a
<1>1. ASSUME NEW e \in Children, OtherStep(e)
      PROVE  ~agent'[c].running /\ agent'[c].pending = 0
  <2>1. CASE AgentClaims(e) \/ AgentRests(e) \/ Interrupt(e)
    <3>1. e # c  BY <1>0, <2>1 DEF AgentClaims, AgentRests, Interrupt
    <3>2. agent'[c] = agent[c]  BY <1>0, <2>1, <3>1 DEF AgentClaims, AgentRests, Interrupt
    <3> QED  BY <1>a, <3>2
  <2>2. CASE AgentReplays(e)
    <3>1. agent' = [agent EXCEPT ![e].latched = FALSE, ![e].running = agent[e].pending > 0]
      BY <2>2 DEF AgentReplays
    <3>2. CASE e # c  BY <1>0, <1>a, <3>1, <3>2
    <3>3. CASE e = c
      <4>1. (agent[c].pending > 0) = FALSE  BY <1>0
      <4>2. agent' = [agent EXCEPT ![c].latched = FALSE, ![c].running = FALSE]
        BY <3>1, <3>3, <4>1, Zenon
      <4> QED  BY <1>0, <4>2 DEF AgentRec
    <3> QED  BY <3>2, <3>3
  <2>3. CASE DisposalStops(e) \/ DisposalQuiesces(e)
    <3>1. agent' = [agent EXCEPT ![e] = Cancelled(@)]
      BY <2>3 DEF DisposalStops, DisposalQuiesces
    <3>2. CASE e # c  BY <1>0, <1>a, <3>1, <3>2
    <3>3. CASE e = c
      <4>1. agent'[c] = Cancelled(agent[c])  BY <1>0, <3>1, <3>3
      <4> QED  BY <1>0, <4>1 DEF Cancelled, AgentRec
    <3> QED  BY <3>2, <3>3
  <2>4. CASE HandleDisposed(e)
    <3>1. agent' = [agent EXCEPT ![e] = NoAgent]  BY <2>4 DEF HandleDisposed
    <3>2. CASE e # c  BY <1>0, <1>a, <3>1, <3>2
    <3>3. CASE e = c
      <4>1. agent'[c] = NoAgent  BY <1>0, <3>1, <3>3
      <4> QED  BY <4>1 DEF NoAgent
    <3> QED  BY <3>2, <3>3
  <2>5. CASE LateSends(e)
    <3>1. agent' = SentTo(Parent[e], late[e].to) /\ late[e].pc = "send"  BY <2>5 DEF LateSends
    <3>2. ~(Parent[e] = c /\ act[c].gen = late[e].to)
      <4> SUFFICES ASSUME Parent[e] = c, act[c].gen = late[e].to  PROVE FALSE
        OBVIOUS
      <4>1. e \in act[c].owned  BY <3>1, TreeAssumption DEF TreeInv, AccountableAt
      <4> QED  BY <1>0, <4>1
    <3>3. agent'[c] = agent[c]  BY <1>0, <3>1, <3>2, SentEffect
    <3> QED  BY <1>a, <3>3
  <2>6. CASE WatcherSettles(e) \/ ActivationDeleted(e) \/ LateNotifies(e) \/ LateDisowns(e)
           \/ DrainChildren(e) \/ (\E k \in Callers : DeliveryBegins(k, e) \/ ReportCounts(k, e))
           \/ DrainBegins \/ DrainStep \/ DrainDescendants
    <3>1. agent' = agent
      BY <2>6 DEF WatcherSettles, ActivationDeleted, LateNotifies, LateDisowns, DrainChildren,
                DeliveryBegins, ReportCounts, DrainBegins, DrainStep, DrainDisposes, DrainEnds,
                DrainDescendants
    <3> QED  BY <1>a, <3>1
  <2> QED
    BY <1>1, <2>1, <2>2, <2>3, <2>4, <2>5, <2>6 DEF OtherStep, AgentStep, DisposalStep, LateStep
<1>2. ASSUME NEW k \in Callers, DeliveryStep(k)
      PROVE  ~agent'[c].running /\ agent'[c].pending = 0
  <2>0. LockedCall(k)  BY DEF ResidenceInv, Locked
  <2>1. CASE DeliverySends(k)
    <3>1. agent' = SentTo(call[k].child, call[k].gen) /\ call[k].child # c
      BY <2>1 DEF DeliverySends
    <3>2. agent'[c] = agent[c]  BY <1>0, <3>1, SentEffect
    <3> QED  BY <1>a, <3>2
  <2>2. CASE ReportSends(k)
    <3>1. agent' = SentTo(Parent[call[k].child], call[k].gen) /\ call[k].pc = "report"
      BY <2>2 DEF ReportSends
    <3>2. call[k].child \in Children  BY <2>0, <3>1 DEF LockedCall
    <3>3. agent[call[k].child].running
      <4>1. Issuer(k) = call[k].child  BY <3>1 DEF Issuer
      <4> QED  BY <3>1, <3>2, <4>1, TreeAssumption DEF ResidenceInv, InTurn
    <3>4. Parent[call[k].child] # c
      <4> SUFFICES ASSUME Parent[call[k].child] = c  PROVE FALSE
        OBVIOUS
      <4>1. call[k].child \in act[c].owned  BY <3>2, <3>3, RunningIsOwned, TreeAssumption
      <4> QED  BY <1>0, <4>1
    <3>5. agent'[c] = agent[c]  BY <1>0, <3>1, <3>4, SentEffect
    <3> QED  BY <1>a, <3>5
  <2>3. CASE CreationSucceeds(k)
    <3>1. agent'[c] = agent[c]  BY <1>0, <2>0, <2>3, CreationEffect
    <3> QED  BY <1>a, <3>1
  <2>4. CASE agent' = agent  BY <1>a, <2>4
  <2>5. DeliverySends(k) \/ ReportSends(k) \/ CreationSucceeds(k) \/ agent' = agent
    BY <1>2 DEF DeliveryStep, DeliveryLooks, DeliveryRetries, DeliveryBuilds, CreationFails,
         DeliveryOwns, CreationAborted, DeliveryRolledBack, DeliveryAdmits, DeliveryUnsuited,
         DeliveryAccepts, DeliveryAnnounces
  <2> QED  BY <2>1, <2>2, <2>3, <2>4, <2>5
<1> QED  BY <1>1, <1>2, StepKinds

\* A parent that a delivery makes the owner of its child is running, and not closing.
LEMMA OwnerRuns ==
    ASSUME ResidenceInv, NEW k \in Callers, Joins(k), Parent[call[k].child] # Root
    PROVE  LET p == Parent[call[k].child] IN
           agent[p].running /\ act[p].here /\ act[p].disposal = "none"
<1> DEFINE p == Parent[call[k].child]
<1>1. call[k].pc \in {"own", "accept"} /\ call[k].child \in Children /\ MayOwn(call[k].child)
  BY DEF Joins
<1>2. Issuer(k) = p /\ p \in Children  BY <1>1, ParentType DEF Issuer
<1>3. agent[p].running  BY <1>1, <1>2, TreeAssumption DEF ResidenceInv, InTurn
<1>4. act[p].here  BY <1>2, <1>3 DEF ResidenceInv, Resident, ResidentAt
<1>5. act[p].disposal = "none"  BY <1>1, <1>2, <1>4 DEF MayOwn, Closing
<1> QED  BY <1>3, <1>4, <1>5

\* So is the whole epoch.
LEMMA UntouchedStays ==
    ASSUME ResidenceInv, TreeInv, Next, NEW c \in Children, act[c].here, Untouched(c),
           \A k \in Callers : DeliverySends(k) => call[k].child # c
    PROVE  Untouched(c)'
<1>0. Shape /\ act[c].owned = {} /\ act[c].kids = {} /\ ~agent[c].running
  BY DEF ResidenceInv, Untouched
<1>1. act'[c].owned = {} /\ act'[c].kids = {}
  <2>1. ASSUME NEW e \in Children, OtherStep(e)  PROVE act'[c].owned = {} /\ act'[c].kids = {}
    <3>1. CASE \A d \in Children : Kept(d)  BY <1>0, <3>1 DEF Kept
    <3>2. CASE \E S : \A d \in Children : KeptOpen(d, S)  BY <1>0, <3>2 DEF KeptOpen
    <3>3. CASE WatcherSettles(e)  BY <1>0, <3>3, WatcherEffect DEF Kept
    <3>4. CASE DisposalStops(e)
      <4>1. CASE e = c
        <5>1. act'[c].kids = {<<d, act[d].gen>> : d \in {f \in act[c].owned : act[f].here}}
              /\ act'[c].owned = act[c].owned
          BY <1>0, <3>4, <4>1, StopEffect
        <5> QED  BY <1>0, <5>1
      <4>2. CASE e # c
        <5>1. \E S : KeptOpen(c, S)  BY <1>0, <3>4, <4>2, StopEffect
        <5> QED  BY <1>0, <5>1 DEF KeptOpen
      <4> QED  BY <4>1, <4>2
    <3>5. CASE DisposalQuiesces(e)  BY <1>0, <3>5, QuiesceEffect DEF Kept
    <3>6. CASE HandleDisposed(e)
      <4>1. act' = [act EXCEPT ![e].disposal = "delete"]  BY <3>6 DEF HandleDisposed
      <4> QED  BY <1>0, <4>1, HandleEffect DEF Kept
    <3>7. CASE ActivationDeleted(e)  BY <1>0, <3>7, DeletedEffect DEF Kept
    <3>8. CASE LateDisowns(e)  BY <1>0, <3>8, DisownEffect
    <3> QED  BY <1>0, <2>1, <3>1, <3>2, <3>3, <3>4, <3>5, <3>6, <3>7, <3>8, OtherClasses
  <2>2. ASSUME NEW k \in Callers, DeliveryStep(k)  PROVE act'[c].owned = {} /\ act'[c].kids = {}
    <3>0. LockedCall(k)  BY DEF ResidenceInv, Locked
    <3>1. CASE Spares(k)  BY <1>0, <3>1 DEF Spares, Kept
    <3>2. CASE Reopens(k)  BY <1>0, <3>2 DEF Reopens, KeptOpen
    <3>3. CASE Withdraws(k)  BY <1>0, <3>3 DEF Withdraws, Kept
    <3>4. CASE Joins(k)
      <4>1. KeptJoin(c, call[k].child)  BY <3>4 DEF Joins
      <4>2. Parent[call[k].child] # c  BY <1>0, <3>4, OwnerRuns, TreeAssumption
      <4> QED  BY <1>0, <4>1, <4>2 DEF KeptJoin
    <3>5. CASE CreationSucceeds(k)  BY <1>0, <3>0, <3>5, CreationEffect, ZenonT(60) DEF Kept
    <3> QED  BY <1>0, <2>2, <3>0, <3>1, <3>2, <3>3, <3>4, <3>5, DeliveryClasses
  <2> QED  BY <2>1, <2>2, StepKinds
<1> QED  BY <1>1, QuietAgent DEF Untouched

\* What may happen to one Activation in a step that does not create it.
History(d) ==
    /\ Onward(d)
    /\ act'[d].here /\ act[d].settled => act'[d].settled
    /\ act'[d].settled => act[d].settled \/ WatcherSettles(d)
    /\ act'[d].published => act[d].published
                            \/ \E k \in Callers : Joins(k) /\ call[k].child = d /\ call[k].pc = "own"
    /\ act[d].here => act'[d].here \/ ActivationDeleted(d)
    /\ act'[d].here => \A e \in act[d].owned : e \in act'[d].owned \/ LateDisowns(e)

\* ... which every step respects.
LEMMA Histories ==
    ASSUME ResidenceInv, Next, NEW d \in Children
    PROVE  History(d) \/ \E k \in Callers : CreationSucceeds(k) /\ call[k].child = d
<1>0. Shape  BY DEF ResidenceInv
<1>a. ASSUME Kept(d) \/ \E S : KeptOpen(d, S)  PROVE History(d)
  BY <1>a, KeptOnward DEF Kept, KeptOpen, History
<1>1. ASSUME NEW c \in Children, OtherStep(c)  PROVE History(d)
  <2>0. Onward(d)  BY <1>0, <1>1, OnwardChild DEF OtherStep
  <2>1. CASE \A e \in Children : Kept(e)  BY <1>a, <2>1
  <2>2. CASE \E S : \A e \in Children : KeptOpen(e, S)  BY <1>a, <2>2
  <2>3. CASE WatcherSettles(c)
    <3>1. CASE d # c  BY <1>0, <1>a, <2>3, <3>1, WatcherEffect
    <3>2. CASE d = c  BY <1>0, <2>0, <2>3, <3>2, WatcherEffect DEF History
    <3> QED  BY <3>1, <3>2
  <2>4. CASE DisposalStops(c)
    <3>1. CASE d # c  BY <1>0, <1>a, <2>4, <3>1, StopEffect
    <3>2. CASE d = c  BY <1>0, <2>0, <2>4, <3>2, StopEffect DEF History
    <3> QED  BY <3>1, <3>2
  <2>5. CASE DisposalQuiesces(c)
    <3>1. CASE d # c  BY <1>0, <1>a, <2>5, <3>1, QuiesceEffect
    <3>2. CASE d = c  BY <1>0, <2>0, <2>5, <3>2, QuiesceEffect DEF History
    <3> QED  BY <3>1, <3>2
  <2>6. CASE HandleDisposed(c)
    <3>0. act' = [act EXCEPT ![c].disposal = "delete"]  BY <2>6 DEF HandleDisposed
    <3>1. CASE d # c  BY <1>0, <1>a, <3>0, <3>1, HandleEffect
    <3>2. CASE d = c  BY <1>0, <2>0, <3>0, <3>2, HandleEffect DEF History
    <3> QED  BY <3>1, <3>2
  <2>7. CASE ActivationDeleted(c)
    <3>1. CASE d # c  BY <1>0, <1>a, <2>7, <3>1, DeletedEffect
    <3>2. CASE d = c  BY <1>0, <2>0, <2>7, <3>2, DeletedEffect DEF History
    <3> QED  BY <3>1, <3>2
  <2>8. CASE LateDisowns(c)
    <3>1. /\ act'[d].here = act[d].here /\ act'[d].published = act[d].published
          /\ act'[d].settled = act[d].settled /\ act'[d].owned = act[d].owned \ {c}
      BY <1>0, <2>8, DisownEffect
    <3>2. \A e \in act[d].owned : e \in act'[d].owned \/ LateDisowns(e)  BY <2>8, <3>1
    <3> QED  BY <2>0, <3>1, <3>2 DEF History
  <2> QED  BY <1>0, <1>1, <2>1, <2>2, <2>3, <2>4, <2>5, <2>6, <2>7, <2>8, OtherClasses
<1>2. ASSUME NEW k \in Callers, DeliveryStep(k)
      PROVE  History(d) \/ (CreationSucceeds(k) /\ call[k].child = d)
  <2> DEFINE c == call[k].child
  <2>0. LockedCall(k)  BY DEF ResidenceInv, Locked
  <2>1. CASE Spares(k) \/ Reopens(k)  BY <1>a, <2>1 DEF Spares, Reopens
  <2>2. CASE Withdraws(k)
    <3>1. CASE d # c  BY <1>a, <2>2, <3>1 DEF Withdraws
    <3>2. CASE d = c  BY <2>2, <3>2 DEF Withdraws, History, Onward
    <3> QED  BY <3>1, <3>2
  <2>3. CASE Joins(k)
    <3>1. KeptJoin(d, c)  BY <2>3 DEF Joins
    <3>2. act'[d].published => act[d].published \/ (c = d /\ call[k].pc = "own")
      BY <2>3 DEF Joins
    <3>3. \A e \in act[d].owned : e \in act'[d].owned  BY <3>1 DEF KeptJoin
    <3>4. Onward(d)
      <4>1. call[k].pc \in {"own", "accept"}  BY <2>3 DEF Joins
      <4> QED  BY <1>0, <1>2, <2>0, <4>1, OnwardDelivery DEF CreationSucceeds
    <3> QED  BY <2>3, <3>1, <3>2, <3>3, <3>4 DEF KeptJoin, History
  <2>4. CASE CreationSucceeds(k)
    <3>1. CASE d # c  BY <1>0, <1>a, <2>0, <2>4, <3>1, CreationEffect
    <3> QED  BY <2>4, <3>1
  <2> QED  BY <1>0, <1>2, <2>0, <2>1, <2>2, <2>3, <2>4, DeliveryClasses
<1> QED  BY <1>1, <1>2, StepKinds

\* While admission is open a parent that stops has no children to open.
LEMMA StopsAlone ==
    ASSUME ResidenceInv, TreeInv, Admitting, NEW e \in Children, act[e].disposal # "none"
    PROVE  act[e].owned = {}
BY DEF ResidenceInv, Books, BooksAt, TreeInv, ClosedChild, Untouched

\* The epoch a delivery rolls back is untouched.
LEMMA RollsBackUntouched ==
    ASSUME ResidenceInv, TreeInv, NEW k \in Callers,
           Withdraws(k) \/ (Reopens(k) /\ act[call[k].child].here)
    PROVE  Untouched(call[k].child)
<1>1. CASE Withdraws(k)
  BY <1>1 DEF TreeInv, FreshCall, Withdraws, Current
<1>2. CASE Reopens(k) /\ act[call[k].child].here
  BY <1>2 DEF TreeInv, FreshCall, Reopens
<1> QED  BY <1>1, <1>2

\* While admission is open a transaction is opened by the watcher or by a delivery
\* that rolls back.
LEMMA OpenedWhileAdmitting ==
    ASSUME ResidenceInv, TreeInv, Next, Undisturbed', Admitting', NEW d \in Children,
           act[d].disposal = "none", act'[d].disposal # "none"
    PROVE  \/ WatcherSettles(d)
           \/ \E k \in Callers : call[k].child = d /\ (Reopens(k) \/ Withdraws(k))
<1>0. Shape /\ Admitting  BY AdmissionCloses DEF ResidenceInv
<1>a. ~Kept(d)  BY DEF Kept
<1>1. ASSUME NEW c \in Children, OtherStep(c)  PROVE WatcherSettles(d)
  <2>2. ~Teardown(c)
    <3>1. ~DrainChildren(c)  BY <1>0, DisturbedLater
    <3>2. ~DrainDisposes  BY <1>0 DEF TreeInv, DrainDisposes, Admitting
    <3>3. ~DrainDescendants  BY AdmissionCloses
    <3> QED  BY <3>1, <3>2, <3>3 DEF Teardown
  <2>3. CASE WatcherSettles(c)
    <3>1. CASE d # c  BY <1>0, <1>a, <2>3, <3>1, WatcherEffect
    <3> QED  BY <2>3, <3>1
  <2>4. CASE DisposalStops(c)
    <3>1. act[c].disposal = "stop"  BY <2>4 DEF DisposalStops
    <3>2. act[c].owned = {}  BY <1>0, <3>1, StopsAlone
    <3>3. KeptOpen(d, {e \in act[c].owned : act[e].here})  BY <1>0, <2>4, <3>1, StopEffect
    <3> QED  BY <3>2, <3>3 DEF KeptOpen
  <2>5. CASE DisposalQuiesces(c)
    <3>1. d # c  BY <2>5 DEF DisposalQuiesces
    <3> QED  BY <1>0, <1>a, <2>5, <3>1, QuiesceEffect
  <2>6. CASE HandleDisposed(c)
    <3>1. d # c /\ act' = [act EXCEPT ![c].disposal = "delete"]  BY <2>6 DEF HandleDisposed
    <3> QED  BY <1>0, <1>a, <3>1, HandleEffect
  <2>7. CASE ActivationDeleted(c)
    <3>1. d # c  BY <2>7 DEF ActivationDeleted
    <3> QED  BY <1>0, <1>a, <2>7, <3>1, DeletedEffect
  <2>8. CASE LateDisowns(c)  BY <1>0, <2>8, DisownEffect
  <2> QED  BY <1>0, <1>1, <1>a, <2>2, <2>3, <2>4, <2>5, <2>6, <2>7, <2>8, OtherClasses
<1>2. ASSUME NEW k \in Callers, DeliveryStep(k)
      PROVE  call[k].child = d /\ (Reopens(k) \/ Withdraws(k))
  <2>0. LockedCall(k)  BY DEF ResidenceInv, Locked
  <2>1. CASE Spares(k)  BY <1>a, <2>1 DEF Spares
  <2>2. CASE Reopens(k)
    <3>1. KeptOpen(d, {call[k].child})  BY <2>2 DEF Reopens
    <3> QED  BY <2>2, <3>1 DEF KeptOpen
  <2>3. CASE Withdraws(k)  BY <1>a, <2>3 DEF Withdraws
  <2>4. CASE Joins(k)
    <3>1. KeptJoin(d, call[k].child)  BY <2>4 DEF Joins
    <3> QED  BY <3>1 DEF KeptJoin
  <2>5. CASE CreationSucceeds(k)  BY <1>0, <1>a, <2>0, <2>5, CreationEffect
  <2> QED  BY <1>0, <1>2, <2>0, <2>1, <2>2, <2>3, <2>4, <2>5, DeliveryClasses
<1> QED  BY <1>1, <1>2, StepKinds

\* A child's lock keeps out the watcher and the other deliveries.
LEMMA Excluded ==
    ASSUME ResidenceInv, NEW k \in Callers, call[k].pc \in Holding
    PROVE  LET c == call[k].child IN
           /\ c \in Children /\ lock[c] = k /\ ~WatcherSettles(c)
           /\ \A j \in Callers : call[j].pc \in Holding /\ call[j].child = c => j = k
<1>1. LockedCall(k) /\ \A j \in Callers : LockedCall(j)  BY DEF ResidenceInv, Locked
<1>2. call[k].child \in Children /\ lock[call[k].child] = k  BY <1>1 DEF LockedCall, Holding
<1>3. k # NoCaller  BY TreeAssumption
<1>4. ~WatcherSettles(call[k].child)  BY <1>2, <1>3 DEF WatcherSettles
<1>5. \A j \in Callers : call[j].pc \in Holding /\ call[j].child = call[k].child => j = k
  BY <1>1, <1>2 DEF LockedCall
<1> QED  BY <1>2, <1>4, <1>5

\* An epoch that is not published stays untouched.
LEMMA FreshChildStep ==
    ASSUME ResidenceInv, TreeInv, Next, NEW c \in Children  PROVE FreshChild(c)'
<1> SUFFICES ASSUME act'[c].here, ~act'[c].published  PROVE Untouched(c)'
  BY DEF FreshChild
<1>1. ASSUME NEW k \in Callers, CreationSucceeds(k), call[k].child = c  PROVE Untouched(c)'
  <2>1. LockedCall(k) /\ Shape  BY DEF ResidenceInv, Locked
  <2> QED  BY <1>1, <2>1, CreationEffect DEF Untouched
<1>2. CASE History(c)
  <2>1. act[c].here /\ ~act[c].published  BY <1>2 DEF History, Onward
  <2>2. Untouched(c)  BY <2>1 DEF TreeInv, FreshChild
  <2>3. \A k \in Callers : DeliverySends(k) => call[k].child # c
    BY <2>1 DEF DeliverySends, ResidenceInv, Locked, LockedCall
  <2> QED  BY <2>1, <2>2, <2>3, UntouchedStays
<1> QED  BY <1>1, <1>2, Histories

\* How one call moves in a step: it stays, it begins, or it is a delivery's move.
LEMMA CallSteps ==
    ASSUME ResidenceInv, Next, NEW k \in Callers
    PROVE  \/ call'[k] = call[k] /\ ~DeliveryStep(k)
           \/ call'[k].pc = "lock" /\ ~call'[k].fresh
           \/ call'[k].pc = "report"
           \/ DeliveryStep(k) /\ Moves(k)
<1>0. Shape /\ LockedCall(k)  BY DEF ResidenceInv, Locked
<1>1. CASE DeliveryStep(k)  BY <1>0, <1>1, DeliveryMoves
<1>2. ASSUME NEW j \in Callers, DeliveryStep(j), j # k  PROVE call'[k] = call[k]
  <2>1. Moves(j)  BY <1>0, <1>2, DeliveryMoves DEF ResidenceInv, Locked
  <2> QED  BY <1>2, <2>1 DEF Moves
<1>3. ASSUME NEW c \in Children, OtherStep(c)
      PROVE  call'[k] = call[k] \/ (call'[k].pc = "lock" /\ ~call'[k].fresh)
             \/ call'[k].pc = "report"
  BY <1>0, <1>3, OtherCalls
<1>4. CASE DrainBegins \/ DrainStep \/ DrainDescendants
  <2>1. call' = call
    BY <1>4 DEF DrainBegins, DrainStep, DrainDisposes, DrainEnds, DrainDescendants
  <2> QED  BY <1>1, <2>1
<1>5. (\E c \in Children : OtherStep(c)) \/ (\E j \in Callers : DeliveryStep(j))
      \/ DrainBegins \/ DrainStep \/ DrainDescendants
  BY DEF Next, OtherStep
<1> QED  BY <1>1, <1>2, <1>3, <1>4, <1>5

\* The child of a delivery that is not the one being created has a history.
LEMMA HeldHistory ==
    ASSUME ResidenceInv, Next, NEW k \in Callers, call[k].pc \in Holding, ~CreationSucceeds(k)
    PROVE  History(call[k].child)
<1>1. call[k].child \in Children  BY Excluded
<1>2. \A j \in Callers : CreationSucceeds(j) => call[j].pc \in Holding
  BY DEF CreationSucceeds, Holding, CallPcs
<1>3. ~\E j \in Callers : CreationSucceeds(j) /\ call[j].child = call[k].child
  BY <1>2, Excluded
<1> QED  BY <1>1, <1>3, Histories

\* A fresh epoch stays untouched until its first message.
LEMMA FreshCallStep ==
    ASSUME ResidenceInv, TreeInv, Next, NEW k \in Callers  PROVE FreshCall(k)'
<1>c. PICK c : c = call[k].child  OBVIOUS
<1>0. /\ Shape /\ LockedCall(k) /\ FreshCall(k)
  BY DEF ResidenceInv, Locked, TreeInv
<1>a. ASSUME call[k].pc \in {"own", "admit", "accept", "send", "rollback"}, call[k].fresh,
             act'[c].here, ~DeliverySends(k), ~CreationSucceeds(k)
      PROVE  Untouched(c)'
  <2>1. call[k].pc \in Holding  BY <1>a DEF Holding, CallPcs
  <2>2. History(c) /\ c \in Children  BY <1>a, <1>c, <2>1, HeldHistory, Excluded
  <2>3. act[c].here  BY <1>a, <2>2 DEF History, Onward
  <2>4. Untouched(c)  BY <1>0, <1>a, <1>c, <2>3 DEF FreshCall
  <2>5. \A j \in Callers : DeliverySends(j) => call[j].child # c
    <3>1. \A j \in Callers : DeliverySends(j) => call[j].pc \in Holding
      BY DEF DeliverySends, Holding, CallPcs
    <3> QED  BY <1>a, <1>c, <2>1, <3>1, Excluded
  <2> QED  BY <2>2, <2>3, <2>4, <2>5, UntouchedStays
<1>1. CASE call'[k] = call[k] /\ ~DeliveryStep(k)
  <2>1. ~DeliverySends(k) /\ ~CreationSucceeds(k)  BY <1>1 DEF DeliveryStep
  <2> QED  BY <1>0, <1>1, <1>a, <1>c, <2>1 DEF FreshCall
<1>2. CASE call'[k].pc = "lock" /\ ~call'[k].fresh  BY <1>2 DEF FreshCall
<1>3. CASE call'[k].pc = "report"  BY <1>3 DEF FreshCall
<1>4. CASE DeliveryStep(k) /\ Moves(k)
  <2>1. CASE call'[k].pc = "idle"  BY <2>1 DEF FreshCall
  <2>2. CASE call'[k].pc = "lock" /\ ~call'[k].fresh  BY <2>2 DEF FreshCall
  <2>3. CASE DeliveryLooks(k) /\ call'[k].fresh = call[k].fresh
             /\ call'[k].pc \in {"create", "retry", "admit"}
    <3>1. ~call[k].fresh  BY <1>0, <2>3 DEF DeliveryLooks, FreshCall
    <3> QED  BY <2>3, <3>1 DEF FreshCall
  <2>4. CASE CreationSucceeds(k)
    <3>1. /\ call'[k].pc = "own" /\ call'[k].child = c /\ call'[k].fresh = TRUE
          /\ ~agent'[c].running /\ agent'[c].pending = 0
          /\ act'[c].owned = {} /\ act'[c].kids = {}
      BY <1>0, <1>c, <2>4, CreationEffect
    <3> QED  BY <3>1 DEF FreshCall, Untouched
  <2>5. CASE /\ call'[k].child = c /\ call'[k].fresh = call[k].fresh
             /\ <<call[k].pc, call'[k].pc>> \in Passes
    <3>1. CASE call'[k].pc \in {"build", "announce"}  BY <3>1 DEF FreshCall
    <3>2. CASE call'[k].pc \in {"admit", "rollback", "accept", "send"}
      <4>1. call[k].pc \in {"own", "admit", "accept"}  BY <2>5, <3>2 DEF Passes
      <4>2. ~DeliverySends(k) /\ ~CreationSucceeds(k)
        BY <4>1 DEF DeliverySends, CreationSucceeds
      <4> QED  BY <1>a, <2>5, <3>2, <4>1, <4>2 DEF FreshCall
    <3> QED  BY <2>5, <3>1, <3>2 DEF Passes
  <2> QED  BY <1>4, <1>c, <2>1, <2>2, <2>3, <2>4, <2>5 DEF Moves
<1> QED  BY <1>1, <1>2, <1>3, <1>4, CallSteps

\* While admission is open, what closes without settling is untouched.
LEMMA ClosedChildStep ==
    ASSUME ResidenceInv, ResidenceInv', TreeInv, Next, Undisturbed', NEW c \in Children
    PROVE  ClosedChild(c)'
<1> SUFFICES ASSUME act'[c].disposal # "none", ~act'[c].settled, Admitting'
             PROVE  Untouched(c)'
  BY DEF ClosedChild
<1>0. Shape /\ Admitting /\ act'[c].here
  BY AdmissionCloses DEF ResidenceInv, Resident, ResidentAt
<1>1. ASSUME NEW k \in Callers, CreationSucceeds(k), call[k].child = c  PROVE Untouched(c)'
  <2>1. LockedCall(k)  BY DEF ResidenceInv, Locked
  <2> QED  BY <1>0, <1>1, <2>1, CreationEffect DEF Untouched
<1>2. CASE History(c) /\ act[c].disposal # "none"
  <2>1. act[c].here /\ ~act[c].settled  BY <1>0, <1>2 DEF History, Onward
  <2>2. Untouched(c)  BY <1>0, <1>2, <2>1 DEF TreeInv, ClosedChild
  <2>3. \A k \in Callers : DeliverySends(k) => call[k].child # c
    BY <1>0, <1>2 DEF DeliverySends, TreeInv, ClosedCall
  <2> QED  BY <2>1, <2>2, <2>3, UntouchedStays
<1>3. CASE History(c) /\ act[c].disposal = "none"
  <2>1. act[c].here  BY <1>0, <1>3 DEF History, Onward
  <2>2. CASE WatcherSettles(c)  BY <1>0, <2>2, WatcherEffect
  <2>3. ASSUME NEW k \in Callers, call[k].child = c, Reopens(k) \/ Withdraws(k)
        PROVE  Untouched(c)'
    <3>1. Untouched(c)  BY <2>1, <2>3, RollsBackUntouched
    <3>2. call[k].pc \in {"own", "admit", "accept"}  BY <2>3 DEF Reopens, Withdraws
    <3>3. \A j \in Callers : DeliverySends(j) => call[j].child # c
      <4>1. call[k].pc \in Holding  BY <3>2 DEF Holding, CallPcs
      <4>2. \A j \in Callers : DeliverySends(j) => call[j].pc \in Holding /\ call[j].pc = "send"
        BY DEF DeliverySends, Holding, CallPcs
      <4> QED  BY <2>3, <3>2, <4>1, <4>2, Excluded
    <3> QED  BY <2>1, <3>1, <3>3, UntouchedStays
  <2> QED  BY <1>3, <2>2, <2>3, OpenedWhileAdmitting
<1> QED  BY <1>1, <1>2, <1>3, Histories

\* A delivery keeps the watcher out, and while admission is open nobody else closes
\* its child.
LEMMA ClosedCallStep ==
    ASSUME ResidenceInv, TreeInv, Next, Undisturbed', NEW k \in Callers
    PROVE  ClosedCall(k)'
<1> DEFINE c == call[k].child
<1>0. /\ Shape /\ LockedCall(k) /\ ClosedCall(k)
  BY DEF ResidenceInv, Locked, TreeInv
<1>a. ASSUME call[k].pc \in {"own", "admit", "accept", "send", "announce"}, ~CreationSucceeds(k)
      PROVE  ~act'[c].settled
  <2>1. call[k].pc \in Holding  BY <1>a DEF Holding, CallPcs
  <2>2. History(c) /\ ~WatcherSettles(c)  BY <1>a, <2>1, HeldHistory, Excluded
  <2> QED  BY <1>0, <1>a, <2>2 DEF History, ClosedCall
<1>b. ASSUME call[k].pc \in {"own", "admit", "accept", "send"}, ~CreationSucceeds(k),
             act'[c].disposal # "none", Admitting', call'[k].pc # "rollback"
      PROVE  FALSE
  <2>1. call[k].pc \in Holding  BY <1>b DEF Holding, CallPcs
  <2>2. c \in Children /\ ~WatcherSettles(c)  BY <2>1, Excluded
  <2>3. act[c].disposal = "none"  BY <1>0, <1>b, AdmissionCloses DEF ClosedCall
  <2>4. PICK j \in Callers : call[j].child = c /\ (Reopens(j) \/ Withdraws(j))
    BY <1>b, <2>2, <2>3, OpenedWhileAdmitting
  <2>5. call[j].pc \in Holding  BY <2>4 DEF Reopens, Withdraws, Holding, CallPcs
  <2>6. j = k  BY <2>1, <2>4, <2>5, Excluded
  <2>7. call'[k].pc = "rollback"  BY <1>0, <2>4, <2>6, GotoEffect DEF Reopens, Withdraws
  <2> QED  BY <1>b, <2>7
<1>1. CASE call'[k] = call[k] /\ ~DeliveryStep(k)
  <2>1. ~CreationSucceeds(k)  BY <1>1 DEF DeliveryStep
  <2> QED  BY <1>1, <1>a, <1>b, <2>1 DEF ClosedCall
<1>2. CASE call'[k].pc \in {"lock", "report", "idle", "create", "retry"}  BY <1>2 DEF ClosedCall
<1>4. CASE DeliveryStep(k) /\ Moves(k)
  <2>3. CASE DeliveryLooks(k) /\ call'[k].child = c /\ call'[k].pc = "admit"
             /\ act[c].here /\ ~Closing(c)
    <3>1. act' = act /\ call[k].pc = "lock"  BY <2>3 DEF DeliveryLooks
    <3>2. act[c].disposal = "none" /\ c \in Children  BY <1>0, <2>3, <3>1 DEF Closing, LockedCall
    <3>3. ~act[c].settled  BY <3>2 DEF ResidenceInv, Books, BooksAt
    <3> QED  BY <2>3, <3>1, <3>2, <3>3 DEF ClosedCall
  <2>4. CASE CreationSucceeds(k)
    <3>1. /\ call'[k].pc = "own" /\ call'[k].child = c
          /\ act'[c].disposal = "none" /\ ~act'[c].settled
      BY <1>0, <2>4, CreationEffect
    <3> QED  BY <3>1 DEF ClosedCall
  <2>5. CASE /\ call'[k].child = c
             /\ <<call[k].pc, call'[k].pc>> \in Passes
    <3>1. CASE call'[k].pc \in {"build", "rollback"}  BY <3>1 DEF ClosedCall
    <3>2. CASE call'[k].pc \in {"admit", "accept", "send", "announce"}
      <4>1. call[k].pc \in {"own", "admit", "accept", "send"}  BY <2>5, <3>2 DEF Passes
      <4>2. ~CreationSucceeds(k)  BY <4>1 DEF CreationSucceeds
      <4> QED  BY <1>a, <1>b, <2>5, <3>2, <4>1, <4>2 DEF ClosedCall
    <3> QED  BY <2>5, <3>1, <3>2 DEF Passes
  <2> QED  BY <1>2, <1>4, <2>3, <2>4, <2>5 DEF Moves
<1> QED  BY <1>1, <1>2, <1>4, CallSteps

\* A published child stays attached to its parent.
LEMMA AttachedStep ==
    ASSUME ResidenceInv, TreeInv, Next, Undisturbed', NEW c \in Children
    PROVE  AttachedAt(c)'
<1>p. PICK p : p = Parent[c]  OBVIOUS
<1> SUFFICES ASSUME act'[c].here, act'[c].published, p # Root
             PROVE  /\ act'[p].here /\ c \in act'[p].owned
                    /\ act'[p].disposal \in {"none", "stop", "kids"}
                    /\ act'[p].disposal = "kids" =>
                          act'[c].disposal # "none" /\ <<c, act'[c].gen>> \in act'[p].kids
  BY <1>p DEF AttachedAt
<1>0. Shape /\ p \in Children /\ p # c  BY <1>p, ParentType, NotOwnParent DEF ResidenceInv
<1>1. History(c)
  <2>1. ASSUME NEW k \in Callers, CreationSucceeds(k), call[k].child = c  PROVE FALSE
    <3>1. LockedCall(k)  BY DEF ResidenceInv, Locked
    <3> QED  BY <1>0, <2>1, <3>1, CreationEffect
  <2> QED  BY <2>1, Histories
<1>2. act[c].here /\ act'[c].gen = act[c].gen
      /\ (act[c].disposal # "none" => act'[c].disposal # "none")
  BY <1>1 DEF History, Onward
<1>3. CASE ~act[c].published
  <2>1. PICK k \in Callers : Joins(k) /\ call[k].child = c  BY <1>1, <1>3 DEF History
  <2>2. act[p].here /\ act[p].disposal = "none"  BY <1>p, <2>1, OwnerRuns
  <2>3. KeptJoin(p, c)  BY <1>0, <2>1 DEF Joins
  <2> QED  BY <1>p, <2>2, <2>3 DEF KeptJoin
<1>4. CASE act[c].published
  <2>0. /\ act[p].here /\ c \in act[p].owned
        /\ act[p].disposal \in {"none", "stop", "kids"}
        /\ act[p].disposal = "kids" =>
              act[c].disposal # "none" /\ <<c, act[c].gen>> \in act[p].kids
    BY <1>2, <1>4, <1>p DEF TreeInv, AttachedAt
  <2>k. CASE Kept(p)  BY <1>2, <2>0, <2>k DEF Kept
  <2>o. CASE \E S : KeptOpen(p, S)  BY <1>2, <2>0, <2>o DEF KeptOpen
  <2>1. ASSUME NEW e \in Children, OtherStep(e), ~Kept(p), ~\E S : KeptOpen(p, S)
        PROVE  /\ act'[p].here /\ c \in act'[p].owned
               /\ act'[p].disposal \in {"none", "stop", "kids"}
               /\ act'[p].disposal = "kids" =>
                     act'[c].disposal # "none" /\ <<c, act'[c].gen>> \in act'[p].kids
    <3>1. CASE WatcherSettles(e)
      <4>1. e = p  BY <1>0, <2>1, <3>1, WatcherEffect
      <4> QED  BY <2>0, <3>1, <4>1 DEF WatcherSettles, Settled
    <3>2. CASE DisposalStops(e)
      <4>1. e = p  BY <1>0, <2>1, <3>2, StopEffect
      <4>2. KeptOpen(c, {f \in act[p].owned : act[f].here})  BY <1>0, <3>2, <4>1, StopEffect
      <4>3. act'[c].disposal # "none"  BY <1>2, <2>0, <4>2 DEF KeptOpen
      <4>4. /\ act'[p].here = act[p].here /\ act'[p].owned = act[p].owned
            /\ act'[p].disposal = "kids"
            /\ act'[p].kids = {<<d, act[d].gen>> : d \in {f \in act[p].owned : act[f].here}}
        BY <1>0, <3>2, <4>1, StopEffect
      <4>5. <<c, act'[c].gen>> \in act'[p].kids  BY <1>2, <2>0, <4>4
      <4> QED  BY <2>0, <4>3, <4>4, <4>5
    <3>3. CASE DisposalQuiesces(e)
      <4>1. e = p  BY <1>0, <2>1, <3>3, QuiesceEffect
      <4>2. act[p].disposal = "kids" /\ KidsReleased(p)  BY <3>3, <4>1 DEF DisposalQuiesces
      <4>3. ~TxnOpen(<<c, act[c].gen>>)  BY <2>0, <4>2 DEF KidsReleased
      <4>4. TxnOpen(<<c, act[c].gen>>)  BY <1>2, <2>0, <4>2 DEF TxnOpen, Closing
      <4> QED  BY <4>3, <4>4
    <3>4. CASE HandleDisposed(e)
      <4>1. act[e].disposal = "handle" /\ act' = [act EXCEPT ![e].disposal = "delete"]
        BY <3>4 DEF HandleDisposed
      <4>2. e = p  BY <1>0, <2>1, <4>1, HandleEffect
      <4> QED  BY <2>0, <4>1, <4>2
    <3>5. CASE ActivationDeleted(e)
      <4>1. act[e].disposal = "delete"  BY <3>5 DEF ActivationDeleted
      <4>2. e = p  BY <1>0, <2>1, <3>5, DeletedEffect
      <4> QED  BY <2>0, <4>1, <4>2
    <3>6. CASE LateDisowns(e)
      <4>1. e # c  BY <1>0, <1>2, <2>0, <3>6, DisturbedLater
      <4>2. /\ act'[p].here = act[p].here /\ act'[p].disposal = act[p].disposal
            /\ act'[p].kids = act[p].kids /\ act'[p].owned = act[p].owned \ {e}
        BY <1>0, <3>6, DisownEffect
      <4> QED  BY <1>2, <2>0, <4>1, <4>2
    <3> QED
      BY <1>0, <2>1, <3>1, <3>2, <3>3, <3>4, <3>5, <3>6, OtherClasses
  <2>2. ASSUME NEW k \in Callers, DeliveryStep(k), ~Kept(p), ~\E S : KeptOpen(p, S)
        PROVE  /\ act'[p].here /\ c \in act'[p].owned
               /\ act'[p].disposal \in {"none", "stop", "kids"}
               /\ act'[p].disposal = "kids" =>
                     act'[c].disposal # "none" /\ <<c, act'[c].gen>> \in act'[p].kids
    <3>0. LockedCall(k)  BY DEF ResidenceInv, Locked
    <3>1. CASE Spares(k) \/ Reopens(k)  BY <1>0, <2>2, <3>1 DEF Spares, Reopens
    <3>2. CASE Withdraws(k)
      <4>1. call[k].child = p  BY <1>0, <2>2, <3>2 DEF Withdraws
      <4>2. Untouched(p)  BY <3>2, <4>1, RollsBackUntouched
      <4> QED  BY <2>0, <4>2 DEF Untouched
    <3>3. CASE Joins(k)
      <4>1. KeptJoin(p, call[k].child)  BY <1>0, <3>3 DEF Joins
      <4> QED  BY <1>2, <2>0, <4>1 DEF KeptJoin
    <3>4. CASE CreationSucceeds(k)  BY <1>0, <2>0, <2>2, <3>0, <3>4, CreationEffect
    <3> QED  BY <1>0, <2>2, <3>0, <3>1, <3>2, <3>3, <3>4, DeliveryClasses
  <2> QED  BY <2>k, <2>o, <2>1, <2>2, StepKinds
<1> QED  BY <1>3, <1>4

\* How a transaction comes to have a notice to deliver.
LEMMA NoticeSteps ==
    ASSUME ResidenceInv, Next, NEW c \in Children, late'[c].pc \in {"notify", "send"}
    PROVE  \/ ActivationDeleted(c) /\ act[c].published /\ late'[c].pc = "notify"
           \/ /\ LateNotifies(c) /\ late[c].pc = "notify" /\ Admitting /\ Parent[c] # Root
              /\ late'[c].pc = "send" /\ late'[c].to = act[Parent[c]].gen
              /\ \A d \in Children : Kept(d)
           \/ late'[c].pc = late[c].pc /\ late'[c].to = late[c].to /\ ~LateDisowns(c)
<1>0. Shape /\ late[c] \in LateRec  BY DEF ResidenceInv, Shape
<1>1. CASE ActivationDeleted(c)
  <2> DEFINE q == IF act[c].published THEN "notify" ELSE "disown"
             n == act[c].gen
             a == act[c].announced
  <2>1. late' = [late EXCEPT ![c] = [NoLate EXCEPT !.pc = q, !.gen = n, !.announced = a]]
    BY <1>1 DEF ActivationDeleted
  <2> HIDE DEF q, n, a
  <2>2. [NoLate EXCEPT !.pc = q, !.gen = n, !.announced = a].pc = q  BY DEF NoLate
  <2>3. late'[c].pc = q  BY <1>0, <2>1, <2>2 DEF Shape
  <2> QED  BY <1>1, <2>3 DEF q
<1>2. CASE LateNotifies(c)
  <2> DEFINE n == act[Parent[c]].gen
  <2>1. \/ /\ late' = [late EXCEPT ![c].pc = "send", ![c].to = n] /\ Parent[c] # Root /\ Admitting
           /\ act' = [act EXCEPT ![Parent[c]].accepted = @ + 1]
        \/ late' = [late EXCEPT ![c].pc = "disown"]
    BY <1>2 DEF LateNotifies
  <2> HIDE DEF n
  <2>2. late' # [late EXCEPT ![c].pc = "disown"]
    <3>1. late' = [late EXCEPT ![c].pc = "disown"] => late'[c].pc = "disown"
      BY <1>0 DEF Shape, LateRec
    <3> QED  BY <3>1
  <2>3. late' = [late EXCEPT ![c].pc = "send", ![c].to = n] =>
           late'[c].pc = "send" /\ late'[c].to = n
    BY <1>0 DEF Shape, LateRec
  <2>4. \A d \in Children : Kept(d)  BY <1>0, <2>1, <2>2, ParentType, CountEffect
  <2>5. late[c].pc = "notify"  BY <1>2 DEF LateNotifies
  <2> QED  BY <1>2, <2>1, <2>2, <2>3, <2>4, <2>5 DEF n
<1>3. ~LateSends(c)
  <2>1. LateSends(c) => late' = [late EXCEPT ![c].pc = "disown", ![c].to = 0]  BY DEF LateSends
  <2>2. LateSends(c) => late'[c].pc = "disown"  BY <1>0, <2>1 DEF Shape, LateRec
  <2> QED  BY <2>2
<1>4. ~LateDisowns(c)
  <2>1. LateDisowns(c) => late' = [late EXCEPT ![c] = NoLate]  BY DEF LateDisowns
  <2>2. LateDisowns(c) => late'[c].pc = "none"  BY <1>0, <2>1 DEF Shape, NoLate
  <2> QED  BY <2>2
<1>5. CASE ~ActivationDeleted(c) /\ ~LateNotifies(c)
  <2>1. ASSUME NEW e \in Children, OtherStep(e)  PROVE late'[c] = late[c]
    <3>1. CASE e = c
      <4>1. late' = late
        BY <1>3, <1>4, <1>5, <2>1, <3>1 DEF OtherStep, AgentStep, DisposalStep, LateStep,
           DrainStep, AgentClaims, AgentRests, AgentReplays, Interrupt, WatcherSettles,
           DisposalStops, DisposalQuiesces, HandleDisposed, DrainChildren, DrainBegins,
           DrainDisposes, DrainEnds, DrainDescendants, DeliveryBegins, ReportCounts
      <4> QED  BY <4>1
    <3>2. CASE e # c  BY <1>0, <2>1, <3>2, LateOther
    <3> QED  BY <3>1, <3>2
  <2>2. ASSUME NEW k \in Callers, DeliveryStep(k)
        PROVE  late'[c].pc = late[c].pc /\ late'[c].to = late[c].to
    BY <1>0, <2>2, LateDelivery
  <2> QED  BY <1>4, <2>1, <2>2, StepKinds
<1> QED  BY <1>1, <1>2, <1>5

\* A child with a notice to deliver stays counted by its parent.
LEMMA AccountableStep ==
    ASSUME ResidenceInv, TreeInv, Next, Undisturbed', NEW c \in Children
    PROVE  AccountableAt(c)'
<1>p. PICK p : p = Parent[c]  OBVIOUS
<1> SUFFICES ASSUME late'[c].pc \in {"notify", "send"}, p # Root
             PROVE  /\ ~act'[p].settled
                    /\ act'[p].here /\ act'[p].published /\ act'[p].disposal = "none" =>
                          c \in act'[p].owned
                    /\ Admitting' => act'[p].here /\ act'[p].disposal = "none"
                                     /\ c \in act'[p].owned
                    /\ late'[c].pc = "send" /\ act'[p].here /\ late'[c].to = act'[p].gen =>
                          c \in act'[p].owned
  BY <1>p DEF AccountableAt
<1>0. /\ Shape /\ p \in Children /\ p # c /\ (Admitting' => Admitting)
  BY <1>p, ParentType, NotOwnParent, AdmissionCloses DEF ResidenceInv
<1>1. CASE ActivationDeleted(c) /\ act[c].published /\ late'[c].pc = "notify"
  <2>1. act[c].here  BY <1>1 DEF ActivationDeleted, ResidenceInv, Resident, ResidentAt
  <2>2. act[p].here /\ c \in act[p].owned  BY <1>1, <1>p, <2>1 DEF TreeInv, AttachedAt
  <2>3. Admitting => act[p].disposal = "none"  BY <1>0, <2>2, StopsAlone
  <2>4. ~act[p].settled  BY <1>0, <2>2 DEF ResidenceInv, Books, BooksAt
  <2>5. Kept(p)  BY <1>0, <1>1, DeletedEffect
  <2> QED  BY <1>0, <1>1, <2>2, <2>3, <2>4, <2>5 DEF Kept
<1>a. ASSUME late[c].pc \in {"notify", "send"}
      PROVE  /\ ~act[p].settled
             /\ act[p].here /\ act[p].published /\ act[p].disposal = "none" =>
                   c \in act[p].owned
             /\ Admitting => act[p].here /\ act[p].disposal = "none" /\ c \in act[p].owned
             /\ late[c].pc = "send" /\ act[p].here /\ late[c].to = act[p].gen =>
                   c \in act[p].owned
  BY <1>a, <1>p DEF TreeInv, AccountableAt
<1>2. CASE /\ late[c].pc = "notify" /\ Admitting
           /\ \A d \in Children : Kept(d)
  <2>1. Kept(p)  BY <1>0, <1>2
  <2> QED  BY <1>2, <1>a, <2>1 DEF Kept
<1>3. CASE late'[c].pc = late[c].pc /\ late'[c].to = late[c].to /\ ~LateDisowns(c)
  <2>1. ASSUME NEW k \in Callers, CreationSucceeds(k), call[k].child = p
        PROVE  /\ ~act'[p].settled /\ ~act'[p].published /\ ~Admitting
               /\ late'[c].to # act'[p].gen
    <3>1. LockedCall(k)  BY DEF ResidenceInv, Locked
    <3>2. ~act[p].here /\ ~act'[p].settled /\ ~act'[p].published /\ act'[p].gen = act[p].gen + 1
      BY <1>0, <2>1, <3>1, CreationEffect
    <3>3. late[c].to <= act[p].gen /\ late[c].to \in Nat /\ act[p].gen \in Nat
      BY <1>0, <1>p DEF ResidenceInv, Dated, Shape, ActRec, LateRec
    <3>4. ~Admitting  BY <1>3, <1>a, <3>2
    <3> QED  BY <1>3, <3>2, <3>3, <3>4
  <2>2. CASE History(p)
    <3>0. /\ act'[p].here /\ c \in act[p].owned => c \in act'[p].owned
      BY <1>3, <2>2 DEF History
    <3>1. ~act'[p].settled
      <4>1. ~WatcherSettles(p)
        BY <1>3, <1>a DEF WatcherSettles, Settled, Closing
      <4> QED  BY <1>3, <1>a, <2>2, <4>1 DEF History
    <3>2. act'[p].here /\ act'[p].published /\ act'[p].disposal = "none" => c \in act'[p].owned
      <4> SUFFICES ASSUME act'[p].here, act'[p].published, act'[p].disposal = "none"
                   PROVE  c \in act'[p].owned
        OBVIOUS
      <4>1. act[p].here /\ act[p].disposal = "none"  BY <2>2 DEF History, Onward
      <4>2. CASE act[p].published  BY <1>3, <1>a, <3>0, <4>1, <4>2
      <4>3. CASE ~act[p].published
        <5>1. PICK k \in Callers : Joins(k) /\ call[k].pc = "own"
          BY <2>2, <4>3 DEF History
        <5>2. Admitting  BY <5>1 DEF Joins
        <5> QED  BY <1>3, <1>a, <3>0, <5>2
      <4> QED  BY <4>2, <4>3
    <3>3. Admitting' => act'[p].here /\ act'[p].disposal = "none" /\ c \in act'[p].owned
      <4> SUFFICES ASSUME Admitting'
                   PROVE  act'[p].here /\ act'[p].disposal = "none" /\ c \in act'[p].owned
        OBVIOUS
      <4>1. act[p].here /\ act[p].disposal = "none" /\ c \in act[p].owned  BY <1>0, <1>3, <1>a
      <4>2. ~ActivationDeleted(p)  BY <4>1 DEF ActivationDeleted
      <4>3. act'[p].here  BY <2>2, <4>1, <4>2 DEF History
      <4>4. act'[p].disposal = "none"
        <5>1. ~WatcherSettles(p)  BY <4>1 DEF WatcherSettles, Settled
        <5>2. ASSUME NEW k \in Callers, call[k].child = p, Reopens(k) \/ Withdraws(k)
              PROVE  FALSE
          <6>1. Untouched(p)  BY <4>1, <5>2, RollsBackUntouched
          <6> QED  BY <4>1, <6>1 DEF Untouched
        <5> QED  BY <1>0, <4>1, <5>1, <5>2, OpenedWhileAdmitting
      <4> QED  BY <3>0, <4>1, <4>3, <4>4
    <3>4. late'[c].pc = "send" /\ act'[p].here /\ late'[c].to = act'[p].gen => c \in act'[p].owned
      BY <1>3, <1>a, <2>2, <3>0 DEF History, Onward
    <3> QED  BY <3>1, <3>2, <3>3, <3>4
  <2> QED  BY <1>0, <2>1, <2>2, Histories
<1> QED  BY <1>1, <1>2, <1>3, NoticeSteps

\* The tree is kept by every step that disturbs nothing.
LEMMA TreeStep ==
    ASSUME ResidenceInv, ResidenceInv', Undisturbed => TreeInv, [Next]_vars, Undisturbed'
    PROVE  TreeInv'
<1>1. CASE UNCHANGED vars
  <2>1. TreeInv  BY <1>1 DEF vars, Undisturbed
  <2>2. ASSUME NEW c \in Children  PROVE (FreshChild(c) /\ ClosedChild(c))'
    BY <1>1, <2>1 DEF vars, TreeInv, FreshChild, ClosedChild, Untouched, Admitting
  <2>3. ASSUME NEW c \in Children  PROVE AttachedAt(c)'
    BY <1>1, <2>1 DEF vars, TreeInv, AttachedAt
  <2>4. ASSUME NEW c \in Children  PROVE AccountableAt(c)'
    BY <1>1, <2>1 DEF vars, TreeInv, AccountableAt, Admitting
  <2>5. ASSUME NEW k \in Callers  PROVE (FreshCall(k) /\ ClosedCall(k))'
    BY <1>1, <2>1 DEF vars, TreeInv, FreshCall, ClosedCall, Untouched, Admitting
  <2>6. (drain.pc # "idle" => draining)'  BY <1>1, <2>1 DEF vars, TreeInv
  <2> QED  BY <2>2, <2>3, <2>4, <2>5, <2>6 DEF TreeInv
<1>2. CASE Next
  <2>1. TreeInv /\ Shape  BY <1>2, DisturbedLater DEF ResidenceInv
  <2>2. \A c \in Children : FreshChild(c)'  BY <1>2, <2>1, FreshChildStep
  <2>3. \A c \in Children : ClosedChild(c)'  BY <1>2, <2>1, ClosedChildStep
  <2>4. \A c \in Children : AttachedAt(c)'  BY <1>2, <2>1, AttachedStep
  <2>5. \A c \in Children : AccountableAt(c)'  BY <1>2, <2>1, AccountableStep
  <2>6. \A k \in Callers : FreshCall(k)'  BY <1>2, <2>1, FreshCallStep
  <2>7. \A k \in Callers : ClosedCall(k)'  BY <1>2, <2>1, ClosedCallStep
  <2>8. (drain.pc # "idle" => draining)'  BY <1>2, <2>1, DrainCloses DEF TreeInv
  <2> QED  BY <2>2, <2>3, <2>4, <2>5, <2>6, <2>7, <2>8 DEF TreeInv
<1> QED  BY <1>1, <1>2

\* The tree at the beginning.
LEMMA TreeInit == ASSUME Init  PROVE TreeInv
<1>1. \A c \in Children : act[c] = NoActivation /\ late[c] = NoLate  BY DEF Init
<1>2. \A k \in Callers : call[k] = NoCall  BY DEF Init
<1>3. ~NoActivation.here /\ ~NoActivation.published /\ NoActivation.disposal = "none"
  BY DEF NoActivation
<1>4. NoLate.pc = "none" /\ NoCall.pc = "idle"  BY DEF NoLate, NoCall
<1>5. drain.pc = "idle"  BY DEF Init
<1>6. \A c \in Children : FreshChild(c) /\ ClosedChild(c) /\ AttachedAt(c) /\ AccountableAt(c)
  BY <1>1, <1>3, <1>4 DEF FreshChild, ClosedChild, AttachedAt, AccountableAt
<1>7. \A k \in Callers : FreshCall(k) /\ ClosedCall(k)
  BY <1>2, <1>4 DEF FreshCall, ClosedCall
<1> QED  BY <1>5, <1>6, <1>7 DEF TreeInv

\* Residence always holds, and the tree as long as nothing disturbs it.
THEOREM TreeHolds == Spec => [](ResidenceInv /\ (Undisturbed => TreeInv))
<1>1. Init => ResidenceInv /\ (Undisturbed => TreeInv)  BY ResidenceInit, TreeInit
<1>2. ResidenceInv /\ (Undisturbed => TreeInv) /\ [Next]_vars
      => (ResidenceInv /\ (Undisturbed => TreeInv))'
  <2> SUFFICES ASSUME ResidenceInv, Undisturbed => TreeInv, [Next]_vars
               PROVE  ResidenceInv' /\ (Undisturbed' => TreeInv')
    OBVIOUS
  <2>1. ResidenceInv'  BY ResidenceStep
  <2>2. Undisturbed' => TreeInv'  BY <2>1, TreeStep
  <2> QED  BY <2>1, <2>2
<1> QED  BY <1>1, <1>2, PTL DEF Spec

\* "that parent cannot settle while the child is live" (acquireOwnership): in every
\* forest a published child has its continuable parent resident.
THEOREM ParentsOutliveChildren == Spec => []ParentOutlivesChild
<1>1. ResidenceInv /\ (Undisturbed => TreeInv) => ParentOutlivesChild
  BY DEF ParentOutlivesChild, TreeInv, AttachedAt
<1> QED  BY <1>1, TreeHolds, PTL

\* "Deliver BEFORE releasing ownership, while the parent still counts this child": a
\* parent does not settle while a child has its notice to deliver.
THEOREM NoticesComeFirst == Spec => []NoticeBeforeSettlement
<1>1. ResidenceInv /\ (Undisturbed => TreeInv) => NoticeBeforeSettlement
  BY DEF NoticeBeforeSettlement, TreeInv, AccountableAt
<1> QED  BY <1>1, TreeHolds, PTL

-----------------------------------------------------------------------------
(* Drain.                                                                  *)

\* Drain has picked every child of the host that is published, and waits for it.
RootedAt(c) ==
    act[c].here /\ act[c].published /\ Parent[c] = Root =>
        /\ drain.pc \in {"dispose", "wait"} => <<c, act[c].gen>> \in drain.roots
        /\ drain.pc = "wait" => act[c].disposal # "none"
        /\ drain.pc # "done"

Rooted == /\ drain.pc # "idle" => draining
          /\ \A c \in Children : RootedAt(c)

\* ... through every step.
LEMMA RootedStep ==
    ASSUME ResidenceInv, Rooted, [Next]_vars  PROVE Rooted'
<1>1. CASE UNCHANGED vars  BY <1>1 DEF vars, Rooted, RootedAt
<1>2. CASE Next
  <2>0. Shape /\ (drain'.pc # "idle" => draining')
    BY <1>2, DrainCloses DEF ResidenceInv, Rooted
  <2> SUFFICES ASSUME NEW c \in Children  PROVE RootedAt(c)'
    BY <2>0 DEF Rooted
  <2> SUFFICES ASSUME act'[c].here, act'[c].published, Parent[c] = Root
               PROVE  /\ drain'.pc \in {"dispose", "wait"} => <<c, act'[c].gen>> \in drain'.roots
                      /\ drain'.pc = "wait" => act'[c].disposal # "none"
                      /\ drain'.pc # "done"
    BY DEF RootedAt
  <2>1. History(c)
    <3>1. ASSUME NEW k \in Callers, CreationSucceeds(k), call[k].child = c  PROVE FALSE
      <4>1. LockedCall(k)  BY DEF ResidenceInv, Locked
      <4> QED  BY <2>0, <3>1, <4>1, CreationEffect
    <3> QED  BY <1>2, <3>1, Histories
  <2>2. act[c].here /\ act'[c].gen = act[c].gen
        /\ (act[c].disposal # "none" => act'[c].disposal # "none")
    BY <2>1 DEF History, Onward
  <2>3. drain.pc # "idle" => act[c].published
    <3>1. ASSUME NEW k \in Callers, Joins(k), call[k].pc = "own"  PROVE drain.pc = "idle"
      BY <3>1 DEF Joins, Admitting, Rooted
    <3> QED  BY <2>1, <3>1 DEF History
  <2>4. CASE DrainBegins
    <3>1. \A e \in Children : c \notin act[e].owned
      BY TreeAssumption DEF ResidenceInv, Books, BooksAt
    <3>2. drain' = [pc |-> "dispose",
                    roots |-> {<<d, act[d].gen>> :
                              d \in {f \in Children : act[f].here /\ \A e \in Children :
                                                        act[e].here => f \notin act[e].owned}}]
      BY <2>4 DEF DrainBegins
    <3>3. drain'.pc = "dispose" /\ <<c, act[c].gen>> \in drain'.roots
      BY <2>2, <3>1, <3>2
    <3> QED  BY <2>2, <3>3
  <2>5. CASE DrainDisposes
    <3>1. drain.pc = "dispose" /\ drain' = [drain EXCEPT !.pc = "wait"]
          /\ act' = Opened(act, {d \in Children : <<d, act[d].gen>> \in drain.roots})
      BY <2>5 DEF DrainDisposes
    <3>2. drain'.pc = "wait" /\ drain'.roots = drain.roots
      BY <2>0, <3>1 DEF Shape, DrainRec
    <3>3. <<c, act[c].gen>> \in drain.roots  BY <2>2, <2>3, <3>1 DEF Rooted, RootedAt
    <3>4. KeptOpen(c, {d \in Children : <<d, act[d].gen>> \in drain.roots})
      BY <2>0, <3>1, OpenEffect
    <3>5. act'[c].disposal # "none"  BY <2>2, <3>3, <3>4 DEF KeptOpen
    <3> QED  BY <2>2, <3>2, <3>3, <3>5
  <2>6. CASE DrainEnds
    <3>1. drain.pc = "wait" /\ \A t \in drain.roots : ~TxnOpen(t)  BY <2>6 DEF DrainEnds
    <3>2. <<c, act[c].gen>> \in drain.roots /\ act[c].disposal # "none"
      BY <2>2, <2>3, <3>1 DEF Rooted, RootedAt
    <3>3. TxnOpen(<<c, act[c].gen>>)  BY <2>2, <3>2 DEF TxnOpen, Closing
    <3> QED  BY <3>1, <3>2, <3>3
  <2>7. CASE ~DrainBegins /\ ~DrainStep
    <3>1. drain' = drain
      BY <1>2, <2>7, ZenonT(60) DEF Next, AgentStep, DisposalStep, LateStep, DeliveryStep, AgentClaims,
         AgentRests, AgentReplays, Interrupt, WatcherSettles, DisposalStops, DisposalQuiesces,
         HandleDisposed, ActivationDeleted, LateNotifies, LateSends, LateDisowns,
         DrainChildren, DrainDescendants, DeliveryBegins, ReportCounts,
         DeliveryLooks, DeliveryRetries, DeliveryBuilds, CreationFails, CreationSucceeds,
         DeliveryOwns, CreationAborted, DeliveryRolledBack, DeliveryAdmits, DeliveryUnsuited,
         DeliveryAccepts, DeliverySends, DeliveryAnnounces, ReportSends
    <3>2. CASE drain.pc = "idle"  BY <3>1, <3>2
    <3>3. CASE drain.pc # "idle"
      <4>1. RootedAt(c) /\ act[c].published  BY <2>3, <3>3 DEF Rooted
      <4> QED  BY <2>2, <3>1, <4>1 DEF RootedAt
    <3> QED  BY <3>2, <3>3
  <2> QED  BY <2>4, <2>5, <2>6, <2>7 DEF DrainStep
<1> QED  BY <1>1, <1>2

\* Where the tree holds, nothing that is published survives a Drain that returned.
LEMMA DrainedTree ==
    ASSUME ResidenceInv, TreeInv, Rooted, drain.pc = "done", NEW c \in Children,
           act[c].here, act[c].published
    PROVE  FALSE
<1> DEFINE X == {d \in Children : act[d].here /\ act[d].published}
<1>1. X \in SUBSET Children /\ X # {}  OBVIOUS
<1>2. PICK d \in X : Parent[d] \notin X  BY <1>1, TreeAssumption
<1>3. CASE Parent[d] = Root  BY <1>2, <1>3 DEF Rooted, RootedAt
<1>4. CASE Parent[d] # Root
  <2>1. act[Parent[d]].here /\ d \in act[Parent[d]].owned  BY <1>2, <1>4 DEF TreeInv, AttachedAt
  <2>2. Parent[d] \in Children  BY <1>2, <1>4, ParentType
  <2>3. act[Parent[d]].published  BY <2>1, <2>2 DEF TreeInv, FreshChild, Untouched
  <2> QED  BY <1>2, <2>1, <2>2, <2>3
<1> QED  BY <1>3, <1>4

\* Drain "disposes the stable live Activation forest child-first": once it has returned,
\* whatever is resident is being released, or is an unpublished epoch about to be.
THEOREM DrainLeavesNothing == Spec => []DrainedForest
<1> DEFINE Inv == ResidenceInv /\ (Undisturbed => TreeInv) /\ Rooted
<1>1. Init => Inv
  <2> SUFFICES ASSUME Init  PROVE Inv
    OBVIOUS
  <2>1. drain.pc = "idle"  BY DEF Init
  <2>2. Rooted  BY <2>1 DEF Rooted, RootedAt
  <2> QED  BY <2>2, ResidenceInit, TreeInit
<1>2. Inv /\ [Next]_vars => Inv'
  <2> SUFFICES ASSUME ResidenceInv, Undisturbed => TreeInv, Rooted, [Next]_vars
               PROVE  ResidenceInv' /\ (Undisturbed' => TreeInv') /\ Rooted'
    OBVIOUS
  <2>1. ResidenceInv'  BY ResidenceStep
  <2>2. Undisturbed' => TreeInv'  BY <2>1, TreeStep
  <2>3. Rooted'  BY RootedStep
  <2> QED  BY <2>1, <2>2, <2>3
<1>3. Inv => DrainedForest
  <2> SUFFICES ASSUME ResidenceInv, TreeInv, Rooted, drain.pc = "done", NEW c \in Children,
                      act[c].here, ~Closing(c)
               PROVE  lock[c] # NoCaller /\ call[lock[c]].pc = "own"
    BY DEF DrainedForest
  <2>1. ~act[c].published  BY DrainedTree
  <2>2. act[c].disposal = "none"  BY DEF Closing
  <2> QED  BY <2>1, <2>2 DEF ResidenceInv, Creating
<1> HIDE DEF Inv
<1> QED  BY <1>1, <1>2, <1>3, PTL DEF Spec

-----------------------------------------------------------------------------
(* Accepted messages.                                                      *)

\* The notices and reports counted for the present epoch of c and not sent yet.
Notices(c) == {d \in Children : late[d].pc = "send" /\ Parent[d] = c
                                /\ late[d].to = act[c].gen}
Reports(c) == {k \in Callers : call[k].pc = "report" /\ Parent[call[k].child] = c
                               /\ call[k].gen = act[c].gen}

\* Every message in the inbox of a registered agent, and every one on its way there,
\* was accepted and has not been cleared.
CountedAt(c) ==
    agent[c].live =>
        agent[c].pending + Cardinality(Notices(c)) + Cardinality(Reports(c)) <= act[c].accepted

\* A child that settled has an empty inbox, so nothing is dropped.
Counted ==
    /\ \A c \in Children : CountedAt(c)
    /\ \A c \in Children : act[c].settled => agent[c].pending = 0
    /\ dropped = {}

\* The messages on their way are finitely many.
LEMMA OnTheWay ==
    ASSUME NEW c \in Children
    PROVE  /\ IsFiniteSet(Notices(c)) /\ Cardinality(Notices(c)) \in Nat
           /\ IsFiniteSet(Reports(c)) /\ Cardinality(Reports(c)) \in Nat
<1>1. Notices(c) \subseteq Children /\ Reports(c) \subseteq Callers  BY DEF Notices, Reports
<1> QED  BY <1>1, TreeAssumption, FS_Subset, FS_CardinalityType

\* What leaves the accepted ids alone.
LEMMA AcceptedFrame ==
    ASSUME Shape, NEW c \in Children, NEW d \in Children,
           \/ act' = act
           \/ \E S : act' = Opened(act, S)
           \/ act' = [Opened(act, {c}) EXCEPT ![c].settled = TRUE]
           \/ \E x : act' = [act EXCEPT ![c].disposal = x]
           \/ act' = [act EXCEPT ![c].announced = TRUE]
           \/ act' = Owned(c)
           \/ \E b : act' = [Owned(c) EXCEPT ![c].published = b]
    PROVE  act'[d].accepted = act[d].accepted
<1>0. act[d] \in ActRec /\ act \in [Children -> ActRec]  BY DEF Shape
<1>a. \A S : Opened(act, S)[d].accepted = act[d].accepted /\ Opened(act, S) \in [Children -> ActRec]
  <2> SUFFICES ASSUME NEW S
               PROVE  /\ Opened(act, S)[d].accepted = act[d].accepted
                      /\ Opened(act, S) \in [Children -> ActRec]
    OBVIOUS
  <2>1. Opened(act, S)[d] = act[d] \/ Opened(act, S)[d] = [act[d] EXCEPT !.disposal = "stop"]
    BY DEF Opened
  <2>2. [act[d] EXCEPT !.disposal = "stop"].accepted = act[d].accepted  BY <1>0 DEF ActRec
  <2> QED  BY <1>0, <2>1, <2>2, OpenedShape
<1>b. Owned(c)[d].accepted = act[d].accepted /\ Owned(c) \in [Children -> ActRec]
  <2>1. Owned(c)[d] = act[d] \/ Owned(c)[d] = [act[d] EXCEPT !.owned = @ \cup {c}]
    BY <1>0 DEF Owned
  <2>2. [act[d] EXCEPT !.owned = @ \cup {c}].accepted = act[d].accepted  BY <1>0 DEF ActRec
  <2> QED  BY <1>0, <2>1, <2>2, OwnedShape
<1>1. CASE act' = act  BY <1>1
<1>2. CASE \E S : act' = Opened(act, S)  BY <1>2, <1>a
<1>3. CASE act' = [Opened(act, {c}) EXCEPT ![c].settled = TRUE]
  <2> DEFINE a == Opened(act, {c})
  <2>1. a \in [Children -> ActRec] /\ a[d].accepted = act[d].accepted  BY <1>a
  <2>2. act' = [a EXCEPT ![c].settled = TRUE]  BY <1>3
  <2> HIDE DEF a
  <2> QED  BY <2>1, <2>2 DEF ActRec
<1>4. CASE \E x : act' = [act EXCEPT ![c].disposal = x]  BY <1>0, <1>4 DEF ActRec
<1>5. CASE act' = [act EXCEPT ![c].announced = TRUE]  BY <1>0, <1>5 DEF ActRec
<1>6. CASE act' = Owned(c)  BY <1>6, <1>b
<1>7. CASE \E b : act' = [Owned(c) EXCEPT ![c].published = b]
  <2> DEFINE a == Owned(c)
  <2>1. a \in [Children -> ActRec] /\ a[d].accepted = act[d].accepted  BY <1>b
  <2>2. PICK b : act' = [a EXCEPT ![c].published = b]  BY <1>7
  <2> HIDE DEF a
  <2> QED  BY <2>1, <2>2 DEF ActRec
<1> QED  BY <1>1, <1>2, <1>3, <1>4, <1>5, <1>6, <1>7

\* A notice is on its way from LateNotifies to LateSends.
LEMMA NoticeKept ==
    ASSUME ResidenceInv, Next, NEW e \in Children
    PROVE  /\ late'[e].pc = "send" =>
                 LateNotifies(e) \/ (late[e].pc = "send" /\ late'[e].to = late[e].to)
           /\ late[e].pc = "send" =>
                 LateSends(e) \/ (late'[e].pc = "send" /\ late'[e].to = late[e].to)
<1>0. Shape  BY DEF ResidenceInv
<1>1. late'[e].pc = "send" =>
         LateNotifies(e) \/ (late[e].pc = "send" /\ late'[e].to = late[e].to)
  BY NoticeSteps
<1>2. ASSUME late[e].pc = "send", ~LateSends(e)
      PROVE  late'[e].pc = "send" /\ late'[e].to = late[e].to
  <2>1. ASSUME NEW f \in Children, OtherStep(f)  PROVE late'[e] = late[e]
    <3>1. CASE f # e  BY <1>0, <2>1, <3>1, LateOther
    <3>2. CASE f = e
      <4>1. ~ActivationDeleted(e) /\ ~LateNotifies(e) /\ ~LateDisowns(e)
        BY <1>2 DEF ActivationDeleted, LateNotifies, LateDisowns
      <4>2. late' = late
        BY <1>2, <2>1, <3>2, <4>1 DEF OtherStep, AgentStep, DisposalStep, LateStep,
           DrainStep, AgentClaims, AgentRests, AgentReplays, Interrupt, WatcherSettles,
           DisposalStops, DisposalQuiesces, HandleDisposed, DrainChildren, DrainBegins,
           DrainDisposes, DrainEnds, DrainDescendants, DeliveryBegins, ReportCounts
      <4> QED  BY <4>2
    <3> QED  BY <3>1, <3>2
  <2>2. ASSUME NEW k \in Callers, DeliveryStep(k)
        PROVE  late'[e].pc = "send" /\ late'[e].to = late[e].to
    BY <1>0, <1>2, <2>2, LateDelivery
  <2> QED  BY <1>2, <2>1, <2>2, StepKinds
<1> QED  BY <1>1, <1>2

\* A report is on its way from ReportCounts to ReportSends.
LEMMA ReportKept ==
    ASSUME ResidenceInv, Next, NEW k \in Callers, NEW d \in Children
    PROVE  /\ call'[k].pc = "report" =>
                 call'[k] = call[k] \/ \E c \in Children : ReportCounts(k, c)
           /\ call[k].pc = "report" => call'[k] = call[k] \/ ReportSends(k)
<1>0. Shape /\ LockedCall(k)  BY DEF ResidenceInv, Locked
<1>1. ASSUME NEW c \in Children, OtherStep(c)
      PROVE  /\ call'[k].pc = "report" => call'[k] = call[k] \/ ReportCounts(k, c)
             /\ call[k].pc = "report" => call'[k] = call[k]
  BY <1>0, <1>1, OtherCalls
<1>2. ASSUME NEW j \in Callers, DeliveryStep(j)
      PROVE  /\ call'[k].pc = "report" => call'[k] = call[k]
             /\ call[k].pc = "report" => call'[k] = call[k] \/ ReportSends(k)
  <2>1. Moves(j) /\ Shape  BY <1>0, <1>2, DeliveryMoves DEF ResidenceInv, Locked
  <2>2. CASE j # k  BY <2>1, <2>2 DEF Moves
  <2>3. CASE j = k
    <3>1. call'[k].pc # "report"
      <4>1. CASE CreationSucceeds(k)  BY <1>0, <4>1, CreationEffect
      <4>2. CASE ~CreationSucceeds(k)  BY <2>1, <2>3, <4>2 DEF Moves, Passes
      <4> QED  BY <4>1, <4>2
    <3>2. call[k].pc = "report" => ReportSends(k)
      BY <1>2, <2>3 DEF DeliveryStep, DeliveryLooks, DeliveryRetries, DeliveryBuilds,
         CreationFails, CreationSucceeds, DeliveryOwns, CreationAborted, DeliveryRolledBack,
         DeliveryAdmits, DeliveryUnsuited, DeliveryAccepts, DeliverySends, DeliveryAnnounces
    <3> QED  BY <3>1, <3>2
  <2> QED  BY <2>2, <2>3
<1> QED  BY <1>1, <1>2, StepKinds

\* The messages that reach the inbox of c in a step.
Posted(c) ==
    \/ \E e \in Children : LateSends(e) /\ Parent[e] = c
    \/ \E k \in Callers : ReportSends(k) /\ Parent[call[k].child] = c

\* Without one the inbox only fills by a delivery, and what is accepted beyond the
\* inbox does not shrink.
Steady(c) ==
    /\ \/ agent'[c].pending <= agent[c].pending
       \/ \E k \in Callers : DeliverySends(k) /\ call[k].child = c
    /\ agent'[c].live =>
          /\ agent[c].live
          /\ act[c].accepted - agent[c].pending <= act'[c].accepted - agent'[c].pending

\* A step that touches neither count.
LEMMA SteadyFrame ==
    ASSUME Shape, NEW c \in Children, agent'[c].live => agent[c].live,
           agent'[c].pending = agent[c].pending, act'[c].accepted = act[c].accepted
    PROVE  Steady(c)
<1>1. agent[c].pending \in Nat /\ act[c].accepted \in Int  BY DEF Shape, ActRec, AgentRec
<1> QED  BY <1>1 DEF Steady

\* A transaction that cancels the agent clears as many ids as it discards messages.
LEMMA SteadyCancel ==
    ASSUME Shape, NEW e \in Children, NEW c \in Children,
           DisposalStops(e) \/ DisposalQuiesces(e)
    PROVE  Steady(c)
<1>0. /\ agent[c] \in AgentRec /\ agent \in [Children -> AgentRec]
      /\ act \in [Children -> ActRec] /\ act[c] \in ActRec
      /\ agent[c].pending \in Nat /\ act[c].accepted \in Int
  BY DEF Shape, ActRec, AgentRec
<1>1. agent' = [agent EXCEPT ![e] = Cancelled(@)]  BY DEF DisposalStops, DisposalQuiesces
<1>2. CASE e # c
  <2>1. agent'[c] = agent[c]  BY <1>0, <1>1, <1>2
  <2>2. act'[c].accepted = act[c].accepted
    <3>1. CASE DisposalQuiesces(e)
      <4>1. act'[c] = act[c]  BY <1>0, <1>2, <3>1 DEF DisposalQuiesces
      <4> QED  BY <4>1
    <3>2. CASE DisposalStops(e)
      <4> DEFINE kids == {d \in act[e].owned : act[d].here}
                 a == Opened(act, kids)
      <4>1. a \in [Children -> ActRec]  BY <1>0, OpenedShape
      <4>2. PICK r : act' = [a EXCEPT ![e] = r]  BY <3>2 DEF DisposalStops
      <4>3. a[c].accepted = act[c].accepted
        <5>1. a[c] = act[c] \/ a[c] = [act[c] EXCEPT !.disposal = "stop"]  BY DEF Opened
        <5>2. [act[c] EXCEPT !.disposal = "stop"].accepted = act[c].accepted
          BY <1>0 DEF ActRec
        <5> HIDE DEF a
        <5> QED  BY <5>1, <5>2
      <4> HIDE DEF a
      <4> QED  BY <1>2, <4>1, <4>2, <4>3
    <3> QED  BY <3>1, <3>2
  <2> QED  BY <2>1, <2>2, SteadyFrame
<1>3. CASE e = c
  <2>1. agent'[c] = Cancelled(agent[c])  BY <1>0, <1>1, <1>3
  <2>2. agent'[c].pending = 0 /\ agent'[c].live = agent[c].live
    BY <1>0, <2>1 DEF Cancelled, AgentRec
  <2>3. \/ act'[c].accepted = act[c].accepted
        \/ act'[c].accepted = act[c].accepted - agent[c].pending
    BY <1>3, StopEffect, QuiesceEffect
  <2> QED  BY <1>0, <2>2, <2>3 DEF Steady
<1> QED  BY <1>2, <1>3

\* A message leaves the inbox of a published agent.
LEMMA SteadyClaim ==
    ASSUME ResidenceInv, TreeInv, NEW e \in Children, NEW c \in Children, AgentClaims(e)
    PROVE  Steady(c)
<1>0. /\ Shape
      /\ agent[c] \in AgentRec /\ agent \in [Children -> AgentRec]
      /\ act \in [Children -> ActRec] /\ act[c] \in ActRec
      /\ agent[c].pending \in Nat /\ act[c].accepted \in Int
  BY DEF ResidenceInv, Shape, ActRec, AgentRec
<1>1. /\ agent' = [agent EXCEPT ![e].pending = @ - 1] /\ act' = [act EXCEPT ![e] = Left(@, 1)]
      /\ agent[e].running /\ agent[e].pending > 0
  BY DEF AgentClaims
<1>2. CASE e # c
  <2>1. agent'[c] = agent[c] /\ act'[c] = act[c]  BY <1>0, <1>1, <1>2
  <2> QED  BY <1>0, <2>1, SteadyFrame
<1>3. CASE e = c
  <2>1. act[c].here  BY <1>1, <1>3 DEF ResidenceInv, Resident, ResidentAt
  <2>2. act[c].published  BY <1>1, <1>3, <2>1 DEF TreeInv, FreshChild, Untouched
  <2>3. act'[c] = Left(act[c], 1)  BY <1>0, <1>1, <1>3
  <2>4. act'[c].accepted = act[c].accepted - 1  BY <1>0, <2>2, <2>3 DEF Left, ActRec
  <2>5. agent'[c].pending = agent[c].pending - 1 /\ agent'[c].live = agent[c].live
    BY <1>0, <1>1, <1>3 DEF AgentRec
  <2> QED  BY <1>0, <2>4, <2>5 DEF Steady
<1> QED  BY <1>2, <1>3

\* The other steps of agents, transactions and teardowns.
LEMMA SteadyOther ==
    ASSUME ResidenceInv, TreeInv, NEW e \in Children, NEW c \in Children, OtherStep(e),
           ~Posted(c)
    PROVE  Steady(c)
<1>0. /\ Shape /\ ResidentAt(c)
      /\ agent[c] \in AgentRec /\ agent \in [Children -> AgentRec]
      /\ act \in [Children -> ActRec] /\ act[c] \in ActRec
      /\ agent[c].pending \in Nat /\ act[c].accepted \in Int
  BY DEF ResidenceInv, Resident, Shape, ActRec, AgentRec
<1>1. CASE AgentClaims(e)  BY <1>1, SteadyClaim
<1>2. CASE AgentRests(e) \/ AgentReplays(e) \/ Interrupt(e)
  <2>1. act' = act  BY <1>2 DEF AgentRests, AgentReplays, Interrupt
  <2>2. agent'[c].pending = agent[c].pending /\ agent'[c].live = agent[c].live
    <3>1. CASE AgentRests(e)  BY <1>0, <3>1 DEF AgentRests, AgentRec
    <3>2. CASE AgentReplays(e)
      <4>1. PICK b : agent' = [agent EXCEPT ![e].latched = FALSE, ![e].running = b]
        BY <3>2 DEF AgentReplays
      <4> QED  BY <1>0, <4>1 DEF AgentRec
    <3>3. CASE Interrupt(e)  BY <1>0, <3>3 DEF Interrupt, AgentRec
    <3> QED  BY <1>2, <3>1, <3>2, <3>3
  <2> QED  BY <1>0, <2>1, <2>2, SteadyFrame
<1>3. CASE WatcherSettles(e) \/ DrainChildren(e) \/ DrainDisposes \/ DrainDescendants
  <2>1. agent' = agent
    BY <1>3 DEF WatcherSettles, DrainChildren, DrainDisposes, DrainDescendants
  <2>2. \/ act' = [Opened(act, {e}) EXCEPT ![e].settled = TRUE]
        \/ \E S : act' = Opened(act, S)
    BY <1>3 DEF WatcherSettles, DrainChildren, DrainDisposes, DrainDescendants
  <2>3. act'[c].accepted = act[c].accepted  BY <1>0, <2>2, AcceptedFrame
  <2> QED  BY <1>0, <2>1, <2>3, SteadyFrame
<1>4. CASE DisposalStops(e) \/ DisposalQuiesces(e)  BY <1>0, <1>4, SteadyCancel
<1>5. CASE HandleDisposed(e)
  <2>1. agent' = [agent EXCEPT ![e] = NoAgent] /\ act' = [act EXCEPT ![e].disposal = "delete"]
    BY <1>5 DEF HandleDisposed
  <2>2. CASE e # c
    <3>1. agent'[c] = agent[c] /\ act'[c] = act[c]  BY <1>0, <2>1, <2>2
    <3> QED  BY <1>0, <3>1, SteadyFrame
  <2>3. CASE e = c
    <3>1. agent'[c] = NoAgent  BY <1>0, <2>1, <2>3
    <3>2. agent'[c].live = FALSE /\ agent'[c].pending = 0  BY <3>1 DEF NoAgent
    <3> QED  BY <1>0, <3>2 DEF Steady
  <2> QED  BY <2>2, <2>3
<1>6. CASE ActivationDeleted(e)
  <2>1. agent' = agent  BY <1>6 DEF ActivationDeleted
  <2>2. CASE e # c
    <3>1. act'[c].accepted = act[c].accepted  BY <1>0, <1>6, <2>2, DeletedEffect
    <3> QED  BY <1>0, <2>1, <3>1, SteadyFrame
  <2>3. CASE e = c
    <3>1. ~agent[c].live  BY <1>0, <1>6, <2>3 DEF ActivationDeleted, ResidentAt
    <3> QED  BY <1>0, <2>1, <3>1 DEF Steady
  <2> QED  BY <2>2, <2>3
<1>7. CASE LateNotifies(e) \/ (\E k \in Callers : ReportCounts(k, e))
  <2>1. agent' = agent  BY <1>7 DEF LateNotifies, ReportCounts
  <2>2. act' = act \/ act' = [act EXCEPT ![Parent[e]].accepted = @ + 1]
    BY <1>7 DEF LateNotifies, ReportCounts
  <2>3. act'[c].accepted = act[c].accepted \/ act'[c].accepted = act[c].accepted + 1
    BY <1>0, <2>2 DEF ActRec
  <2> QED  BY <1>0, <2>1, <2>3 DEF Steady
<1>8. CASE LateSends(e)
  <2>1. act' = act /\ agent' = SentTo(Parent[e], late[e].to)  BY <1>8 DEF LateSends
  <2>2. Parent[e] # c  BY <1>8 DEF Posted
  <2>3. agent'[c] = agent[c]  BY <1>0, <2>1, <2>2, SentEffect
  <2> QED  BY <1>0, <2>1, <2>3, SteadyFrame
<1>9. CASE LateDisowns(e)
  <2>1. agent' = agent  BY <1>9 DEF LateDisowns
  <2>2. act'[c].accepted = act[c].accepted  BY <1>0, <1>9, DisownEffect
  <2> QED  BY <1>0, <2>1, <2>2, SteadyFrame
<1>10. CASE (\E k \in Callers : DeliveryBegins(k, e)) \/ DrainBegins \/ DrainEnds
  <2>1. act' = act /\ agent' = agent  BY <1>10 DEF DeliveryBegins, DrainBegins, DrainEnds
  <2> QED  BY <1>0, <2>1, SteadyFrame
<1> QED
  BY <1>1, <1>2, <1>3, <1>4, <1>5, <1>6, <1>7, <1>8, <1>9, <1>10
  DEF OtherStep, AgentStep, DisposalStep, LateStep, DrainStep

\* The steps of a delivery.
LEMMA SteadyDelivery ==
    ASSUME ResidenceInv, TreeInv, NEW k \in Callers, NEW c \in Children, DeliveryStep(k),
           ~Posted(c), ~(CreationSucceeds(k) /\ call[k].child = c)
    PROVE  Steady(c)
<1> DEFINE d == call[k].child
<1>0. /\ Shape /\ ResidentAt(c) /\ LockedCall(k)
      /\ agent[c] \in AgentRec /\ agent \in [Children -> AgentRec]
      /\ act \in [Children -> ActRec] /\ act[c] \in ActRec
      /\ agent[c].pending \in Nat /\ act[c].accepted \in Int
  BY DEF ResidenceInv, Resident, Locked, Shape, ActRec, AgentRec
<1>a. d \in Children
  <2>1. call[k].pc # "idle"
    BY DEF DeliveryStep, DeliveryLooks, DeliveryRetries, DeliveryBuilds, CreationFails,
       CreationSucceeds, DeliveryOwns, CreationAborted, DeliveryRolledBack, DeliveryAdmits,
       DeliveryUnsuited, DeliveryAccepts, DeliverySends, DeliveryAnnounces, ReportSends
  <2> QED  BY <1>0, <2>1 DEF LockedCall
<1>1. CASE DeliverySends(k)
  <2>1. /\ call[k].pc = "send" /\ agent' = SentTo(d, call[k].gen)
        /\ act' = IF Current(k) THEN [act EXCEPT ![d].accepted = @ + 1] ELSE act
    BY <1>1 DEF DeliverySends
  <2>2. CASE d # c
    <3>1. agent'[c] = agent[c]  BY <1>0, <2>1, <2>2, SentEffect
    <3>2. act'[c] = act[c]  BY <1>0, <2>1, <2>2
    <3> QED  BY <1>0, <3>1, <3>2, SteadyFrame
  <2>3. CASE d = c
    <3>1. CASE agent[c].live
      <4>1. Current(k)
        BY <1>0, <2>1, <2>3, <3>1 DEF Current, ResidentAt, LockedCall, Holding, CallPcs
      <4>2. act'[c].accepted = act[c].accepted + 1  BY <1>0, <2>1, <2>3, <4>1 DEF ActRec
      <4>3. agent'[c] = Woken(agent[c]) \/ agent'[c] = agent[c]
        BY <1>0, <2>1, <2>3, SentEffect
      <4>4. agent'[c].pending \in {agent[c].pending, agent[c].pending + 1}
        BY <1>0, <4>3, WokenShape
      <4> QED  BY <1>0, <1>1, <2>3, <3>1, <4>2, <4>4 DEF Steady
    <3>2. CASE ~agent[c].live
      <4>1. agent'[c] = agent[c]  BY <1>0, <2>1, <2>3, <3>2, SentEffect
      <4> QED  BY <1>0, <3>2, <4>1 DEF Steady
    <3> QED  BY <3>1, <3>2
  <2> QED  BY <2>2, <2>3
<1>2. CASE ReportSends(k)
  <2>1. act' = act /\ agent' = SentTo(Parent[d], call[k].gen)  BY <1>2 DEF ReportSends
  <2>2. Parent[d] # c  BY <1>2 DEF Posted
  <2>3. agent'[c] = agent[c]  BY <1>0, <2>1, <2>2, SentEffect
  <2> QED  BY <1>0, <2>1, <2>3, SteadyFrame
<1>3. CASE CreationSucceeds(k)
  <2>1. PICK r, g : act' = [act EXCEPT ![d] = r] /\ agent' = [agent EXCEPT ![d] = g]
    BY <1>3 DEF CreationSucceeds
  <2>2. d # c  BY <1>3
  <2>3. act'[c] = act[c] /\ agent'[c] = agent[c]  BY <1>0, <2>1, <2>2
  <2> QED  BY <1>0, <2>3, SteadyFrame
<1>4. CASE DeliveryLooks(k) \/ DeliveryRetries(k) \/ DeliveryBuilds(k) \/ CreationFails(k)
           \/ DeliveryRolledBack(k)
  <2>1. act' = act /\ agent' = agent
    BY <1>4 DEF DeliveryLooks, DeliveryRetries, DeliveryBuilds, CreationFails,
       DeliveryRolledBack
  <2> QED  BY <1>0, <2>1, SteadyFrame
<1>5. CASE DeliveryOwns(k) \/ CreationAborted(k) \/ DeliveryAdmits(k) \/ DeliveryUnsuited(k)
           \/ DeliveryAccepts(k) \/ DeliveryAnnounces(k)
  <2>1. agent' = agent
    BY <1>5 DEF DeliveryOwns, CreationAborted, DeliveryAdmits, DeliveryUnsuited,
       DeliveryAccepts, DeliveryAnnounces
  <2>2. \/ act' = act
        \/ \E S : act' = Opened(act, S)
        \/ \E x : act' = [act EXCEPT ![d].disposal = x]
        \/ act' = [act EXCEPT ![d].announced = TRUE]
        \/ act' = Owned(d)
        \/ \E b : act' = [Owned(d) EXCEPT ![d].published = b]
    BY <1>5 DEF DeliveryOwns, CreationAborted, DeliveryAdmits, DeliveryUnsuited,
       DeliveryAccepts, DeliveryAnnounces, Refused, Unpublished
  <2>3. act'[c].accepted = act[c].accepted  BY <1>0, <1>a, <2>2, AcceptedFrame
  <2> QED  BY <1>0, <2>1, <2>3, SteadyFrame
<1> QED  BY <1>1, <1>2, <1>3, <1>4, <1>5 DEF DeliveryStep

\* A finite set grows by one ...
LEMMA OneMore ==
    ASSUME NEW S, NEW T, NEW x, IsFiniteSet(S), T \subseteq S \cup {x}
    PROVE  Cardinality(T) <= Cardinality(S) + 1
<1>1. IsFiniteSet(S \cup {x}) /\ Cardinality(S) \in Nat /\ Cardinality(S \cup {x}) \in Nat
  BY FS_AddElement, FS_CardinalityType
<1>2. Cardinality(S \cup {x}) <= Cardinality(S) + 1  BY <1>1, FS_AddElement
<1>3. Cardinality(T) \in Nat /\ Cardinality(T) <= Cardinality(S \cup {x})
  BY <1>1, FS_Subset, FS_CardinalityType
<1> QED  BY <1>1, <1>2, <1>3

\* ... and shrinks by one.
LEMMA OneLess ==
    ASSUME NEW S, NEW T, NEW x \in S, IsFiniteSet(S), T \subseteq S \ {x}
    PROVE  Cardinality(T) + 1 <= Cardinality(S)
<1>1. /\ IsFiniteSet(S \ {x}) /\ Cardinality(S) \in Nat
      /\ Cardinality(S \ {x}) \in Nat /\ Cardinality(S \ {x}) = Cardinality(S) - 1
  BY FS_RemoveElement, FS_CardinalityType
<1>2. Cardinality(T) \in Nat /\ Cardinality(T) <= Cardinality(S \ {x})
  BY <1>1, FS_Subset, FS_CardinalityType
<1> QED  BY <1>1, <1>2

\* What is on its way to an epoch that stays.
LEMMA WayStep ==
    ASSUME ResidenceInv, Next, NEW c \in Children, act'[c].gen = act[c].gen
    PROVE  /\ \A e \in Notices(c)' : e \in Notices(c) \/ (LateNotifies(e) /\ Parent[e] = c)
           /\ \A k \in Reports(c)' : \/ k \in Reports(c)
                                     \/ \E e \in Children : ReportCounts(k, e) /\ Parent[e] = c
<1>1. ASSUME NEW e \in Notices(c)'
      PROVE  e \in Notices(c) \/ (LateNotifies(e) /\ Parent[e] = c)
  <2>1. e \in Children /\ late'[e].pc = "send" /\ Parent[e] = c /\ late'[e].to = act[c].gen
    BY DEF Notices
  <2> QED  BY <2>1, NoticeKept DEF Notices
<1>2. ASSUME NEW k \in Reports(c)'
      PROVE  k \in Reports(c) \/ \E e \in Children : ReportCounts(k, e) /\ Parent[e] = c
  <2>1. /\ k \in Callers /\ call'[k].pc = "report" /\ Parent[call'[k].child] = c
        /\ call'[k].gen = act[c].gen
    BY DEF Reports
  <2>2. CASE call'[k] = call[k]  BY <2>1, <2>2 DEF Reports
  <2>3. ASSUME NEW e \in Children, ReportCounts(k, e)  PROVE Parent[e] = c
    <3>1. call'[k].child = e
      BY <2>1, <2>3 DEF ReportCounts, NoCall, ResidenceInv, Shape
    <3> QED  BY <2>1, <3>1
  <2> QED  BY <2>1, <2>2, <2>3, ReportKept
<1> QED  BY <1>1, <1>2

\* An epoch is created with nothing on its way to it.
LEMMA CountedCreation ==
    ASSUME ResidenceInv, TreeInv, Next, NEW k \in Callers, CreationSucceeds(k),
           NEW c \in Children, call[k].child = c
    PROVE  CountedAt(c)' /\ ~act'[c].settled
<1>0. Shape /\ LockedCall(k) /\ act[c].gen \in Nat
  BY DEF ResidenceInv, Locked, Shape, ActRec
<1>1. /\ ~act[c].here /\ act'[c].gen = act[c].gen + 1 /\ act'[c].accepted = 0
      /\ agent'[c].pending = 0 /\ act'[c].settled = FALSE
      /\ \A j \in Callers \ {k} : call'[j] = call[j]
      /\ call'[k].pc = "own"
  BY <1>0, CreationEffect
<1>2. Notices(c)' = {}
  <2> SUFFICES ASSUME NEW e \in Children, Parent[e] = c, late'[e].to = act'[c].gen
               PROVE  FALSE
    BY DEF Notices
  <2>1. late' = late  BY DEF CreationSucceeds
  <2>2. late[e].to <= act[c].gen /\ late[e].to \in Nat
    BY TreeAssumption DEF ResidenceInv, Dated, Shape, LateRec
  <2> QED  BY <1>0, <1>1, <2>1, <2>2
<1>3. Reports(c)' = {}
  <2> SUFFICES ASSUME NEW j \in Callers, call'[j].pc = "report", Parent[call'[j].child] = c
               PROVE  FALSE
    BY DEF Reports
  <2>1. call'[j] = call[j]  BY <1>1
  <2>2. call[j].child \in Children  BY <2>1 DEF ResidenceInv, Locked, LockedCall
  <2>3. agent[call[j].child].running
    <3>1. Issuer(j) = call[j].child  BY <2>1 DEF Issuer
    <3> QED  BY <2>1, <2>2, <3>1, TreeAssumption DEF ResidenceInv, InTurn
  <2>4. act[c].here  BY <2>1, <2>2, <2>3, RunningIsOwned, TreeAssumption
  <2> QED  BY <1>1, <2>4
<1> QED  BY <1>1, <1>2, <1>3, FS_EmptySet DEF CountedAt

\* A notice or report is counted before it is on its way, and leaves it for the inbox.
LEMMA CountedStep ==
    ASSUME ResidenceInv, ResidenceInv', TreeInv, Next, NEW c \in Children, CountedAt(c)
    PROVE  CountedAt(c)'
<1>0. /\ Shape /\ Resident
      /\ agent[c] \in AgentRec /\ agent \in [Children -> AgentRec]
      /\ act \in [Children -> ActRec] /\ act[c] \in ActRec
      /\ agent[c].pending \in Nat /\ act[c].accepted \in Int
      /\ agent'[c].pending \in Nat /\ act'[c].accepted \in Int
      /\ late \in [Children -> LateRec] /\ call \in [Callers -> CallRec]
  BY DEF ResidenceInv, Shape, ActRec, AgentRec
<1>a. CASE \E k \in Callers : CreationSucceeds(k) /\ call[k].child = c  BY <1>a, CountedCreation
<1>b. CASE ~\E k \in Callers : CreationSucceeds(k) /\ call[k].child = c
  <2> SUFFICES ASSUME agent'[c].live
               PROVE  agent'[c].pending + Cardinality(Notices(c)') + Cardinality(Reports(c)')
                         <= act'[c].accepted
    BY DEF CountedAt
  <2>1. act'[c].gen = act[c].gen  BY <1>b, Histories DEF History, Onward
  <2> DEFINE N == Notices(c)
             R == Reports(c)
             M == Notices(c)'
             Q == Reports(c)'
  <2>2. /\ IsFiniteSet(N) /\ Cardinality(N) \in Nat /\ IsFiniteSet(R) /\ Cardinality(R) \in Nat
    BY OnTheWay
  <2>3. /\ IsFiniteSet(M) /\ Cardinality(M) \in Nat /\ IsFiniteSet(Q) /\ Cardinality(Q) \in Nat
    <3>1. M \subseteq Children /\ Q \subseteq Callers  BY DEF Notices, Reports
    <3> QED  BY <3>1, TreeAssumption, FS_Subset, FS_CardinalityType
  <2>4. agent[c].live => agent[c].pending + Cardinality(N) + Cardinality(R) <= act[c].accepted
    BY DEF CountedAt
  <2>5. /\ \A e \in M : e \in N \/ (LateNotifies(e) /\ Parent[e] = c)
        /\ \A k \in Q : k \in R \/ \E e \in Children : ReportCounts(k, e) /\ Parent[e] = c
    BY <2>1, WayStep
  <2>a. M \subseteq Children /\ Q \subseteq Callers  BY DEF Notices, Reports
  <2>6. ASSUME NEW e \in Children, LateNotifies(e), Parent[e] = c, late'[e].pc = "send"
        PROVE  agent'[c].pending + Cardinality(M) + Cardinality(Q) <= act'[c].accepted
    <3>1. agent' = agent /\ call' = call /\ act' = [act EXCEPT ![c].accepted = @ + 1]
      BY <1>0, <2>6 DEF LateNotifies, LateRec
    <3>2. act'[c].accepted = act[c].accepted + 1  BY <1>0, <3>1 DEF ActRec
    <3>3. M \subseteq N \cup {e}
      <4>1. ASSUME NEW f \in Children, LateNotifies(f)  PROVE f = e
        BY <1>0, <2>6, <4>1 DEF LateNotifies, LateRec
      <4> QED  BY <2>5, <2>a, <4>1
    <3>4. Q \subseteq R
      <4>1. Q = R  BY <2>1, <3>1 DEF Reports
      <4> QED  BY <4>1
    <3>5. Cardinality(M) <= Cardinality(N) + 1 /\ Cardinality(Q) <= Cardinality(R)
      BY <2>2, <3>3, <3>4, OneMore, FS_Subset
    <3> HIDE DEF M, N, Q, R
    <3> QED  BY <1>0, <2>2, <2>3, <2>4, <3>1, <3>2, <3>5
  <2>7. ASSUME NEW e \in Children, LateSends(e), Parent[e] = c
        PROVE  agent'[c].pending + Cardinality(M) + Cardinality(Q) <= act'[c].accepted
    <3>1. /\ call' = call /\ act' = act /\ agent' = SentTo(c, late[e].to)
          /\ late' = [late EXCEPT ![e].pc = "disown", ![e].to = 0] /\ late[e].pc = "send"
      BY <2>7 DEF LateSends
    <3>2. M \subseteq N \ {e}
      <4>1. late'[e].pc = "disown" /\ \A f \in Children \ {e} : late'[f] = late[f]
        BY <1>0, <3>1 DEF LateRec
      <4> QED  BY <2>1, <4>1 DEF Notices
    <3>3. Q = R  BY <2>1, <3>1 DEF Reports
    <3>4. agent'[c] = IF agent[c].live /\ act[c].gen = late[e].to
                      THEN Woken(agent[c]) ELSE agent[c]
      BY <1>0, <3>1, SentEffect
    <3>5. agent[c].live
      BY <1>0, <3>4, WokenShape
    <3>6. CASE late[e].to = act[c].gen
      <4>1. e \in N  BY <2>7, <3>1, <3>6 DEF Notices
      <4>2. Cardinality(M) + 1 <= Cardinality(N)  BY <2>2, <3>2, <4>1, OneLess
      <4>3. agent'[c].pending = agent[c].pending + 1  BY <1>0, <3>4, <3>5, <3>6, WokenShape
      <4> HIDE DEF M, N, Q, R
      <4> QED  BY <1>0, <2>2, <2>3, <2>4, <3>1, <3>3, <3>5, <4>2, <4>3
    <3>7. CASE late[e].to # act[c].gen
      <4>1. agent'[c] = agent[c]  BY <3>4, <3>7
      <4>2. M \subseteq N  BY <3>2
      <4>3. Cardinality(M) <= Cardinality(N)  BY <2>2, <4>2, FS_Subset
      <4> HIDE DEF M, N, Q, R
      <4> QED  BY <1>0, <2>2, <2>3, <2>4, <3>1, <3>3, <3>5, <4>1, <4>3
    <3> QED  BY <3>6, <3>7
  <2>8. ASSUME NEW k \in Callers, NEW e \in Children, ReportCounts(k, e), Parent[e] = c
        PROVE  agent'[c].pending + Cardinality(M) + Cardinality(Q) <= act'[c].accepted
    <3>1. /\ agent' = agent /\ late' = late /\ act' = [act EXCEPT ![c].accepted = @ + 1]
          /\ agent[c].live /\ call[k].pc = "idle"
          /\ \A j \in Callers \ {k} : call'[j] = call[j]
      BY <1>0, <2>8 DEF ReportCounts
    <3>2. act'[c].accepted = act[c].accepted + 1  BY <1>0, <3>1 DEF ActRec
    <3>3. M = N  BY <2>1, <3>1 DEF Notices
    <3>4. Q \subseteq R \cup {k}  BY <2>1, <3>1 DEF Reports
    <3>5. Cardinality(Q) <= Cardinality(R) + 1  BY <2>2, <3>4, OneMore
    <3> HIDE DEF M, N, Q, R
    <3> QED  BY <1>0, <2>2, <2>3, <2>4, <3>1, <3>2, <3>3, <3>5
  <2>9. ASSUME NEW k \in Callers, ReportSends(k), Parent[call[k].child] = c
        PROVE  agent'[c].pending + Cardinality(M) + Cardinality(Q) <= act'[c].accepted
    <3>1. /\ late' = late /\ act' = act /\ agent' = SentTo(c, call[k].gen)
          /\ call' = [call EXCEPT ![k] = NoCall] /\ call[k].pc = "report"
      BY <2>9 DEF ReportSends
    <3>2. Q \subseteq R \ {k}
      <4>1. call'[k].pc = "idle" /\ \A j \in Callers \ {k} : call'[j] = call[j]
        BY <1>0, <3>1 DEF NoCall
      <4> QED  BY <2>1, <4>1 DEF Reports
    <3>3. M = N  BY <2>1, <3>1 DEF Notices
    <3>4. agent'[c] = IF agent[c].live /\ act[c].gen = call[k].gen
                      THEN Woken(agent[c]) ELSE agent[c]
      BY <1>0, <3>1, SentEffect
    <3>5. agent[c].live
      BY <1>0, <3>4, WokenShape
    <3>6. CASE call[k].gen = act[c].gen
      <4>1. k \in R  BY <2>9, <3>1, <3>6 DEF Reports
      <4>2. Cardinality(Q) + 1 <= Cardinality(R)  BY <2>2, <3>2, <4>1, OneLess
      <4>3. agent'[c].pending = agent[c].pending + 1  BY <1>0, <3>4, <3>5, <3>6, WokenShape
      <4> HIDE DEF M, N, Q, R
      <4> QED  BY <1>0, <2>2, <2>3, <2>4, <3>1, <3>3, <3>5, <4>2, <4>3
    <3>7. CASE call[k].gen # act[c].gen
      <4>1. agent'[c] = agent[c]  BY <3>4, <3>7
      <4>2. Q \subseteq R  BY <3>2
      <4>3. Cardinality(Q) <= Cardinality(R)  BY <2>2, <4>2, FS_Subset
      <4> HIDE DEF M, N, Q, R
      <4> QED  BY <1>0, <2>2, <2>3, <2>4, <3>1, <3>3, <3>5, <4>1, <4>3
    <3> QED  BY <3>6, <3>7
  <2>10. ASSUME ~Posted(c), M \subseteq N, Q \subseteq R
         PROVE  agent'[c].pending + Cardinality(M) + Cardinality(Q) <= act'[c].accepted
    <3>1. Steady(c)
      <4>1. CASE \E e \in Children : OtherStep(e)  BY <2>10, <4>1, SteadyOther
      <4>2. CASE \E k \in Callers : DeliveryStep(k)  BY <1>b, <2>10, <4>2, SteadyDelivery
      <4> QED  BY <4>1, <4>2, StepKinds
    <3>2. /\ agent[c].live
          /\ act[c].accepted - agent[c].pending <= act'[c].accepted - agent'[c].pending
      BY <3>1 DEF Steady
    <3>3. Cardinality(M) <= Cardinality(N) /\ Cardinality(Q) <= Cardinality(R)
      BY <2>2, <2>10, FS_Subset
    <3> HIDE DEF M, N, Q, R
    <3> QED  BY <1>0, <2>2, <2>3, <2>4, <3>2, <3>3
  <2>11. M \subseteq N \/ \E e \in Children : LateNotifies(e) /\ Parent[e] = c /\ late'[e].pc = "send"
    <3>1. \A e \in M : late'[e].pc = "send"  BY DEF Notices
    <3> QED  BY <2>5, <2>a, <3>1
  <2>12. Q \subseteq R \/ \E k \in Callers, e \in Children : ReportCounts(k, e) /\ Parent[e] = c
    BY <2>5, <2>a
  <2> HIDE DEF M, N, Q, R
  <2>13. agent'[c].pending + Cardinality(M) + Cardinality(Q) <= act'[c].accepted
    BY <2>6, <2>7, <2>8, <2>9, <2>10, <2>11, <2>12 DEF Posted
  <2> QED  BY <2>13 DEF M, Q
<1> QED  BY <1>a, <1>b

\* A child that settled has nothing in its inbox, and nothing reaches it any more.
LEMMA SettledStep ==
    ASSUME ResidenceInv, ResidenceInv', TreeInv, Next, Counted, NEW c \in Children,
           act'[c].settled
    PROVE  agent'[c].pending = 0
<1>0. /\ Shape /\ ResidentAt(c) /\ BooksAt(c)
      /\ agent[c].pending \in Nat /\ agent'[c].pending \in Nat /\ act[c].accepted \in Int
  BY DEF ResidenceInv, Resident, Books, Shape, ActRec, AgentRec
<1>a. ~\E k \in Callers : CreationSucceeds(k) /\ call[k].child = c  BY CountedCreation
<1>1. act[c].settled \/ WatcherSettles(c)  BY <1>a, Histories DEF History
<1>2. CASE WatcherSettles(c)
  <2>1. /\ agent' = agent /\ act[c].here /\ act[c].disposal = "none" /\ act[c].accepted = 0
    BY <1>2 DEF WatcherSettles, Closing, Settled
  <2>2. agent[c].live  BY <1>0, <2>1 DEF ResidentAt
  <2>3. agent[c].pending + Cardinality(Notices(c)) + Cardinality(Reports(c)) <= act[c].accepted
    BY <2>2 DEF Counted, CountedAt
  <2>4. Cardinality(Notices(c)) \in Nat /\ Cardinality(Reports(c)) \in Nat  BY OnTheWay
  <2> QED  BY <1>0, <2>1, <2>3, <2>4
<1>3. CASE act[c].settled
  <2>1. agent[c].pending = 0  BY <1>3 DEF Counted
  <2>2. ~Posted(c)
    <3>1. ASSUME NEW e \in Children, LateSends(e), Parent[e] = c  PROVE FALSE
      <4>1. late[e].pc = "send"  BY <3>1 DEF LateSends
      <4> QED  BY <1>3, <3>1, <4>1, TreeAssumption DEF TreeInv, AccountableAt
    <3>2. ASSUME NEW k \in Callers, ReportSends(k), Parent[call[k].child] = c  PROVE FALSE
      <4>1. call[k].pc = "report"  BY <3>2 DEF ReportSends
      <4>2. call[k].child \in Children  BY <4>1 DEF ResidenceInv, Locked, LockedCall
      <4>3. Issuer(k) = call[k].child  BY <4>1 DEF Issuer
      <4>4. agent[call[k].child].running
        BY <4>1, <4>2, <4>3, TreeAssumption DEF ResidenceInv, InTurn
      <4>5. call[k].child \in act[c].owned
        BY <3>2, <4>2, <4>4, RunningIsOwned, TreeAssumption
      <4> QED  BY <1>0, <1>3, <4>5 DEF BooksAt
    <3> QED  BY <3>1, <3>2 DEF Posted
  <2>3. ~\E k \in Callers : DeliverySends(k) /\ call[k].child = c
    BY <1>3 DEF DeliverySends, TreeInv, ClosedCall
  <2>4. Steady(c)
    <3>1. CASE \E e \in Children : OtherStep(e)  BY <2>2, <3>1, SteadyOther
    <3>2. CASE \E k \in Callers : DeliveryStep(k)  BY <1>a, <2>2, <3>2, SteadyDelivery
    <3> QED  BY <3>1, <3>2, StepKinds
  <2>5. agent'[c].pending <= agent[c].pending  BY <2>3, <2>4 DEF Steady
  <2> QED  BY <1>0, <2>1, <2>5
<1> QED  BY <1>1, <1>2, <1>3

\* So nothing is dropped.
LEMMA DroppedStep ==
    ASSUME ResidenceInv, Counted, Next  PROVE dropped' = {}
<1>0. dropped = {}  BY DEF Counted
<1>1. ASSUME NEW c \in Children, DisposalStops(c) \/ DisposalQuiesces(c)  PROVE dropped' = {}
  <2>1. agent[c].pending = 0 \/ ~act[c].settled  BY DEF Counted
  <2>2. ~(act[c].settled /\ agent[c].pending > 0)  BY <2>1
  <2>3. dropped' = dropped  BY <1>1, <2>2 DEF DisposalStops, DisposalQuiesces
  <2> QED  BY <1>0, <2>3
<1>2. CASE \E k \in Callers : DeliveryStep(k)
  <2>1. dropped' = dropped
    BY <1>2 DEF DeliveryStep, DeliveryLooks, DeliveryRetries, DeliveryBuilds, CreationFails,
       CreationSucceeds, DeliveryOwns, CreationAborted, DeliveryRolledBack, DeliveryAdmits,
       DeliveryUnsuited, DeliveryAccepts, DeliverySends, DeliveryAnnounces, ReportSends
  <2> QED  BY <1>0, <2>1
<1>3. ASSUME NEW c \in Children, OtherStep(c), ~DisposalStops(c), ~DisposalQuiesces(c)
      PROVE  dropped' = {}
  <2>1. dropped' = dropped
    BY <1>3 DEF OtherStep, AgentStep, AgentClaims, AgentRests, AgentReplays, Interrupt,
       WatcherSettles, DisposalStep, HandleDisposed, ActivationDeleted, LateStep, LateNotifies,
       LateSends, LateDisowns, DrainChildren, DeliveryBegins, ReportCounts, DrainBegins,
       DrainStep, DrainDisposes, DrainEnds, DrainDescendants
  <2> QED  BY <1>0, <2>1
<1>4. CASE DrainBegins \/ DrainStep \/ DrainDescendants
  <2>1. dropped' = dropped
    BY <1>4 DEF DrainBegins, DrainStep, DrainDisposes, DrainEnds, DrainDescendants
  <2> QED  BY <1>0, <2>1
<1> QED  BY <1>1, <1>2, <1>3, <1>4 DEF Next, OtherStep

\* "settlement must not treat that gap as quiet" (the accepted ids): in
\* every forest a child that settles by itself discards no message accepted for it.
THEOREM SettlingDropsNothing == Spec => []SettlesQuiet
<1> DEFINE Inv == ResidenceInv /\ (Undisturbed => TreeInv)
           Accepted == Undisturbed => Counted
<1>1. Init => Accepted
  <2> SUFFICES ASSUME Init  PROVE Counted
    OBVIOUS
  <2>1. ASSUME NEW c \in Children
        PROVE  ~agent[c].live /\ agent[c].pending = 0
    BY <2>1 DEF Init, NoAgent
  <2> QED  BY <2>1 DEF Counted, CountedAt, Init
<1>2. Inv /\ Inv' /\ Accepted /\ [Next]_vars => Accepted'
  <2> SUFFICES ASSUME Inv, Inv', Accepted, [Next]_vars, Undisturbed'  PROVE Counted'
    OBVIOUS
  <2>1. CASE UNCHANGED vars
    <3>1. Undisturbed  BY <2>1 DEF Undisturbed, vars
    <3>2. Counted  BY <3>1
    <3> QED  BY <2>1, <3>2 DEF Counted, CountedAt, Notices, Reports, vars
  <2>2. CASE Next
    <3>1. Undisturbed  BY <2>2, DisturbedLater DEF ResidenceInv
    <3>2. Counted /\ TreeInv /\ ResidenceInv /\ ResidenceInv'  BY <3>1
    <3>3. ASSUME NEW c \in Children  PROVE CountedAt(c)'
      BY <2>2, <3>2, CountedStep DEF Counted
    <3>4. ASSUME NEW c \in Children, act'[c].settled  PROVE agent'[c].pending = 0
      BY <2>2, <3>2, <3>4, SettledStep
    <3>5. dropped' = {}  BY <2>2, <3>2, DroppedStep
    <3> QED  BY <3>3, <3>4, <3>5 DEF Counted
  <2> QED  BY <2>1, <2>2
<1>3. Accepted => SettlesQuiet  BY DEF Counted, SettlesQuiet
<1> QED  BY <1>1, <1>2, <1>3, TreeHolds, PTL DEF Spec
=============================================================================
