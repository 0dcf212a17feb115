------------------------- MODULE AgentDriver_proofs --------------------------
(***************************************************************************)
(* Machine-checked proofs about AgentDriver, for every set of messages,    *)
(* senders and cancellers and every bound.                                 *)
(***************************************************************************)
EXTENDS AgentDriver, SequenceTheorems, TLAPS

-----------------------------------------------------------------------------
(* Facts about sequences.                                                  *)

\* A sequence over a set ranges over that set.
LEMMA RangeInSet == ASSUME NEW S, NEW s \in Seq(S)  PROVE Range(s) \in SUBSET S
<1>1. DOMAIN s = 1 .. Len(s) /\ \A i \in 1 .. Len(s) : s[i] \in S
  BY LenProperties, ElementOfSeq
<1> QED  BY <1>1 DEF Range

\* Appending a new element keeps a sequence free of repetitions.
LEMMA AppendOnce ==
    ASSUME NEW S, NEW s \in Seq(S), NEW m \in S, IsInjective(s), m \notin Range(s)
    PROVE  IsInjective(Append(s, m)) /\ Range(Append(s, m)) = Range(s) \cup {m}
<1> DEFINE t == Append(s, m)
<1>1. /\ Len(s) \in Nat /\ DOMAIN s = 1 .. Len(s)
      /\ DOMAIN t = 1 .. Len(s) + 1
      /\ t[Len(s) + 1] = m /\ \A i \in 1 .. Len(s) : t[i] = s[i]
  <2>1. /\ t \in Seq(S) /\ Len(t) = Len(s) + 1
        /\ \A i \in 1 .. Len(s) : t[i] = s[i]
        /\ t[Len(s) + 1] = m
    BY AppendProperties
  <2> HIDE DEF t
  <2> QED  BY <2>1, LenProperties
<1> HIDE DEF t
<1>2. \A i \in DOMAIN t : i \in DOMAIN s \/ i = Len(s) + 1  BY <1>1
<1>3. Range(t) = Range(s) \cup {m}
  <2>1. \A i \in DOMAIN t : t[i] \in Range(s) \cup {m}  BY <1>1, <1>2 DEF Range
  <2>2. \A i \in DOMAIN s : i \in DOMAIN t /\ t[i] = s[i]  BY <1>1
  <2>3. Len(s) + 1 \in DOMAIN t /\ t[Len(s) + 1] = m  BY <1>1
  <2> QED  BY <2>1, <2>2, <2>3 DEF Range
<1>4. IsInjective(t)
  <2> SUFFICES ASSUME NEW a \in DOMAIN t, NEW b \in DOMAIN t, t[a] = t[b]  PROVE a = b
    BY DEF IsInjective
  <2>1. CASE a \in DOMAIN s /\ b \in DOMAIN s  BY <1>1, <2>1 DEF IsInjective
  <2>2. CASE a \in DOMAIN s /\ b = Len(s) + 1  BY <1>1, <2>2 DEF Range
  <2>3. CASE a = Len(s) + 1 /\ b \in DOMAIN s  BY <1>1, <2>3 DEF Range
  <2> QED  BY <1>2, <2>1, <2>2, <2>3
<1> QED  BY <1>3, <1>4 DEF t

\* Dropping the head keeps a sequence free of repetitions.
LEMMA TailOnce ==
    ASSUME NEW S, NEW s \in Seq(S), s # <<>>, IsInjective(s)
    PROVE  IsInjective(Tail(s)) /\ Range(Tail(s)) \subseteq Range(s)
<1>1. /\ Len(s) \in Nat /\ DOMAIN s = 1 .. Len(s)
      /\ DOMAIN Tail(s) = 1 .. Len(s) - 1
      /\ \A i \in 1 .. Len(s) - 1 : Tail(s)[i] = s[i + 1]
  BY LenProperties, HeadTailProperties
<1>2. \A i \in DOMAIN Tail(s) : i + 1 \in DOMAIN s  BY <1>1
<1>3. IsInjective(Tail(s))
  <2> SUFFICES ASSUME NEW a \in DOMAIN Tail(s), NEW b \in DOMAIN Tail(s),
                      Tail(s)[a] = Tail(s)[b]
               PROVE  a = b
    BY DEF IsInjective
  <2>1. s[a + 1] = s[b + 1] /\ a \in Int /\ b \in Int  BY <1>1
  <2>2. a + 1 = b + 1  BY <1>2, <2>1 DEF IsInjective
  <2> QED  BY <2>1, <2>2
<1>4. Range(Tail(s)) \subseteq Range(s)  BY <1>1, <1>2 DEF Range
<1> QED  BY <1>3, <1>4

\* What the range of an extended, a nonempty and a one-element sequence is.
LEMMA AppendRange ==
    ASSUME NEW S, NEW s \in Seq(S), NEW m \in S
    PROVE  Range(Append(s, m)) = Range(s) \cup {m}
<1> DEFINE t == Append(s, m)
<1>1. /\ t \in Seq(S) /\ Len(t) = Len(s) + 1 /\ Len(s) \in Nat
      /\ \A i \in 1 .. Len(s) : t[i] = s[i]
      /\ t[Len(s) + 1] = m
  BY AppendProperties, LenProperties
<1> HIDE DEF t
<1>2. DOMAIN t = 1 .. Len(s) + 1 /\ DOMAIN s = 1 .. Len(s)  BY <1>1, LenProperties
<1>3. \A i \in DOMAIN t : t[i] \in Range(s) \cup {m}
  <2>1. \A i \in DOMAIN t : i \in DOMAIN s \/ i = Len(s) + 1  BY <1>1, <1>2
  <2> QED  BY <1>1, <1>2, <2>1 DEF Range
<1>4. \A i \in DOMAIN s : i \in DOMAIN t /\ t[i] = s[i]  BY <1>1, <1>2
<1>5. Len(s) + 1 \in DOMAIN t /\ t[Len(s) + 1] = m  BY <1>1, <1>2
<1>6. Range(t) = Range(s) \cup {m}  BY <1>3, <1>4, <1>5 DEF Range
<1> QED  BY <1>6 DEF t

LEMMA HeadTailRange ==
    ASSUME NEW S, NEW s \in Seq(S), s # <<>>
    PROVE  Range(s) = {Head(s)} \cup Range(Tail(s))
<1>1. /\ Len(s) \in Nat /\ Len(s) > 0 /\ DOMAIN s = 1 .. Len(s)
      /\ DOMAIN Tail(s) = 1 .. Len(s) - 1
      /\ \A i \in 1 .. Len(s) - 1 : Tail(s)[i] = s[i + 1]
      /\ Head(s) = s[1]
  BY LenProperties, HeadTailProperties, EmptySeq
<1>2. \A i \in DOMAIN Tail(s) : i + 1 \in DOMAIN s /\ Tail(s)[i] = s[i + 1]  BY <1>1
<1>3. \A i \in DOMAIN s : i = 1 \/ (i - 1 \in DOMAIN Tail(s) /\ Tail(s)[i - 1] = s[i])
  BY <1>1
<1>4. 1 \in DOMAIN s  BY <1>1
<1> QED  BY <1>1, <1>2, <1>3, <1>4 DEF Range

LEMMA SingleRange == ASSUME NEW m  PROVE Range(<<m>>) = {m}
BY DEF Range

\* The empty sequence repeats nothing.
LEMMA EmptyOnce == IsInjective(<<>>) /\ Range(<<>>) = {}
BY DEF IsInjective, Range

-----------------------------------------------------------------------------
(* Type correctness, one lemma per group of actions.                       *)

\* The pieces of state WakeDriver touches keep their types.
LEMMA WakeType ==
    ASSUME TypeOK, NEW after \in BOOLEAN, WakeDriver(after)
    PROVE  /\ phase' \in [kind : Kinds, ctx : Ctx, wakeRequested : BOOLEAN]
           /\ drv' \in [pc : DrvPcs, target : Targets, first : BOOLEAN, claimed : Seq(Messages)]
           /\ status' \in {"idle", "running"}
<1>1. CASE Busy /\ phase' = [phase EXCEPT !.wakeRequested = @ \/ Latches(after)]
              /\ UNCHANGED <<drv, status>>
  <2>1. Latches(after) \in BOOLEAN  BY DEF Latches
  <2> QED  BY <1>1, <2>1 DEF TypeOK
<1>2. CASE ~Busy /\ phase' = Phase("running") /\ drv' = [NoDriver EXCEPT !.pc = "start"]
              /\ Publish(Phase("running"), Phase("running"))
  <2>1. <<>> \in Seq(Messages)  BY EmptySeq
  <2>2. drv' \in [pc : DrvPcs, target : Targets, first : BOOLEAN, claimed : Seq(Messages)]
    BY <1>2, <2>1 DEF NoDriver, DrvPcs, Targets
  <2> QED  BY <1>2, <2>2 DEF TypeOK, Phase, Kinds, Ctx, Publish, StatusOf
<1> QED  BY <1>1, <1>2 DEF WakeDriver

LEMMA SendType == TypeOK /\ SendStep => TypeOK'
<1> SUFFICES ASSUME TypeOK, NEW s \in Senders PROVE
      /\ \A m \in Messages, target \in Targets, wakeup \in BOOLEAN :
            SendBegins(s, m, target, wakeup) => TypeOK'
      /\ SendSplices(s) \/ SendRefused(s) \/ SendWakes(s) => TypeOK'
  BY DEF SendStep
<1>1. ASSUME NEW m \in Messages, NEW target \in Targets, NEW wakeup \in BOOLEAN,
             SendBegins(s, m, target, wakeup)
      PROVE  TypeOK'
  <2>1. WakingAfterAbort(wakeup) \in BOOLEAN  BY DEF WakingAfterAbort
  <2>2. snd' \in [Senders -> Sends \cup {NoSend}]
    BY <1>1, <2>1 DEF SendBegins, TypeOK, Sends, Targets
  <2>3. resends' \in Nat  BY <1>1 DEF SendBegins, MaySend, TypeOK
  <2> QED  BY <1>1, <2>2, <2>3 DEF SendBegins, TypeOK, inboxVars, outcomeVars
<1>2. ASSUME SendSplices(s)  PROVE TypeOK'
  <2>1. snd[s] \in Sends  BY <1>2 DEF SendSplices, TypeOK, NoSend, Sends
  <2>2. snd' \in [Senders -> Sends \cup {NoSend}]
    BY <1>2, <2>1 DEF SendSplices, TypeOK, Sends
  <2>3. nextTurn' \in Seq(Messages) /\ nextStep' \in Seq(Messages)
    <3>1. snd[s].msg \in Messages /\ snd[s].target \in Targets  BY <2>1 DEF Sends
    <3>2. /\ Append(nextTurn, snd[s].msg) \in Seq(Messages)
          /\ Append(nextStep, snd[s].msg) \in Seq(Messages)
      BY <3>1, AppendProperties DEF TypeOK
    <3>3. \/ nextTurn' = Append(nextTurn, snd[s].msg) /\ nextStep' = nextStep
          \/ nextStep' = Append(nextStep, snd[s].msg) /\ nextTurn' = nextTurn
      BY <1>2 DEF SendSplices
    <3> QED  BY <3>2, <3>3 DEF TypeOK
  <2>4. accepted' \in SUBSET Messages
    BY <1>2, <2>1 DEF SendSplices, TypeOK, Sends
  <2> QED  BY <1>2, <2>2, <2>3, <2>4 DEF SendSplices, TypeOK, boundVars
<1>3. ASSUME SendRefused(s)  PROVE TypeOK'
  BY <1>3 DEF SendRefused, TypeOK, inboxVars, outcomeVars, boundVars
<1>4. ASSUME SendWakes(s)  PROVE TypeOK'
  <2>1. snd[s] \in Sends  BY <1>4 DEF SendWakes, TypeOK, NoSend, Sends
  <2>2. snd[s].after \in BOOLEAN /\ WakeDriver(snd[s].after)
    BY <1>4, <2>1 DEF SendWakes, Sends
  <2>3. /\ phase' \in [kind : Kinds, ctx : Ctx, wakeRequested : BOOLEAN]
        /\ drv' \in [pc : DrvPcs, target : Targets, first : BOOLEAN, claimed : Seq(Messages)]
        /\ status' \in {"idle", "running"}
    BY <2>2, WakeType
  <2>4. snd' \in [Senders -> Sends \cup {NoSend}]  BY <1>4 DEF SendWakes, TypeOK
  <2> QED  BY <1>4, <2>3, <2>4 DEF SendWakes, TypeOK, inboxVars, outcomeVars, boundVars
<1> QED  BY <1>1, <1>2, <1>3, <1>4

LEMMA CancelType == TypeOK /\ CancelStep => TypeOK'
<1> SUFFICES ASSUME TypeOK, NEW c \in Cancelers PROVE
      /\ \A keep \in KeepInbox : CancelBegins(c, keep) => TypeOK'
      /\ CancelLocks(c) \/ CancelAborts(c) => TypeOK'
  BY DEF CancelStep
<1> DEFINE CType == [Cancelers -> [pc : {"idle", "lock", "cancel"}, keep : BOOLEAN]]
<1>1. ASSUME NEW keep \in KeepInbox, CancelBegins(c, keep)  PROVE TypeOK'
  <2>1. cnl' \in CType  BY <1>1, DriverAssumption DEF CancelBegins, TypeOK
  <2>2. nextTurn' \in Seq(Messages) /\ nextStep' \in Seq(Messages)
    <3>1. <<>> \in Seq(Messages)  BY EmptySeq
    <3>2. CASE keep  BY <1>1, <3>2 DEF CancelBegins, TypeOK, inboxVars
    <3>3. CASE ~keep  BY <1>1, <3>1, <3>3 DEF CancelBegins
    <3> QED  BY <3>2, <3>3
  <2>3. InInbox \subseteq Messages
    <3>1. Range(nextTurn) \in SUBSET Messages  BY RangeInSet DEF TypeOK
    <3>2. Range(nextStep) \in SUBSET Messages  BY RangeInSet DEF TypeOK
    <3> QED  BY <3>1, <3>2 DEF InInbox
  <2>4. settled' \in SUBSET Messages
    <3>1. CASE keep  BY <1>1, <3>1 DEF CancelBegins, TypeOK
    <3>2. CASE ~keep  BY <1>1, <2>3, <3>2 DEF CancelBegins, TypeOK
    <3> QED  BY <3>1, <3>2
  <2>5. cancels' \in Nat  BY <1>1 DEF CancelBegins, TypeOK
  <2> QED  BY <1>1, <2>1, <2>2, <2>4, <2>5 DEF CancelBegins, TypeOK
<1>2. ASSUME CancelLocks(c)  PROVE TypeOK'
  <2>1. cnl' \in CType  BY <1>2 DEF CancelLocks, TypeOK, NoCancel
  <2>2. phase' \in [kind : Kinds, ctx : Ctx, wakeRequested : BOOLEAN]
    BY <1>2 DEF CancelLocks, TypeOK
  <2> QED  BY <1>2, <2>1, <2>2 DEF CancelLocks, TypeOK, inboxVars, outcomeVars, boundVars
<1>3. ASSUME CancelAborts(c)  PROVE TypeOK'
  <2>1. cnl' \in CType  BY <1>3 DEF CancelAborts, TypeOK, NoCancel
  <2>2. phase' \in [kind : Kinds, ctx : Ctx, wakeRequested : BOOLEAN]
    BY <1>3 DEF CancelAborts, TypeOK, Ctx
  <2> QED  BY <1>3, <2>1, <2>2 DEF CancelAborts, TypeOK, inboxVars, outcomeVars, boundVars
<1> QED  BY <1>1, <1>2, <1>3

LEMMA MaintenanceType == TypeOK /\ MaintenanceStep => TypeOK'
<1> SUFFICES ASSUME TypeOK, MaintenanceStep  PROVE TypeOK'  OBVIOUS
<1>1. CASE RunMaintenance
  <2>1. phase' \in [kind : Kinds, ctx : Ctx, wakeRequested : BOOLEAN]
    BY <1>1 DEF RunMaintenance, Phase, Kinds, Ctx
  <2>2. tasks' \in Nat  BY <1>1 DEF RunMaintenance, TypeOK
  <2> QED  BY <1>1, <2>1, <2>2
       DEF RunMaintenance, TypeOK, Publish, StatusOf, inboxVars, outcomeVars
<1>2. CASE TaskReturns
  <2>1. phase' \in [kind : Kinds, ctx : Ctx, wakeRequested : BOOLEAN]
    BY <1>2 DEF TaskReturns, TypeOK, Ctx
  <2> QED  BY <1>2, <2>1 DEF TaskReturns, TypeOK, inboxVars, outcomeVars, boundVars
<1>3. CASE MaintenanceEnds
  <2>1. rewakes' \in Nat  BY <1>3 DEF MaintenanceEnds, TypeOK
  <2>2. cnl' \in [Cancelers -> [pc : {"idle", "lock", "cancel"}, keep : BOOLEAN]]
    BY <1>3 DEF MaintenanceEnds, TypeOK, StaleCancels, NoCancel
  <2>3. phase' \in [kind : Kinds, ctx : Ctx, wakeRequested : BOOLEAN]
    BY <1>3 DEF MaintenanceEnds, Idle, Kinds, Ctx
  <2> QED  BY <1>3, <2>1, <2>2, <2>3
       DEF MaintenanceEnds, TypeOK, Publish, StatusOf, inboxVars, outcomeVars, boundVars
<1> QED  BY <1>1, <1>2, <1>3 DEF MaintenanceStep

LEMMA DriverType == TypeOK /\ DriverStep => TypeOK'
<1> SUFFICES ASSUME TypeOK, DriverStep  PROVE TypeOK'  OBVIOUS
<1> DEFINE DType == [pc : DrvPcs, target : Targets, first : BOOLEAN, claimed : Seq(Messages)]
<1> USE DEF OthersUnchanged, inboxVars, outcomeVars, boundVars
<1>0. /\ <<>> \in Seq(Messages)
      /\ \A pc \in DrvPcs : Goto(pc) => drv' \in DType
      /\ Fault => faults' \in Nat
  <2>1. <<>> \in Seq(Messages)  BY EmptySeq
  <2>2. ASSUME NEW pc \in DrvPcs, Goto(pc)  PROVE drv' \in DType  BY <2>2 DEF Goto, TypeOK
  <2>3. Fault => faults' \in Nat  BY DEF Fault, TypeOK
  <2> QED  BY <2>1, <2>2, <2>3
<1>1. CASE DriverRefused
  <2>1. drv' \in DType  BY <1>1, <1>0 DEF DriverRefused, DrvPcs
  <2> QED  BY <1>1, <1>0, <2>1 DEF DriverRefused, TypeOK
<1>2. CASE TurnRefused
  <2>1. drv' \in DType  BY <1>2, <1>0 DEF TurnRefused, DrvPcs
  <2> QED  BY <1>2, <2>1 DEF TurnRefused, TypeOK
<1>3. CASE TurnBegins
  <2>1. drv' \in DType  BY <1>3, <1>0 DEF TurnBegins, NoDriver, DrvPcs, Targets
  <2> QED  BY <1>3, <2>1 DEF TurnBegins, TypeOK
<1>4. CASE Aborts
  <2>1. drv' \in DType  BY <1>4, <1>0 DEF Aborts, DrvPcs
  <2> QED  BY <1>4, <2>1 DEF Aborts, TypeOK
<1>5. CASE Claim
  <2> DEFINE turns == IF ClaimsTurn(drv.target) THEN <<Head(nextTurn)>> ELSE <<>>
  <2>1. turns \in Seq(Messages) /\ (turns # <<>> => Tail(nextTurn) \in Seq(Messages))
    <3>1. CASE ClaimsTurn(drv.target)
      BY <3>1, HeadTailProperties DEF ClaimsTurn, TypeOK
    <3>2. CASE ~ClaimsTurn(drv.target)  BY <3>2, <1>0
    <3> QED  BY <3>1, <3>2
  <2>2. /\ nextStep' = <<>>
        /\ nextTurn' = IF turns = <<>> THEN nextTurn ELSE Tail(nextTurn)
        /\ drv' = [drv EXCEPT !.pc = "claimed", !.claimed = nextStep \o turns]
        /\ pendingWakes' \subseteq pendingWakes
        /\ UNCHANGED <<status, task, rewakes, snd, cnl, cancels, tasks, resends, phase,
                       openTurn, settled, dropped, accepted, faults>>
    BY <1>5 DEF Claim, Batch
  <2> HIDE DEF turns
  <2>3. nextStep \o turns \in Seq(Messages)  BY <2>1, ConcatProperties DEF TypeOK
  <2>4. drv' \in DType  BY <2>2, <2>3 DEF TypeOK, DrvPcs
  <2>5. nextTurn' \in Seq(Messages) /\ nextStep' \in Seq(Messages)
    BY <2>1, <2>2, <1>0 DEF TypeOK
  <2> QED  BY <2>2, <2>4, <2>5 DEF TypeOK
<1>6. ASSUME NEW pc \in DrvPcs, DropClaimed(pc), faults' \in Nat,
             pendingWakes' \in SUBSET Messages
      PROVE  TypeOK'
  <2>1. drv' \in DType  BY <1>6, <1>0 DEF DropClaimed, TypeOK
  <2>2. Range(drv.claimed) \in SUBSET Messages  BY RangeInSet DEF TypeOK
  <2> QED  BY <1>6, <2>1, <2>2 DEF DropClaimed, TypeOK
<1>7. CASE PreStepAborted
  BY <1>6, <1>7 DEF PreStepAborted, DrvPcs, TypeOK
<1>8. CASE PreStepFails
  BY <1>0, <1>6, <1>8 DEF PreStepFails, DrvPcs, TypeOK
<1>9. CASE PreStepRejects
  BY <1>0, <1>6, <1>9 DEF PreStepRejects, DrvPcs, TypeOK
<1>10. CASE NothingClaimed
  BY <1>6, <1>10 DEF NothingClaimed, EmptyDecision, DrvPcs, TypeOK
<1>11. CASE PreStepRewrites
  BY <1>0, <1>6, <1>11 DEF PreStepRewrites, EmptyDecision, DrvPcs, TypeOK
<1>24. CASE ClaimFails
  <2>1. drv' \in DType /\ faults' \in Nat  BY <1>24, <1>0 DEF ClaimFails, DrvPcs
  <2>2. Range(nextStep) \in SUBSET Messages  BY RangeInSet DEF TypeOK
  <2>3. nextStep' \in Seq(Messages) /\ dropped' \in SUBSET Messages
    BY <1>24, <1>0, <2>2 DEF ClaimFails, TypeOK
  <2> QED  BY <1>24, <2>1, <2>3 DEF ClaimFails, TypeOK
<1>12. ASSUME EnterStep, faults' \in Nat  PROVE TypeOK'
  <2>1. drv' \in DType  BY <1>12, <1>0 DEF EnterStep, TypeOK, DrvPcs
  <2>2. Range(drv.claimed) \in SUBSET Messages  BY RangeInSet DEF TypeOK
  <2> QED  BY <1>12, <2>1, <2>2 DEF EnterStep, TypeOK
<1>13. CASE StepBegins  BY <1>12, <1>13 DEF StepBegins, TypeOK
<1>14. CASE ProjectedStep  BY <1>0, <1>12, <1>14 DEF ProjectedStep
<1>15. CASE StepReturns
  <2>1. drv' \in DType  BY <1>15, <1>0 DEF StepReturns, DrvPcs
  <2> QED  BY <1>15, <2>1 DEF StepReturns, TypeOK
<1>16. CASE StepFails
  <2>1. drv' \in DType  BY <1>16, <1>0 DEF StepFails, DrvPcs
  <2>2. faults' \in Nat  BY <1>16, <1>0 DEF StepFails, TypeOK
  <2> QED  BY <1>16, <2>1, <2>2 DEF StepFails, TypeOK
<1>17. CASE Stepped
  <2>1. drv' \in DType  BY <1>17, <1>0 DEF Stepped, DrvPcs
  <2> QED  BY <1>17, <2>1 DEF Stepped, TypeOK
<1>18. CASE Stopping
  <2>1. drv' \in DType  BY <1>18, <1>0 DEF Stopping, DrvPcs
  <2> QED  BY <1>18, <2>1 DEF Stopping, TypeOK
<1>19. CASE Recheck
  <2>1. drv' \in DType  BY <1>19 DEF Recheck, TypeOK, DrvPcs, Targets
  <2> QED  BY <1>19, <2>1 DEF Recheck, TypeOK
<1>20. CASE Break
  <2>1. drv' \in DType  BY <1>20, <1>0 DEF Break, DrvPcs
  <2> QED  BY <1>20, <2>1 DEF Break, TypeOK
<1>21. CASE Continue
  <2>1. drv' \in DType  BY <1>21, <1>0 DEF Continue, DrvPcs
  <2>2. phase' \in [kind : Kinds, ctx : Ctx, wakeRequested : BOOLEAN]
    BY <1>21 DEF Continue, TypeOK
  <2> QED  BY <1>21, <2>1, <2>2 DEF Continue, TypeOK
<1>22. CASE TurnEnd
  <2>1. drv' \in DType  BY <1>22, <1>0 DEF TurnEnd, DrvPcs
  <2> QED  BY <1>22, <2>1 DEF TurnEnd, TypeOK, StillOpen
<1>23. CASE DriverExits
  <2>1. drv' \in DType  BY <1>23, <1>0 DEF DriverExits, NoDriver, DrvPcs, Targets
  <2>2. rewakes' \in Nat  BY <1>23 DEF DriverExits, TypeOK
  <2>3. cnl' \in [Cancelers -> [pc : {"idle", "lock", "cancel"}, keep : BOOLEAN]]
    BY <1>23 DEF DriverExits, TypeOK, StaleCancels, NoCancel
  <2>4. phase' \in [kind : Kinds, ctx : Ctx, wakeRequested : BOOLEAN]
    BY <1>23 DEF DriverExits, Idle, Kinds, Ctx
  <2> QED  BY <1>23, <2>1, <2>2, <2>3, <2>4 DEF DriverExits, TypeOK, Publish, StatusOf
<1> QED
  BY <1>1, <1>2, <1>3, <1>4, <1>5, <1>7, <1>8, <1>9, <1>10, <1>11, <1>13, <1>14,
     <1>15, <1>16, <1>17, <1>18, <1>19, <1>20, <1>21, <1>22, <1>23, <1>24
  DEF DriverStep, PreStep, StepStep

LEMMA RewakeType == TypeOK /\ Rewake => TypeOK'
<1> SUFFICES ASSUME TypeOK, Rewake  PROVE TypeOK'  OBVIOUS
<1>1. rewakes' \in Nat  BY DEF Rewake, TypeOK
<1>2. /\ phase' \in [kind : Kinds, ctx : Ctx, wakeRequested : BOOLEAN]
      /\ drv' \in [pc : DrvPcs, target : Targets, first : BOOLEAN, claimed : Seq(Messages)]
      /\ status' \in {"idle", "running"}
  BY WakeType DEF Rewake
<1> QED  BY <1>1, <1>2 DEF Rewake, TypeOK, inboxVars, outcomeVars, boundVars

LEMMA TypeInit == Init => TypeOK
<1> SUFFICES ASSUME Init  PROVE TypeOK  OBVIOUS
<1>1. drv \in [pc : DrvPcs, target : Targets, first : BOOLEAN, claimed : Seq(Messages)]
  BY EmptySeq DEF Init, NoDriver, DrvPcs, Targets
<1>2. nextTurn \in Seq(Messages) /\ nextStep \in Seq(Messages)  BY EmptySeq DEF Init
<1>3. phase \in [kind : Kinds, ctx : Ctx, wakeRequested : BOOLEAN]
  BY DEF Init, Idle, Kinds, Ctx
<1>4. snd \in [Senders -> Sends \cup {NoSend}]  BY DEF Init
<1>5. cnl \in [Cancelers -> [pc : {"idle", "lock", "cancel"}, keep : BOOLEAN]]
  BY DEF Init, NoCancel
<1> QED  BY <1>1, <1>2, <1>3, <1>4, <1>5 DEF Init, TypeOK

LEMMA TypeStep == TypeOK /\ [Next]_vars => TypeOK'
<1>1. TypeOK /\ UNCHANGED vars => TypeOK'
  BY DEF TypeOK, vars, inboxVars, outcomeVars, boundVars
<1> QED
  BY <1>1, SendType, CancelType, MaintenanceType, DriverType, RewakeType DEF Next

\* Every reachable state of the driver, of its inbox and of the goroutines
\* around it is well typed.
THEOREM DriverTyping == Spec => []TypeOK
BY TypeInit, TypeStep, PTL DEF Spec

-----------------------------------------------------------------------------
(* Exclusion.  OneActivity alone is not inductive in what it says of turns: *)
(* that a fresh driver starts with no turn open needs TurnsClosed, and that *)
(* there is no old driver to overwrite needs OneActivity.                   *)

Exclusion == TypeOK /\ OneActivity /\ TurnsClosed

\* Starting a driver, or latching a wake, keeps exclusion.
LEMMA WakeExclusion ==
    ASSUME Exclusion, NEW after \in BOOLEAN, WakeDriver(after), UNCHANGED <<task, openTurn>>
    PROVE  OneActivity' /\ TurnsClosed'
<1>1. CASE Busy /\ phase' = [phase EXCEPT !.wakeRequested = @ \/ Latches(after)]
              /\ UNCHANGED <<drv, status>>
  <2>1. phase'.kind = phase.kind  BY <1>1 DEF Exclusion, TypeOK
  <2> QED  BY <1>1, <2>1 DEF Exclusion, OneActivity, TurnsClosed
<1>2. CASE ~Busy /\ phase' = Phase("running") /\ drv' = [NoDriver EXCEPT !.pc = "start"]
  <2>1. phase'.kind = "running" /\ drv'.pc = "start"  BY <1>2 DEF Phase, NoDriver
  <2>2. phase.kind = "idle"  BY <1>2 DEF Busy
  <2>3. drv.pc = "none" /\ task = "none"  BY <2>2 DEF Exclusion, OneActivity
  <2>4. ~openTurn  BY <2>3 DEF Exclusion, TurnsClosed
  <2> QED  BY <2>1, <2>3, <2>4 DEF OneActivity, TurnsClosed
<1> QED  BY <1>1, <1>2 DEF WakeDriver

\* A step of the driver inside its phase: its program counter moves and the
\* turn opens or closes accordingly.
LEMMA DriverExclusion ==
    ASSUME Exclusion, DriverStep
    PROVE  OneActivity' /\ TurnsClosed'
<1> USE DEF OthersUnchanged
<1> DEFINE Inside == DrvPcs \ {"none", "start", "turn", "exit", "exitErr"}
<1>0. \A pc \in DrvPcs : Goto(pc) => drv'.pc = pc  BY DEF Goto, Exclusion, TypeOK
<1>1. ASSUME NEW a \in DrvPcs \ {"none"}, drv'.pc = a, drv.pc # "none",
             phase'.kind = phase.kind, task' = task, openTurn' <=> a \in Inside
      PROVE  OneActivity' /\ TurnsClosed'
  BY <1>1 DEF Exclusion, OneActivity, TurnsClosed
<1>2. CASE DriverRefused
  BY <1>0, <1>1, <1>2 DEF DriverRefused, DrvPcs, Exclusion, TurnsClosed
<1>3. CASE TurnRefused
  BY <1>0, <1>1, <1>3 DEF TurnRefused, DrvPcs, Exclusion, TurnsClosed
<1>4. CASE TurnBegins
  <2>1. drv'.pc = "loop"  BY <1>4 DEF TurnBegins, NoDriver
  <2> QED  BY <1>1, <1>4, <2>1 DEF TurnBegins, DrvPcs
<1>5. CASE Aborts
  BY <1>0, <1>1, <1>5 DEF Aborts, DrvPcs, Exclusion, TurnsClosed
<1>6. CASE Claim
  <2>1. drv'.pc = "claimed"  BY <1>6 DEF Claim, Exclusion, TypeOK
  <2> QED  BY <1>1, <1>6, <2>1 DEF Claim, DrvPcs, Exclusion, TurnsClosed
<1>7. ASSUME NEW pc \in {"endErr", "end", "break"}, drv.pc = "claimed", DropClaimed(pc)
      PROVE  OneActivity' /\ TurnsClosed'
  <2>1. drv'.pc = pc  BY <1>7 DEF DropClaimed, Exclusion, TypeOK
  <2> QED  BY <1>1, <1>7, <2>1 DEF DropClaimed, DrvPcs, Exclusion, TurnsClosed
<1>8. CASE PreStepAborted \/ PreStepFails \/ PreStepRejects
  BY <1>7, <1>8 DEF PreStepAborted, PreStepFails, PreStepRejects
<1>19. CASE ClaimFails
  BY <1>0, <1>1, <1>19 DEF ClaimFails, DrvPcs, Exclusion, TurnsClosed
<1>9. CASE NothingClaimed \/ PreStepRewrites
  BY <1>7, <1>9 DEF NothingClaimed, PreStepRewrites, EmptyDecision
<1>10. CASE StepBegins \/ ProjectedStep
  <2>1. drv.pc = "claimed" /\ EnterStep  BY <1>10 DEF StepBegins, ProjectedStep
  <2>2. drv'.pc = "step"  BY <2>1 DEF EnterStep, Exclusion, TypeOK
  <2> QED  BY <1>1, <2>1, <2>2 DEF EnterStep, DrvPcs, Exclusion, TurnsClosed
<1>11. CASE StepReturns \/ StepFails
  BY <1>0, <1>1, <1>11 DEF StepReturns, StepFails, DrvPcs, Exclusion, TurnsClosed
<1>12. CASE Stepped
  BY <1>0, <1>1, <1>12 DEF Stepped, DrvPcs, Exclusion, TurnsClosed
<1>13. CASE Stopping
  BY <1>0, <1>1, <1>13 DEF Stopping, DrvPcs, Exclusion, TurnsClosed
<1>14. CASE Recheck
  <2>1. drv'.pc \in {"break", "loop"}  BY <1>14 DEF Recheck, Exclusion, TypeOK
  <2> QED  BY <1>1, <1>14, <2>1 DEF Recheck, DrvPcs, Exclusion, TurnsClosed
<1>15. CASE Break
  BY <1>0, <1>1, <1>15 DEF Break, DrvPcs, Exclusion, TurnsClosed
<1>16. CASE Continue
  <2>1. phase'.kind = phase.kind  BY <1>16 DEF Continue, Exclusion, TypeOK
  <2> QED  BY <1>0, <1>1, <1>16, <2>1 DEF Continue, DrvPcs, Exclusion, TurnsClosed
<1>17. CASE TurnEnd
  <2>1. drv'.pc \in {"turn", "exit", "exitErr"}  BY <1>0, <1>17 DEF TurnEnd, DrvPcs
  <2> QED  BY <1>1, <1>17, <2>1 DEF TurnEnd, StillOpen, DrvPcs
<1>18. CASE DriverExits
  <2>1. drv'.pc = "none" /\ phase'.kind = "idle"  BY <1>18 DEF DriverExits, NoDriver, Idle
  <2>2. drv.pc \in {"exit", "exitErr"} /\ UNCHANGED <<task, openTurn>>  BY <1>18 DEF DriverExits
  <2>3. task = "none" /\ ~openTurn  BY <2>2 DEF Exclusion, OneActivity, TurnsClosed
  <2> QED  BY <2>1, <2>2, <2>3 DEF OneActivity, TurnsClosed
<1> QED
  BY <1>2, <1>3, <1>4, <1>5, <1>6, <1>8, <1>9, <1>10, <1>11, <1>12, <1>13, <1>14,
     <1>15, <1>16, <1>17, <1>18, <1>19
  DEF DriverStep, PreStep, StepStep

LEMMA ExclusionStep == Exclusion /\ [Next]_vars => Exclusion'
<1> SUFFICES ASSUME Exclusion, [Next]_vars  PROVE OneActivity' /\ TurnsClosed'
  BY TypeStep DEF Exclusion
<1>0. ASSUME phase'.kind = phase.kind, UNCHANGED <<drv, task, openTurn>>
      PROVE  OneActivity' /\ TurnsClosed'
  BY <1>0 DEF Exclusion, OneActivity, TurnsClosed
<1>1. CASE SendStep
  <2> SUFFICES ASSUME NEW s \in Senders PROVE
        /\ \A m \in Messages, target \in Targets, wakeup \in BOOLEAN :
              SendBegins(s, m, target, wakeup) => OneActivity' /\ TurnsClosed'
        /\ SendSplices(s) \/ SendRefused(s) \/ SendWakes(s) => OneActivity' /\ TurnsClosed'
    BY <1>1 DEF SendStep
  <2>1. ASSUME NEW m \in Messages, NEW target \in Targets, NEW wakeup \in BOOLEAN,
               SendBegins(s, m, target, wakeup)
        PROVE  OneActivity' /\ TurnsClosed'
    BY <1>0, <2>1 DEF SendBegins
  <2>2. CASE SendSplices(s) \/ SendRefused(s)  BY <1>0, <2>2 DEF SendSplices, SendRefused
  <2>3. CASE SendWakes(s)
    <3>1. snd[s] \in Sends  BY <2>3 DEF SendWakes, Exclusion, TypeOK, NoSend, Sends
    <3>2. snd[s].after \in BOOLEAN  BY <3>1 DEF Sends
    <3> QED  BY <2>3, <3>2, WakeExclusion DEF SendWakes
  <2> QED  BY <2>1, <2>2, <2>3
<1>2. CASE CancelStep
  <2> SUFFICES ASSUME NEW c \in Cancelers PROVE
        /\ \A keep \in KeepInbox : CancelBegins(c, keep) => OneActivity' /\ TurnsClosed'
        /\ CancelLocks(c) \/ CancelAborts(c) => OneActivity' /\ TurnsClosed'
    BY <1>2 DEF CancelStep
  <2>1. ASSUME NEW keep \in KeepInbox, CancelBegins(c, keep)  PROVE OneActivity' /\ TurnsClosed'
    BY <1>0, <2>1 DEF CancelBegins
  <2>2. CASE CancelLocks(c)
    <3>1. phase'.kind = phase.kind  BY <2>2 DEF CancelLocks, Exclusion, TypeOK
    <3> QED  BY <1>0, <2>2, <3>1 DEF CancelLocks
  <2>3. CASE CancelAborts(c)
    <3>1. phase'.kind = phase.kind  BY <2>3 DEF CancelAborts, Exclusion, TypeOK
    <3> QED  BY <1>0, <2>3, <3>1 DEF CancelAborts
  <2> QED  BY <2>1, <2>2, <2>3
<1>3. CASE RunMaintenance
  <2>1. phase'.kind = "maintenance" /\ task' = "task" /\ UNCHANGED <<drv, openTurn>>
    BY <1>3 DEF RunMaintenance, Phase
  <2>2. drv.pc = "none"  BY <1>3 DEF RunMaintenance, Exclusion, OneActivity
  <2> QED  BY <2>1, <2>2 DEF Exclusion, OneActivity, TurnsClosed
<1>4. CASE TaskReturns
  <2>1. phase'.kind = phase.kind  BY <1>4 DEF TaskReturns, Exclusion, TypeOK
  <2> QED  BY <1>4, <2>1 DEF TaskReturns, Exclusion, OneActivity, TurnsClosed
<1>5. CASE MaintenanceEnds
  <2>1. phase'.kind = "idle" /\ task' = "none" /\ UNCHANGED <<drv, openTurn>>
    BY <1>5 DEF MaintenanceEnds, Idle
  <2>2. drv.pc = "none"  BY <1>5 DEF MaintenanceEnds, Exclusion, OneActivity
  <2> QED  BY <2>1, <2>2 DEF Exclusion, OneActivity, TurnsClosed
<1>6. CASE DriverStep  BY <1>6, DriverExclusion
<1>7. CASE Rewake  BY <1>7, WakeExclusion DEF Rewake
<1>8. CASE UNCHANGED vars  BY <1>0, <1>8 DEF vars
<1> QED
  BY <1>1, <1>2, <1>3, <1>4, <1>5, <1>6, <1>7, <1>8 DEF Next, MaintenanceStep

LEMMA ExclusionInit == Init => Exclusion
<1> SUFFICES ASSUME Init  PROVE OneActivity /\ TurnsClosed  BY TypeInit DEF Exclusion
<1>1. drv.pc = "none" /\ phase.kind = "idle" /\ task = "none" /\ openTurn = FALSE
  BY DEF Init, NoDriver, Idle
<1> QED  BY <1>1 DEF OneActivity, TurnsClosed

\* At most one driver goroutine or maintenance task owns the agent, and d.phase
\* names it: the reservation checks of turn, preStep and step never fail.
THEOREM ExclusiveActivity == Spec => []OneActivity
<1>1. Exclusion => OneActivity  BY DEF Exclusion
<1> QED  BY <1>1, ExclusionInit, ExclusionStep, PTL DEF Spec

\* Every way out of a turn writes its turn/end before the driver retires.
THEOREM TurnsAlwaysClosed == Spec => []TurnsClosed
<1>1. Exclusion => TurnsClosed  BY DEF Exclusion
<1> QED  BY <1>1, ExclusionInit, ExclusionStep, PTL DEF Spec

-----------------------------------------------------------------------------
(* The inbox.                                                              *)

LEMMA OnceStep == TypeOK /\ PendingOnce /\ [Next]_vars => PendingOnce'
<1> SUFFICES ASSUME TypeOK, PendingOnce, [Next]_vars  PROVE PendingOnce'  OBVIOUS
<1>0. ASSUME UNCHANGED inboxVars  PROVE PendingOnce'
  BY <1>0 DEF PendingOnce, inboxVars
<1>1. ASSUME NEW s \in Senders, SendSplices(s)  PROVE PendingOnce'
  <2>1. snd[s] \in Sends  BY <1>1 DEF SendSplices, TypeOK, NoSend, Sends
  <2>2. snd[s].msg \in Messages  BY <2>1 DEF Sends
  <2>3. snd[s].msg \notin Range(nextTurn) /\ snd[s].msg \notin Range(nextStep)
    BY <1>1 DEF SendSplices, Refuses, InInbox
  <2>4. CASE nextTurn' = Append(nextTurn, snd[s].msg) /\ nextStep' = nextStep
    <3>1. IsInjective(nextTurn') /\ Range(nextTurn') = Range(nextTurn) \cup {snd[s].msg}
      BY <2>2, <2>3, <2>4, AppendOnce DEF TypeOK, PendingOnce
    <3> QED  BY <2>3, <2>4, <3>1 DEF PendingOnce
  <2>5. CASE nextStep' = Append(nextStep, snd[s].msg) /\ nextTurn' = nextTurn
    <3>1. IsInjective(nextStep') /\ Range(nextStep') = Range(nextStep) \cup {snd[s].msg}
      BY <2>2, <2>3, <2>5, AppendOnce DEF TypeOK, PendingOnce
    <3> QED  BY <2>3, <2>5, <3>1 DEF PendingOnce
  <2> QED  BY <1>1, <2>4, <2>5 DEF SendSplices
<1>2. ASSUME NEW c \in Cancelers, NEW keep \in KeepInbox, CancelBegins(c, keep)
      PROVE  PendingOnce'
  <2>1. CASE keep  BY <1>0, <1>2, <2>1 DEF CancelBegins
  <2>2. CASE ~keep  BY <1>2, <2>2, EmptyOnce DEF CancelBegins, PendingOnce
  <2> QED  BY <2>1, <2>2
<1>3. CASE Claim
  <2>1. /\ nextStep' = <<>>
        /\ \/ nextTurn' = nextTurn
           \/ ClaimsTurn(drv.target) /\ nextTurn' = Tail(nextTurn)
    <3>1. CASE ClaimsTurn(drv.target)  BY <1>3, <3>1 DEF Claim
    <3>2. CASE ~ClaimsTurn(drv.target)  BY <1>3, <3>2 DEF Claim
    <3> QED  BY <3>1, <3>2
  <2>2. IsInjective(nextTurn')
    <3>1. CASE nextTurn' = nextTurn  BY <3>1 DEF PendingOnce
    <3>2. CASE ClaimsTurn(drv.target) /\ nextTurn' = Tail(nextTurn)
      <4>1. nextTurn \in Seq(Messages) /\ nextTurn # <<>> /\ IsInjective(nextTurn)
        BY <3>2 DEF ClaimsTurn, TypeOK, PendingOnce
      <4>2. IsInjective(Tail(nextTurn))  BY <4>1, TailOnce
      <4> QED  BY <3>2, <4>2
    <3> QED  BY <2>1, <3>1, <3>2
  <2> QED  BY <2>1, <2>2, EmptyOnce DEF PendingOnce
<1>4. CASE SendStep
  <2>1. PICK s \in Senders :
          \/ \E m \in Messages, target \in Targets, wakeup \in BOOLEAN :
                SendBegins(s, m, target, wakeup)
          \/ SendSplices(s) \/ SendRefused(s) \/ SendWakes(s)
    BY <1>4 DEF SendStep
  <2> QED  BY <1>0, <1>1, <2>1 DEF SendBegins, SendRefused, SendWakes
<1>5. CASE CancelStep
  BY <1>0, <1>2, <1>5 DEF CancelStep, CancelLocks, CancelAborts
<1>6. CASE MaintenanceStep
  BY <1>0, <1>6 DEF MaintenanceStep, RunMaintenance, TaskReturns, MaintenanceEnds
<1>7. CASE PreStep \/ StepStep
  <2>1. CASE PreStepAborted \/ PreStepFails \/ PreStepRejects \/ NothingClaimed \/ PreStepRewrites
    BY <1>0, <2>1 DEF PreStepAborted, PreStepFails, PreStepRejects, NothingClaimed,
                      PreStepRewrites, EmptyDecision, DropClaimed
  <2>2. CASE StepStep
    BY <1>0, <2>2 DEF StepStep, StepBegins, ProjectedStep, EnterStep, StepReturns, StepFails
  <2>3. CASE ClaimFails
    <3>1. nextTurn' = nextTurn /\ nextStep' \in {nextStep, <<>>}  BY <2>3 DEF ClaimFails
    <3> QED  BY <3>1, EmptyOnce DEF PendingOnce
  <2> QED  BY <1>3, <1>7, <2>1, <2>2, <2>3 DEF PreStep
<1>8. CASE DriverRefused \/ TurnRefused \/ TurnBegins \/ Aborts \/ Stepped \/ Stopping
           \/ Recheck \/ Break \/ Continue \/ TurnEnd \/ DriverExits
  BY <1>0, <1>8 DEF DriverRefused, TurnRefused, TurnBegins, Aborts, Stepped, Stopping,
                    Recheck, Break, Continue, TurnEnd, DriverExits
<1>9. CASE Rewake  BY <1>0, <1>9 DEF Rewake
<1>10. CASE UNCHANGED vars  BY <1>0, <1>10 DEF vars
<1> QED
  BY <1>4, <1>5, <1>6, <1>7, <1>8, <1>9, <1>10 DEF Next, DriverStep

\* However senders, retries, cancellations and claims interleave, no message is
\* pending twice: what validate enforces on one splice holds of the whole inbox.
THEOREM NeverPendingTwice == Spec => []PendingOnce
<1>1. Init => PendingOnce
  <2> SUFFICES ASSUME Init  PROVE PendingOnce  OBVIOUS
  <2>1. nextTurn = <<>> /\ nextStep = <<>>  BY DEF Init
  <2> QED  BY <2>1, EmptyOnce DEF PendingOnce
<1> QED  BY <1>1, TypeInit, TypeStep, OnceStep, PTL DEF Spec

-----------------------------------------------------------------------------
(* No message vanishes.  Conserved alone is not inductive: a fresh driver    *)
(* may only replace one that holds no claim (HandsEmpty), and that a drop    *)
(* needs a cancellation or a failure rests on where a cancelled context      *)
(* comes from (CancelsCounted).                                              *)

\* The driver holds messages only between claim and step.
HandsEmpty == drv.pc # "claimed" => drv.claimed = <<>>

\* The context of a running driver is cancelled only by a Cancel that has begun.
CancelsCounted ==
    /\ phase.kind = "running" /\ phase.ctx # "live" => cancels > 0
    /\ \A c \in Cancelers : cnl[c].pc # "idle" => cancels > 0

ConservedInv == Exclusion /\ HandsEmpty /\ CancelsCounted /\ Conserved

\* Steps that leave inbox, claim and outcomes alone conserve the messages.
LEMMA ConservedQuiet ==
    ASSUME Conserved, cancels' = 0 /\ faults' = 0 => cancels = 0 /\ faults = 0,
           UNCHANGED <<nextTurn, nextStep, settled, dropped, accepted>>,
           drv'.claimed = drv.claimed
    PROVE  Conserved'
BY DEF Conserved, InInbox

\* Whoever wakes the driver replaces one that holds nothing.
LEMMA WakeConserves ==
    ASSUME ConservedInv, NEW after \in BOOLEAN, WakeDriver(after), cnl' = cnl,
           UNCHANGED <<nextTurn, nextStep, settled, dropped, accepted, cancels, faults>>
    PROVE  HandsEmpty' /\ CancelsCounted' /\ Conserved'
<1>1. CASE Busy /\ phase' = [phase EXCEPT !.wakeRequested = @ \/ Latches(after)]
              /\ UNCHANGED <<drv, status>>
  <2>1. phase'.kind = phase.kind /\ phase'.ctx = phase.ctx
    BY <1>1 DEF ConservedInv, Exclusion, TypeOK
  <2>2. HandsEmpty' /\ CancelsCounted'
    BY <1>1, <2>1 DEF ConservedInv, HandsEmpty, CancelsCounted
  <2>3. Conserved'  BY <1>1, ConservedQuiet DEF ConservedInv
  <2> QED  BY <2>2, <2>3
<1>2. CASE ~Busy /\ phase' = Phase("running") /\ drv' = [NoDriver EXCEPT !.pc = "start"]
  <2>1. phase'.ctx = "live" /\ drv'.claimed = <<>>  BY <1>2 DEF Phase, NoDriver
  <2>2. drv.claimed = <<>>
    BY <1>2 DEF Busy, ConservedInv, Exclusion, OneActivity, HandsEmpty
  <2>3. HandsEmpty' /\ CancelsCounted'
    BY <2>1 DEF ConservedInv, HandsEmpty, CancelsCounted
  <2>4. Conserved'  BY <2>1, <2>2, ConservedQuiet DEF ConservedInv
  <2> QED  BY <2>3, <2>4
<1> QED  BY <1>1, <1>2 DEF WakeDriver

\* A splice that is not refused adds its message to the inbox.
LEMMA SpliceAdds ==
    ASSUME TypeOK, NEW s \in Senders, SendSplices(s)
    PROVE  snd[s].msg \in Messages /\ InInbox' = InInbox \cup {snd[s].msg}
<1>1. snd[s] \in Sends  BY DEF SendSplices, TypeOK, NoSend, Sends
<1>2. snd[s].msg \in Messages  BY <1>1 DEF Sends
<1>3. /\ nextTurn \in Seq(Messages) /\ nextStep \in Seq(Messages)
      /\ \/ nextTurn' = Append(nextTurn, snd[s].msg) /\ nextStep' = nextStep
         \/ nextStep' = Append(nextStep, snd[s].msg) /\ nextTurn' = nextTurn
  BY DEF SendSplices, TypeOK
<1>4. /\ Range(Append(nextTurn, snd[s].msg)) = Range(nextTurn) \cup {snd[s].msg}
      /\ Range(Append(nextStep, snd[s].msg)) = Range(nextStep) \cup {snd[s].msg}
  BY <1>2, <1>3, AppendRange
<1> QED  BY <1>2, <1>3, <1>4 DEF InInbox

\* Send: the inbox gains what is accepted.
LEMMA SendConserves ==
    ASSUME ConservedInv, SendStep
    PROVE  HandsEmpty' /\ CancelsCounted' /\ Conserved'
<1>1. PICK s \in Senders :
        \/ \E m \in Messages, target \in Targets, wakeup \in BOOLEAN :
              SendBegins(s, m, target, wakeup)
        \/ SendSplices(s) \/ SendRefused(s) \/ SendWakes(s)
  BY DEF SendStep
<1>2. CASE SendSplices(s)
  <2>1. snd[s] \in Sends
    BY <1>2 DEF SendSplices, ConservedInv, Exclusion, TypeOK, NoSend, Sends
  <2>2. snd[s].msg \in Messages  BY <2>1 DEF Sends
  <2>3. /\ UNCHANGED <<phase, drv, cnl, settled, dropped, cancels, faults>>
        /\ accepted' = accepted \cup {snd[s].msg}
    BY <1>2 DEF SendSplices, boundVars
  <2>4. InInbox' = InInbox \cup {snd[s].msg}
    BY <1>2, SpliceAdds DEF ConservedInv, Exclusion
  <2> QED  BY <2>3, <2>4 DEF ConservedInv, HandsEmpty, CancelsCounted, Conserved
<1>3. CASE SendWakes(s)
  <2>1. snd[s] \in Sends  BY <1>3 DEF SendWakes, ConservedInv, Exclusion, TypeOK, NoSend, Sends
  <2>2. snd[s].after \in BOOLEAN  BY <2>1 DEF Sends
  <2> QED  BY <1>3, <2>2, WakeConserves DEF SendWakes, inboxVars, outcomeVars, boundVars
<1>4. CASE \/ \E m \in Messages, target \in Targets, wakeup \in BOOLEAN :
                 SendBegins(s, m, target, wakeup)
           \/ SendRefused(s)
  <2>1. UNCHANGED <<nextTurn, nextStep, phase, drv, cnl, settled, dropped, accepted,
                    cancels, faults>>
    BY <1>4 DEF SendBegins, SendRefused, inboxVars, outcomeVars, boundVars
  <2>2. HandsEmpty' /\ CancelsCounted'
    BY <2>1 DEF ConservedInv, HandsEmpty, CancelsCounted
  <2> QED  BY <2>1, <2>2, ConservedQuiet DEF ConservedInv
<1> QED  BY <1>1, <1>2, <1>3, <1>4

\* Cancel: what it clears counts as disposed of, and it is counted first.
LEMMA CancelConserves ==
    ASSUME ConservedInv, CancelStep
    PROVE  HandsEmpty' /\ CancelsCounted' /\ Conserved'
<1>0. cancels \in Nat /\ faults \in Nat /\ TypeOK
  BY DEF ConservedInv, Exclusion, TypeOK
<1>1. PICK c \in Cancelers :
        \/ \E keep \in KeepInbox : CancelBegins(c, keep)
        \/ CancelLocks(c) \/ CancelAborts(c)
  BY DEF CancelStep
<1>2. ASSUME NEW keep \in KeepInbox, CancelBegins(c, keep)
      PROVE  HandsEmpty' /\ CancelsCounted' /\ Conserved'
  <2>1. cancels' > 0  BY <1>0, <1>2 DEF CancelBegins
  <2>2. UNCHANGED <<drv, dropped, accepted>>  BY <1>2 DEF CancelBegins
  <2>3. HandsEmpty' /\ CancelsCounted'
    BY <2>1, <2>2 DEF ConservedInv, HandsEmpty, CancelsCounted
  <2>4. cancels' # 0  BY <1>0, <2>1
  <2>5. InInbox \cup settled \subseteq InInbox' \cup settled'
    <3>1. CASE keep  BY <1>2, <3>1 DEF CancelBegins, inboxVars, InInbox
    <3>2. CASE ~keep  BY <1>2, <3>2 DEF CancelBegins
    <3> QED  BY <3>1, <3>2
  <2>6. Conserved'  BY <2>2, <2>4, <2>5 DEF ConservedInv, Conserved
  <2> QED  BY <2>3, <2>6
<1>3. CASE CancelLocks(c) \/ CancelAborts(c)
  <2>1. UNCHANGED <<nextTurn, nextStep, drv, settled, dropped, accepted, cancels, faults>>
    BY <1>3 DEF CancelLocks, CancelAborts, inboxVars, outcomeVars, boundVars
  <2>2. cnl[c].pc # "idle"  BY <1>3 DEF CancelLocks, CancelAborts
  <2>3. cancels > 0  BY <2>2 DEF ConservedInv, CancelsCounted
  <2>4. HandsEmpty' /\ CancelsCounted'
    BY <2>1, <2>3 DEF ConservedInv, HandsEmpty, CancelsCounted
  <2> QED  BY <2>1, <2>4, ConservedQuiet DEF ConservedInv
<1> QED  BY <1>1, <1>2, <1>3

\* The driver: a claim moves messages from the inbox into its hands, a step
\* records them, and whatever drops them was cancelled or has failed.
LEMMA DriverConserves ==
    ASSUME ConservedInv, DriverStep
    PROVE  HandsEmpty' /\ CancelsCounted' /\ Conserved'
<1> USE DEF OthersUnchanged
<1>0. /\ TypeOK /\ faults \in Nat /\ cancels \in Nat
      /\ \A pc \in DrvPcs : Goto(pc) => drv'.pc = pc /\ drv'.claimed = drv.claimed
      /\ Fault => faults' # 0
      /\ Range(<<>>) = {}
  BY EmptyOnce DEF ConservedInv, Exclusion, TypeOK, Goto, Fault
<1>1. ASSUME cnl' = cnl, cancels' = cancels, phase'.kind = phase.kind, phase'.ctx = phase.ctx
      PROVE  CancelsCounted'
  BY <1>1 DEF ConservedInv, CancelsCounted
<1>2. ASSUME UNCHANGED <<nextTurn, nextStep, settled, dropped, accepted>>,
             drv'.claimed = drv.claimed, drv.pc # "claimed",
             faults' = faults \/ faults' # 0, cancels' = cancels
      PROVE  HandsEmpty' /\ Conserved'
  <2>1. HandsEmpty'  BY <1>2 DEF ConservedInv, HandsEmpty
  <2> QED  BY <1>2, <2>1, ConservedQuiet DEF ConservedInv
<1>3. CASE DriverRefused \/ TurnRefused \/ Aborts
  BY <1>0, <1>1, <1>2, <1>3 DEF DriverRefused, TurnRefused, Aborts, DrvPcs, inboxVars
<1>4. CASE TurnBegins
  <2>1. drv'.claimed = <<>> /\ drv.claimed = <<>>
    BY <1>4 DEF TurnBegins, NoDriver, ConservedInv, HandsEmpty
  <2> QED  BY <1>1, <1>2, <1>4, <2>1 DEF TurnBegins, inboxVars
<1>5. CASE StepReturns \/ StepFails \/ Stepped \/ Stopping
  BY <1>0, <1>1, <1>2, <1>5 DEF StepReturns, StepFails, Stepped, Stopping, DrvPcs, inboxVars
<1>6. CASE Recheck
  <2>1. drv'.claimed = drv.claimed  BY <1>0, <1>6 DEF Recheck, TypeOK
  <2> QED  BY <1>1, <1>2, <1>6, <2>1 DEF Recheck, inboxVars
<1>7. CASE Break \/ TurnEnd
  BY <1>0, <1>1, <1>2, <1>7 DEF Break, TurnEnd, DrvPcs, inboxVars
<1>8. CASE Continue
  <2>1. phase'.kind = phase.kind /\ phase'.ctx = phase.ctx  BY <1>0, <1>8 DEF Continue, TypeOK
  <2> QED  BY <1>0, <1>1, <1>2, <1>8, <2>1 DEF Continue, DrvPcs, inboxVars
<1>9. CASE DriverExits
  <2>1. drv'.claimed = <<>> /\ drv.claimed = <<>>
    BY <1>9 DEF DriverExits, NoDriver, ConservedInv, HandsEmpty
  <2>2. CancelsCounted'
    <3>1. phase'.kind = "idle" /\ cancels' = cancels
      BY <1>9 DEF DriverExits, Idle, boundVars
    <3>2. \A c \in Cancelers : cnl'[c].pc # "idle" => cnl[c].pc # "idle"
      BY <1>9 DEF DriverExits, StaleCancels, NoCancel
    <3> QED  BY <3>1, <3>2 DEF ConservedInv, CancelsCounted
  <2> QED  BY <1>2, <1>9, <2>1, <2>2 DEF DriverExits, inboxVars, outcomeVars, boundVars
<1>10. CASE Claim
  <2> DEFINE turns == IF ClaimsTurn(drv.target) THEN <<Head(nextTurn)>> ELSE <<>>
  <2>1. /\ nextStep' = <<>>
        /\ nextTurn' = IF turns = <<>> THEN nextTurn ELSE Tail(nextTurn)
        /\ drv' = [drv EXCEPT !.pc = "claimed", !.claimed = nextStep \o turns]
        /\ UNCHANGED <<phase, cnl, cancels, faults, settled, dropped, accepted>>
        /\ drv.pc = "loop"
    BY <1>10 DEF Claim, Batch
  <2>2. /\ nextTurn \in Seq(Messages) /\ nextStep \in Seq(Messages)
        /\ turns \in Seq(Messages)
        /\ Range(nextTurn) \subseteq Range(turns) \cup Range(nextTurn')
    <3>1. CASE ClaimsTurn(drv.target)
      <4>1. nextTurn \in Seq(Messages) /\ nextTurn # <<>>
        BY <1>0, <3>1 DEF ClaimsTurn, TypeOK
      <4>2. turns = <<Head(nextTurn)>> /\ turns # <<>>  BY <3>1
      <4>3. Range(nextTurn) = {Head(nextTurn)} \cup Range(Tail(nextTurn))
        BY <4>1, HeadTailRange
      <4>4. Range(<<Head(nextTurn)>>) = {Head(nextTurn)}  BY SingleRange
      <4>5. Head(nextTurn) \in Messages  BY <4>1, HeadTailProperties
      <4>6. nextTurn' = Tail(nextTurn)  BY <2>1, <4>2
      <4>7. turns \in Seq(Messages)  BY <4>2, <4>5
      <4> HIDE DEF turns
      <4> QED  BY <1>0, <4>2, <4>3, <4>4, <4>6, <4>7 DEF TypeOK
    <3>2. CASE ~ClaimsTurn(drv.target)
      BY <1>0, <2>1, <3>2, EmptySeq DEF TypeOK
    <3> QED  BY <3>1, <3>2
  <2> HIDE DEF turns
  <2>3. drv'.claimed = nextStep \o turns /\ drv'.pc = "claimed"
    BY <1>0, <2>1 DEF TypeOK
  <2>4. Range(nextStep \o turns) = Range(nextStep) \cup Range(turns)
    BY <2>2, RangeConcatenation
  <2>5. drv.claimed = <<>>  BY <2>1 DEF ConservedInv, HandsEmpty
  <2>6. HandsEmpty' /\ CancelsCounted'  BY <1>1, <2>1, <2>3 DEF HandsEmpty
  <2>7. Conserved'
    BY <1>0, <2>1, <2>2, <2>3, <2>4, <2>5 DEF ConservedInv, Conserved, InInbox
  <2> QED  BY <2>6, <2>7
<1>11. CASE ClaimFails
  <2>1. /\ faults' # 0 /\ UNCHANGED <<nextTurn, phase, cnl, cancels, settled, accepted>>
        /\ drv'.pc = "endErr" /\ drv'.claimed = drv.claimed /\ drv.pc = "loop"
    BY <1>0, <1>11 DEF ClaimFails, DrvPcs
  <2>2. Range(nextStep) \cup dropped \subseteq Range(nextStep') \cup dropped'
    BY <1>11 DEF ClaimFails
  <2>3. HandsEmpty' /\ CancelsCounted'
    BY <1>1, <2>1 DEF ConservedInv, HandsEmpty
  <2>4. Conserved'  BY <2>1, <2>2 DEF ConservedInv, Conserved, InInbox
  <2> QED  BY <2>3, <2>4
<1>12. ASSUME NEW pc \in DrvPcs \ {"claimed"}, drv.pc = "claimed", DropClaimed(pc),
              faults' = faults \/ faults' # 0,
              \/ drv.claimed = <<>> \/ cancels # 0 \/ faults' # 0
       PROVE  HandsEmpty' /\ CancelsCounted' /\ Conserved'
  <2>1. drv'.pc = pc /\ drv'.claimed = <<>>  BY <1>0, <1>12 DEF DropClaimed, TypeOK
  <2>2. /\ UNCHANGED <<nextTurn, nextStep, phase, cnl, cancels, settled, accepted>>
        /\ dropped' = dropped \cup Range(drv.claimed)
    BY <1>12 DEF DropClaimed, inboxVars
  <2>3. HandsEmpty' /\ CancelsCounted'  BY <1>1, <2>1, <2>2 DEF HandsEmpty
  <2>4. cancels' = 0 /\ faults' = 0 => dropped' = {}
    BY <1>0, <1>12, <2>2 DEF ConservedInv, Conserved
  <2>5. Conserved'
    BY <2>2, <2>4 DEF ConservedInv, Conserved, InInbox
  <2> QED  BY <2>3, <2>5
<1>13. CASE PreStepAborted
  <2>1. phase.kind = "running" /\ phase.ctx # "live"
    BY <1>13 DEF PreStepAborted, Live, ConservedInv, Exclusion, OneActivity
  <2>2. cancels # 0  BY <1>0, <2>1 DEF ConservedInv, CancelsCounted
  <2> QED  BY <1>12, <1>13, <2>2 DEF PreStepAborted, DrvPcs
<1>14. CASE PreStepFails \/ PreStepRejects
  BY <1>0, <1>12, <1>14 DEF PreStepFails, PreStepRejects, DrvPcs
<1>15. CASE NothingClaimed \/ PreStepRewrites
  BY <1>0, <1>12, <1>15 DEF NothingClaimed, PreStepRewrites, EmptyDecision, DrvPcs
<1>16. CASE StepBegins \/ ProjectedStep
  <2>1. EnterStep /\ (faults' = faults \/ faults' # 0)
    BY <1>0, <1>16 DEF StepBegins, ProjectedStep
  <2>2. drv'.pc = "step" /\ drv'.claimed = <<>>  BY <1>0, <2>1 DEF EnterStep, TypeOK
  <2>3. /\ UNCHANGED <<nextTurn, nextStep, phase, cnl, cancels, dropped, accepted>>
        /\ settled' = settled \cup Range(drv.claimed)
    BY <2>1 DEF EnterStep, inboxVars
  <2>4. HandsEmpty' /\ CancelsCounted'  BY <1>1, <2>2, <2>3 DEF HandsEmpty
  <2>5. Conserved'  BY <2>1, <2>3 DEF ConservedInv, Conserved, InInbox
  <2> QED  BY <2>4, <2>5
<1> QED
  BY <1>3, <1>4, <1>5, <1>6, <1>7, <1>8, <1>9, <1>10, <1>11, <1>13, <1>14, <1>15, <1>16
  DEF DriverStep, PreStep, StepStep

LEMMA ConservedStep == ConservedInv /\ [Next]_vars => ConservedInv'
<1> SUFFICES ASSUME ConservedInv, [Next]_vars
             PROVE  HandsEmpty' /\ CancelsCounted' /\ Conserved'
  BY ExclusionStep DEF ConservedInv
<1>1. CASE MaintenanceStep
  <2>1. UNCHANGED <<nextTurn, nextStep, drv, settled, dropped, accepted, cancels, faults>>
    BY <1>1 DEF MaintenanceStep, RunMaintenance, TaskReturns, MaintenanceEnds, inboxVars,
                outcomeVars, boundVars
  <2>2. CancelsCounted'
    <3>1. phase'.kind # "running"
      <4>1. CASE RunMaintenance  BY <4>1 DEF RunMaintenance, Phase
      <4>2. CASE TaskReturns
        BY <4>2 DEF TaskReturns, ConservedInv, Exclusion, OneActivity, TypeOK
      <4>3. CASE MaintenanceEnds  BY <4>3 DEF MaintenanceEnds, Idle
      <4> QED  BY <1>1, <4>1, <4>2, <4>3 DEF MaintenanceStep
    <3>2. \A c \in Cancelers : cnl'[c].pc # "idle" => cnl[c].pc # "idle"
      BY <1>1 DEF MaintenanceStep, RunMaintenance, TaskReturns, MaintenanceEnds,
                  StaleCancels, NoCancel
    <3> QED  BY <2>1, <3>1, <3>2 DEF ConservedInv, CancelsCounted
  <2>3. HandsEmpty'  BY <2>1 DEF ConservedInv, HandsEmpty
  <2> QED  BY <2>1, <2>2, <2>3, ConservedQuiet DEF ConservedInv
<1>2. CASE Rewake
  BY <1>2, WakeConserves DEF Rewake, inboxVars, outcomeVars, boundVars
<1>3. CASE UNCHANGED vars
  <2>1. UNCHANGED <<nextTurn, nextStep, phase, drv, cnl, settled, dropped, accepted,
                    cancels, faults>>
    BY <1>3 DEF vars, inboxVars, outcomeVars, boundVars
  <2>2. HandsEmpty' /\ CancelsCounted'
    BY <2>1 DEF ConservedInv, HandsEmpty, CancelsCounted
  <2> QED  BY <2>1, <2>2, ConservedQuiet DEF ConservedInv
<1> QED
  BY <1>1, <1>2, <1>3, SendConserves, CancelConserves, DriverConserves DEF Next

\* However sends, claims, failures and cancellations interleave, no message the
\* inbox has taken vanishes, and none that a driver claimed is lost unless a
\* cancellation or a failure came in between.
THEOREM NoMessageVanishes == Spec => []Conserved
<1>1. Init => ConservedInv
  <2> SUFFICES ASSUME Init  PROVE HandsEmpty /\ CancelsCounted /\ Conserved
    BY ExclusionInit DEF ConservedInv
  <2>1. drv.claimed = <<>> /\ phase.kind = "idle"  BY DEF Init, NoDriver, Idle
  <2>2. \A c \in Cancelers : cnl[c].pc = "idle"  BY DEF Init, NoCancel
  <2>3. accepted = {} /\ dropped = {}  BY DEF Init
  <2> QED  BY <2>1, <2>2, <2>3 DEF HandsEmpty, CancelsCounted, Conserved
<1>2. ConservedInv => Conserved  BY DEF ConservedInv
<1> QED  BY <1>1, <1>2, ConservedStep, PTL DEF Spec

-----------------------------------------------------------------------------
(* No wake is left parked.  NoParkedWake speaks of an agent at rest; what    *)
(* is inductive says, in every state, who will attend to a registered wake. *)

\* A waking send that has registered m and not yet spliced it.
Arriving(m) == \E s \in Senders : snd[s].pc = "splice" /\ snd[s].wakeup /\ snd[s].msg = m

\* A Cancel that will take every wake back.
Clearing == \E c \in Cancelers : cnl[c].pc = "lock"

\* Somebody will call wakeDriver, or take the wakes back.
Coming == rewakes > 0 \/ Clearing \/ \E s \in Senders : snd[s].pc = "wake"

\* A registered wake belongs to a message in the inbox, unless it is on its way
\* in or about to be taken back.
PlacedInv ==
    \A m \in pendingWakes :
        m \in InInbox \/ Arriving(m) \/ Clearing \/ drv.pc \in {"endErr", "exitErr"}

\* A registered wake is attended to: by the running driver, by somebody who will
\* wake one, or by the latch of the maintenance task that is under way.
AttendedInv ==
    tasks = 0 \/ cancels = 0 =>
        \A m \in pendingWakes :
            \/ phase.kind = "running" \/ Coming \/ Arriving(m)
            \/ phase.kind = "maintenance" /\ phase.wakeRequested

\* Maintenance and cancellation are counted before anybody sees them.
Counted ==
    /\ phase.kind = "maintenance" => tasks > 0
    /\ phase.ctx = "cancelled" => cancels > 0
    /\ \A c \in Cancelers : cnl[c].pc # "idle" => cancels > 0

WakeInv == Exclusion /\ Counted /\ PlacedInv /\ AttendedInv

\* What the inbox loses to a claim leaves the wake bookkeeping with it.
LEMMA ClaimTakes ==
    ASSUME TypeOK, Claim
    PROVE  pendingWakes' \subseteq pendingWakes /\ pendingWakes' \cap InInbox \subseteq InInbox'
<1> DEFINE turns == IF ClaimsTurn(drv.target) THEN <<Head(nextTurn)>> ELSE <<>>
<1>1. /\ nextStep' = <<>>
      /\ nextTurn' = IF turns = <<>> THEN nextTurn ELSE Tail(nextTurn)
      /\ pendingWakes' = pendingWakes \ Range(nextStep \o turns)
      /\ nextTurn \in Seq(Messages) /\ nextStep \in Seq(Messages)
  BY DEF Claim, Batch, TypeOK
<1>2. turns \in Seq(Messages) /\ Range(nextTurn) \subseteq Range(turns) \cup Range(nextTurn')
  <2>1. CASE ClaimsTurn(drv.target)
    <3>1. nextTurn # <<>>  BY <2>1 DEF ClaimsTurn
    <3>2. turns = <<Head(nextTurn)>> /\ turns # <<>>  BY <2>1
    <3>3. Range(nextTurn) = {Head(nextTurn)} \cup Range(Tail(nextTurn))
      BY <1>1, <3>1, HeadTailRange
    <3>4. Range(<<Head(nextTurn)>>) = {Head(nextTurn)}  BY SingleRange
    <3>5. Head(nextTurn) \in Messages  BY <1>1, <3>1, HeadTailProperties
    <3>6. nextTurn' = Tail(nextTurn)  BY <1>1, <3>2
    <3>7. turns \in Seq(Messages)  BY <3>2, <3>5
    <3> HIDE DEF turns
    <3> QED  BY <3>2, <3>3, <3>4, <3>6, <3>7
  <2>2. CASE ~ClaimsTurn(drv.target)  BY <1>1, <2>2, EmptySeq
  <2> QED  BY <2>1, <2>2
<1> HIDE DEF turns
<1>3. Range(nextStep \o turns) = Range(nextStep) \cup Range(turns)
  BY <1>1, <1>2, RangeConcatenation
<1> QED  BY <1>1, <1>2, <1>3 DEF InInbox

\* The tasks and cancellations an agent has seen are counted.
LEMMA CountedStep == ASSUME Exclusion, Counted, [Next]_vars  PROVE Counted'
<1>0. TypeOK /\ cancels \in Nat /\ tasks \in Nat  BY DEF Exclusion, TypeOK
<1>1. ASSUME UNCHANGED <<cnl, cancels, tasks>>, phase'.kind = phase.kind \/ phase'.kind # "maintenance",
             phase'.ctx = phase.ctx \/ phase'.ctx # "cancelled"
      PROVE  Counted'
  BY <1>1 DEF Counted
<1>2. ASSUME NEW after, WakeDriver(after), UNCHANGED <<cnl, cancels, tasks>>  PROVE Counted'
  <2>1. CASE phase' = [phase EXCEPT !.wakeRequested = @ \/ Latches(after)]
    <3>1. phase'.kind = phase.kind /\ phase'.ctx = phase.ctx  BY <1>0, <2>1 DEF TypeOK
    <3> QED  BY <1>1, <1>2, <3>1
  <2>2. CASE phase' = Phase("running")
    <3>1. phase'.kind = "running" /\ phase'.ctx = "live"  BY <2>2 DEF Phase
    <3> QED  BY <1>1, <1>2, <3>1
  <2> QED  BY <1>2, <2>1, <2>2 DEF WakeDriver
<1>3. CASE SendStep
  <2>1. PICK s \in Senders :
          \/ \E m \in Messages, target \in Targets, wakeup \in BOOLEAN :
                SendBegins(s, m, target, wakeup)
          \/ SendSplices(s) \/ SendRefused(s) \/ SendWakes(s)
    BY <1>3 DEF SendStep
  <2>2. CASE SendWakes(s)  BY <1>2, <2>2 DEF SendWakes, boundVars
  <2>3. CASE \/ \E m \in Messages, target \in Targets, wakeup \in BOOLEAN :
                   SendBegins(s, m, target, wakeup)
             \/ SendSplices(s) \/ SendRefused(s)
    BY <1>1, <2>3 DEF SendBegins, SendSplices, SendRefused, boundVars
  <2> QED  BY <2>1, <2>2, <2>3
<1>4. CASE CancelStep
  <2>1. PICK c \in Cancelers :
          \/ \E keep \in KeepInbox : CancelBegins(c, keep)
          \/ CancelLocks(c) \/ CancelAborts(c)
    BY <1>4 DEF CancelStep
  <2>2. tasks' = tasks /\ phase'.kind = phase.kind
    BY <1>0, <2>1 DEF CancelBegins, CancelLocks, CancelAborts, boundVars, TypeOK
  <2>3. cancels' > 0
    <3>1. CASE \E keep \in KeepInbox : CancelBegins(c, keep)
      BY <1>0, <3>1 DEF CancelBegins
    <3>2. CASE CancelLocks(c) \/ CancelAborts(c)
      BY <3>2 DEF CancelLocks, CancelAborts, boundVars, Counted
    <3> QED  BY <2>1, <3>1, <3>2
  <2> QED  BY <2>2, <2>3 DEF Counted
<1>5. CASE RunMaintenance
  <2>1. UNCHANGED <<cnl, cancels>> /\ tasks' > 0 /\ phase'.ctx = "live"
    BY <1>0, <1>5 DEF RunMaintenance, Phase
  <2> QED  BY <2>1 DEF Counted
<1>6. CASE TaskReturns
  <2>1. phase'.kind = phase.kind /\ (phase'.ctx = phase.ctx \/ phase'.ctx = "ended")
    BY <1>0, <1>6 DEF TaskReturns, TypeOK
  <2> QED  BY <1>1, <1>6, <2>1 DEF TaskReturns, boundVars
<1>7. CASE MaintenanceEnds \/ DriverExits
  <2>1. /\ UNCHANGED <<cancels, tasks>> /\ phase'.kind = "idle" /\ phase'.ctx = "ended"
        /\ cnl' = StaleCancels
    BY <1>7 DEF MaintenanceEnds, DriverExits, Idle, boundVars
  <2>2. \A c \in Cancelers : cnl'[c].pc # "idle" => cnl[c].pc # "idle"
    BY <2>1 DEF StaleCancels, NoCancel
  <2> QED  BY <2>1, <2>2 DEF Counted
<1>8. CASE Continue
  <2>1. phase'.kind = phase.kind /\ phase'.ctx = phase.ctx  BY <1>0, <1>8 DEF Continue, TypeOK
  <2> QED  BY <1>1, <1>8, <2>1 DEF Continue, OthersUnchanged
<1>9. CASE DriverStep /\ ~DriverExits /\ ~Continue
  <2>1. UNCHANGED <<phase, cnl, cancels, tasks>>
    BY <1>9 DEF DriverStep, DriverRefused, TurnRefused, TurnBegins, Aborts, PreStep, StepStep,
                Claim, ClaimFails, PreStepAborted, PreStepFails, PreStepRejects, NothingClaimed,
                PreStepRewrites, EmptyDecision, DropClaimed, StepBegins, ProjectedStep, EnterStep,
                StepReturns, StepFails, Stepped, Stopping, Recheck, Break, TurnEnd,
                OthersUnchanged
  <2> QED  BY <1>1, <2>1
<1>10. CASE Rewake  BY <1>2, <1>10 DEF Rewake, boundVars
<1>11. CASE UNCHANGED vars  BY <1>1, <1>11 DEF vars, boundVars
<1> QED  BY <1>3, <1>4, <1>5, <1>6, <1>7, <1>8, <1>9, <1>10, <1>11 DEF Next, MaintenanceStep

\* A Cancel that has yet to take the wakes back outlives the activity it aborts.
LEMMA StaleKeepsClearing == ASSUME cnl' = StaleCancels, Clearing  PROVE Clearing'
<1>1. PICK c \in Cancelers : cnl[c].pc = "lock"  BY DEF Clearing
<1>2. cnl'[c].pc = "lock"  BY <1>1 DEF StaleCancels
<1> QED  BY <1>2 DEF Clearing

\* A sender's step leaves the sends of the others where they are.
LEMMA ArrivingOthers ==
    ASSUME TypeOK, NEW s \in Senders, NEW v, snd' = [snd EXCEPT ![s] = v], NEW m, Arriving(m),
           ~(snd[s].pc = "splice" /\ snd[s].wakeup /\ snd[s].msg = m)
    PROVE  Arriving(m)'
<1>1. PICK t \in Senders : snd[t].pc = "splice" /\ snd[t].wakeup /\ snd[t].msg = m
  BY DEF Arriving
<1>2. t # s /\ snd'[t] = snd[t]  BY <1>1 DEF TypeOK
<1> QED  BY <1>1, <1>2 DEF Arriving

\* What the steps of the driver inside its turn do to the wakes: none is added,
\* what leaves the inbox leaves them too, or else the turn fails.
LEMMA DriverPlaces ==
    ASSUME Exclusion, DriverStep, ~DriverExits
    PROVE  /\ UNCHANGED <<snd, cnl, rewakes, tasks, cancels>> /\ phase'.kind = "running"
           /\ pendingWakes' \subseteq pendingWakes
           /\ \/ drv'.pc \in {"endErr", "exitErr"}
              \/ /\ drv.pc \notin {"endErr", "exitErr"}
                 /\ pendingWakes' \cap InInbox \subseteq InInbox'
<1> USE DEF OthersUnchanged
<1>0. /\ TypeOK /\ drv \in [pc : DrvPcs, target : Targets, first : BOOLEAN, claimed : Seq(Messages)]
      /\ \A pc \in DrvPcs : Goto(pc) => drv'.pc = pc
      /\ phase \in [kind : Kinds, ctx : Ctx, wakeRequested : BOOLEAN]
  BY DEF Exclusion, TypeOK, Goto
<1>1. phase.kind = "running"
  <2>1. drv.pc # "none"
    BY DEF DriverStep, DriverRefused, TurnRefused, TurnBegins, Aborts, PreStep, StepStep,
           Claim, ClaimFails, PreStepAborted, PreStepFails, PreStepRejects, NothingClaimed,
           PreStepRewrites, StepBegins, ProjectedStep, StepReturns, StepFails, Stepped, Stopping,
           Recheck, Break, Continue, TurnEnd
  <2> QED  BY <2>1 DEF Exclusion, OneActivity
<1>2. CASE DriverRefused \/ TurnRefused \/ Aborts \/ StepFails
  BY <1>0, <1>1, <1>2 DEF DriverRefused, TurnRefused, Aborts, StepFails, DrvPcs
<1>3. CASE StepReturns \/ Stepped \/ Stopping \/ Break
  <2>1. UNCHANGED <<snd, cnl, rewakes, tasks, cancels, phase, pendingWakes, inboxVars>>
    BY <1>3 DEF StepReturns, Stepped, Stopping, Break
  <2>2. drv.pc \notin {"endErr", "exitErr"}
    BY <1>3 DEF StepReturns, Stepped, Stopping, Break
  <2> QED  BY <1>1, <2>1, <2>2 DEF inboxVars, InInbox
<1>4. CASE TurnBegins \/ Recheck
  <2>1. UNCHANGED <<snd, cnl, rewakes, tasks, cancels, phase, pendingWakes, inboxVars>>
    BY <1>4 DEF TurnBegins, Recheck
  <2>2. drv.pc \notin {"endErr", "exitErr"}  BY <1>4 DEF TurnBegins, Recheck
  <2> QED  BY <1>1, <2>1, <2>2 DEF inboxVars, InInbox
<1>5. CASE Continue
  <2>1. UNCHANGED <<snd, cnl, rewakes, tasks, cancels, pendingWakes, inboxVars>>
    BY <1>5 DEF Continue
  <2>2. drv.pc = "continue" /\ phase'.kind = phase.kind  BY <1>0, <1>5 DEF Continue
  <2> QED  BY <1>1, <2>1, <2>2 DEF inboxVars, InInbox
<1>6. CASE TurnEnd
  <2>1. UNCHANGED <<snd, cnl, rewakes, tasks, cancels, phase, pendingWakes, inboxVars>>
    BY <1>6 DEF TurnEnd
  <2>2. drv.pc \in {"endNext", "end", "endErr"} /\ (drv.pc = "endErr" => drv'.pc = "exitErr")
    BY <1>0, <1>6 DEF TurnEnd, DrvPcs
  <2> QED  BY <1>1, <2>1, <2>2 DEF inboxVars, InInbox
<1>7. CASE Claim
  <2>1. UNCHANGED <<snd, cnl, rewakes, tasks, cancels, phase>> /\ drv.pc = "loop"
    BY <1>7 DEF Claim
  <2> QED  BY <1>0, <1>1, <1>7, <2>1, ClaimTakes
<1>8. CASE ClaimFails
  BY <1>0, <1>1, <1>8 DEF ClaimFails, DrvPcs
<1>9. CASE PreStepAborted \/ PreStepFails \/ PreStepRejects \/ NothingClaimed \/ PreStepRewrites
  <2>1. UNCHANGED <<snd, cnl, rewakes, tasks, cancels, phase, inboxVars>>
    BY <1>9 DEF PreStepAborted, PreStepFails, PreStepRejects, NothingClaimed, PreStepRewrites,
                EmptyDecision, DropClaimed
  <2>2. pendingWakes' \subseteq pendingWakes /\ drv.pc = "claimed"
    BY <1>9 DEF PreStepAborted, PreStepFails, PreStepRejects, NothingClaimed, PreStepRewrites
  <2> QED  BY <1>1, <2>1, <2>2 DEF inboxVars, InInbox
<1>10. CASE StepBegins \/ ProjectedStep
  <2>1. UNCHANGED <<snd, cnl, rewakes, tasks, cancels, phase, pendingWakes, inboxVars>>
    BY <1>10 DEF StepBegins, ProjectedStep, EnterStep
  <2>2. drv.pc = "claimed"  BY <1>10 DEF StepBegins, ProjectedStep
  <2> QED  BY <1>1, <2>1, <2>2 DEF inboxVars, InInbox
<1> QED  BY <1>2, <1>3, <1>4, <1>5, <1>6, <1>7, <1>8, <1>9, <1>10 DEF DriverStep, PreStep, StepStep

\* Every step leaves each registered wake with a message that is in the inbox,
\* on its way in or about to lose it.
LEMMA PlacedStep == ASSUME Exclusion, PlacedInv, [Next]_vars  PROVE PlacedInv'
<1>0. TypeOK  BY DEF Exclusion
<1>1. ASSUME Clearing => Clearing', \A m \in pendingWakes' : Arriving(m) => Arriving(m)',
             pendingWakes' \subseteq pendingWakes, pendingWakes' \cap InInbox \subseteq InInbox',
             drv.pc \notin {"endErr", "exitErr"} \/ drv' = drv
      PROVE  PlacedInv'
  BY <1>1 DEF PlacedInv
<1>2. ASSUME snd' = snd, cnl' = cnl  PROVE (Clearing <=> Clearing') /\ \A m : Arriving(m) <=> Arriving(m)'
  BY <1>2 DEF Clearing, Arriving
<1>3. ASSUME NEW s \in Senders, NEW m \in Messages, NEW target \in Targets, NEW wakeup \in BOOLEAN,
             SendBegins(s, m, target, wakeup)
      PROVE  PlacedInv'
  <2>1. UNCHANGED <<nextTurn, nextStep, drv, cnl>> /\ snd[s].pc = "idle"
    BY <1>3 DEF SendBegins, inboxVars
  <2> DEFINE v == [pc |-> "splice", msg |-> m, wakeup |-> wakeup,
                   after |-> WakingAfterAbort(wakeup),
                   target |-> IF WakingAfterAbort(wakeup) THEN "nextTurn" ELSE target]
  <2>2. snd' = [snd EXCEPT ![s] = v]
    BY <1>3 DEF SendBegins
  <2>3. snd'[s] = v  BY <1>0, <2>2 DEF TypeOK
  <2>4. wakeup => Arriving(m)'  BY <2>3 DEF Arriving
  <2>5. \A n : Arriving(n) => Arriving(n)'
    <3> HIDE DEF v
    <3> QED  BY <1>0, <2>1, <2>2, ArrivingOthers
  <2>6. pendingWakes' = IF wakeup THEN pendingWakes \cup {m} ELSE pendingWakes
    BY <1>3 DEF SendBegins
  <2> QED  BY <2>1, <2>4, <2>5, <2>6 DEF PlacedInv, InInbox, Clearing
<1>4. ASSUME NEW s \in Senders, SendSplices(s)  PROVE PlacedInv'
  <2>1. UNCHANGED <<pendingWakes, drv, cnl>>  BY <1>4 DEF SendSplices
  <2>2. InInbox' = InInbox \cup {snd[s].msg}  BY <1>0, <1>4, SpliceAdds
  <2>3. PICK v : snd' = [snd EXCEPT ![s] = v]  BY <1>4 DEF SendSplices
  <2>4. \A n : Arriving(n) /\ n # snd[s].msg => Arriving(n)'  BY <1>0, <2>3, ArrivingOthers
  <2> QED  BY <2>1, <2>2, <2>4 DEF PlacedInv, Clearing
<1>5. ASSUME NEW s \in Senders, SendRefused(s)  PROVE PlacedInv'
  <2>1. UNCHANGED <<nextTurn, nextStep, drv, cnl>> /\ pendingWakes' = pendingWakes \ {snd[s].msg}
    BY <1>5 DEF SendRefused, inboxVars
  <2>2. snd' = [snd EXCEPT ![s] = NoSend]  BY <1>5 DEF SendRefused
  <2>3. \A n : Arriving(n) /\ n # snd[s].msg => Arriving(n)'  BY <1>0, <2>2, ArrivingOthers
  <2> QED  BY <2>1, <2>3 DEF PlacedInv, InInbox, Clearing
<1>6. ASSUME NEW after, WakeDriver(after)  PROVE drv.pc \notin {"endErr", "exitErr"} \/ drv' = drv
  BY <1>6 DEF WakeDriver, Busy, Exclusion, OneActivity, TypeOK, Kinds
<1>7. ASSUME NEW s \in Senders, SendWakes(s)  PROVE PlacedInv'
  <2>1. UNCHANGED <<nextTurn, nextStep, cnl, pendingWakes>> /\ snd[s].pc = "wake"
    BY <1>7 DEF SendWakes, inboxVars
  <2>2. snd' = [snd EXCEPT ![s] = NoSend]  BY <1>7 DEF SendWakes
  <2>3. \A n : Arriving(n) => Arriving(n)'  BY <1>0, <2>1, <2>2, ArrivingOthers
  <2>4. drv.pc \notin {"endErr", "exitErr"} \/ drv' = drv  BY <1>6, <1>7 DEF SendWakes
  <2> QED  BY <1>1, <2>1, <2>3, <2>4 DEF InInbox, Clearing
<1>8. CASE Rewake
  <2>1. UNCHANGED <<nextTurn, nextStep, cnl, snd, pendingWakes>>  BY <1>8 DEF Rewake, inboxVars
  <2>2. drv.pc \notin {"endErr", "exitErr"} \/ drv' = drv  BY <1>6, <1>8 DEF Rewake
  <2> QED  BY <1>1, <1>2, <2>1, <2>2 DEF InInbox
<1>9. CASE CancelStep
  <2>1. PICK c \in Cancelers :
          \/ \E keep \in KeepInbox : CancelBegins(c, keep)
          \/ CancelLocks(c) \/ CancelAborts(c)
    BY <1>9 DEF CancelStep
  <2>2. CASE \E keep \in KeepInbox : CancelBegins(c, keep)
    <3>1. cnl'[c].pc = "lock"  BY <1>0, <2>2 DEF CancelBegins, TypeOK
    <3> QED  BY <3>1 DEF PlacedInv, Clearing
  <2>3. CASE CancelLocks(c)
    <3>1. pendingWakes' = {}  BY <2>3 DEF CancelLocks
    <3> QED  BY <3>1 DEF PlacedInv
  <2>4. CASE CancelAborts(c)
    <3>1. /\ UNCHANGED <<nextTurn, nextStep, snd, pendingWakes, drv>> /\ cnl[c].pc = "cancel"
          /\ cnl' = [cnl EXCEPT ![c] = NoCancel]
      BY <2>4 DEF CancelAborts, inboxVars
    <3>2. Clearing => Clearing'
      BY <1>0, <3>1 DEF Clearing, TypeOK
    <3> QED  BY <1>1, <3>1, <3>2 DEF InInbox, Arriving
  <2> QED  BY <2>1, <2>2, <2>3, <2>4
<1>10. CASE RunMaintenance \/ TaskReturns \/ UNCHANGED vars
  <2>1. UNCHANGED <<nextTurn, nextStep, cnl, snd, pendingWakes, drv>>
    BY <1>10 DEF RunMaintenance, TaskReturns, vars, inboxVars
  <2> QED  BY <1>1, <1>2, <2>1 DEF InInbox
<1>11. CASE MaintenanceEnds
  <2>1. UNCHANGED <<nextTurn, nextStep, snd, pendingWakes, drv>> /\ cnl' = StaleCancels
    BY <1>11 DEF MaintenanceEnds, inboxVars
  <2>2. Clearing => Clearing'  BY <2>1, StaleKeepsClearing
  <2> QED  BY <1>1, <2>1, <2>2 DEF InInbox, Arriving
<1>12. CASE DriverExits
  <2>1. /\ UNCHANGED <<nextTurn, nextStep, snd>> /\ cnl' = StaleCancels
        /\ pendingWakes' \subseteq pendingWakes
        /\ drv.pc \in {"endErr", "exitErr"} => pendingWakes' = {}
    BY <1>12 DEF DriverExits, inboxVars
  <2>2. Clearing => Clearing'  BY <2>1, StaleKeepsClearing
  <2>3. \A m : Arriving(m) => Arriving(m)'  BY <2>1 DEF Arriving
  <2>4. InInbox' = InInbox  BY <2>1 DEF InInbox
  <2> QED  BY <2>1, <2>2, <2>3, <2>4 DEF PlacedInv
<1>13. CASE DriverStep /\ ~DriverExits
  <2>1. /\ UNCHANGED <<snd, cnl>> /\ pendingWakes' \subseteq pendingWakes
        /\ \/ drv'.pc \in {"endErr", "exitErr"}
           \/ /\ drv.pc \notin {"endErr", "exitErr"}
              /\ pendingWakes' \cap InInbox \subseteq InInbox'
    BY <1>13, DriverPlaces
  <2> QED  BY <1>2, <2>1 DEF PlacedInv
<1>14. CASE SendStep  BY <1>3, <1>4, <1>5, <1>7, <1>14 DEF SendStep
<1> QED  BY <1>8, <1>9, <1>10, <1>11, <1>12, <1>13, <1>14 DEF Next, MaintenanceStep

\* Whoever wakes the driver starts one or finds an activity that will look at
\* the wakes again.
LEMMA WakeAttends ==
    ASSUME Exclusion, Counted, NEW after, WakeDriver(after), UNCHANGED <<tasks, cancels>>,
           tasks = 0 \/ cancels = 0
    PROVE  phase'.kind = "running" \/ (phase'.kind = "maintenance" /\ phase'.wakeRequested)
<1>0. phase \in [kind : Kinds, ctx : Ctx, wakeRequested : BOOLEAN] /\ tasks \in Nat /\ cancels \in Nat
  BY DEF Exclusion, TypeOK
<1>1. CASE Busy /\ phase' = [phase EXCEPT !.wakeRequested = @ \/ Latches(after)]
  <2>1. CASE phase.kind = "maintenance"
    <3>1. ~Disposed  BY <1>0, <2>1 DEF Counted, Disposed
    <3>2. Latches(after)  BY <2>1, <3>1 DEF Latches
    <3> QED  BY <1>0, <1>1, <2>1, <3>2
  <2>2. CASE phase.kind = "running"  BY <1>0, <1>1, <2>2
  <2> QED  BY <1>0, <1>1, <2>1, <2>2 DEF Busy, Kinds
<1>2. CASE phase' = Phase("running")  BY <1>2 DEF Phase
<1> QED  BY <1>1, <1>2 DEF WakeDriver

\* Every step leaves each registered wake with somebody who attends to it.
LEMMA AttendedStep ==
    ASSUME Exclusion, Counted, PlacedInv, AttendedInv, [Next]_vars  PROVE AttendedInv'
<1>0. TypeOK /\ rewakes \in Nat /\ tasks \in Nat /\ cancels \in Nat
      /\ phase \in [kind : Kinds, ctx : Ctx, wakeRequested : BOOLEAN]
  BY DEF Exclusion, TypeOK
<1>1. ASSUME tasks' = 0 \/ cancels' = 0 => tasks = 0 \/ cancels = 0,
             Coming => Coming', \A m \in pendingWakes' : Arriving(m) => Arriving(m)' \/ Coming',
             pendingWakes' \subseteq pendingWakes,
             phase'.kind = phase.kind /\ phase'.wakeRequested = phase.wakeRequested
      PROVE  AttendedInv'
  BY <1>1 DEF AttendedInv
<1>2. ASSUME Coming'  PROVE AttendedInv'  BY <1>2 DEF AttendedInv
<1>3. ASSUME NEW s \in Senders, NEW m \in Messages, NEW target \in Targets, NEW wakeup \in BOOLEAN,
             SendBegins(s, m, target, wakeup)
      PROVE  AttendedInv'
  <2>1. UNCHANGED <<phase, rewakes, cnl, tasks, cancels>> /\ snd[s].pc = "idle"
    BY <1>3 DEF SendBegins
  <2> DEFINE v == [pc |-> "splice", msg |-> m, wakeup |-> wakeup,
                   after |-> WakingAfterAbort(wakeup),
                   target |-> IF WakingAfterAbort(wakeup) THEN "nextTurn" ELSE target]
  <2>2. snd' = [snd EXCEPT ![s] = v]
    BY <1>3 DEF SendBegins
  <2>3. snd'[s] = v  BY <1>0, <2>2 DEF TypeOK
  <2>4. wakeup => Arriving(m)'  BY <2>3 DEF Arriving
  <2>5. (\A n : Arriving(n) => Arriving(n)') /\ (Coming => Coming')
    <3> HIDE DEF v
    <3>1. \A n : Arriving(n) => Arriving(n)'  BY <1>0, <2>1, <2>2, ArrivingOthers
    <3>2. \A t \in Senders : snd[t].pc = "wake" => snd'[t].pc = "wake"
      BY <1>0, <2>1, <2>2 DEF TypeOK
    <3> QED  BY <2>1, <3>1, <3>2 DEF Coming, Clearing
  <2>6. pendingWakes' = IF wakeup THEN pendingWakes \cup {m} ELSE pendingWakes
    BY <1>3 DEF SendBegins
  <2> QED  BY <2>1, <2>4, <2>5, <2>6 DEF AttendedInv
<1>4. ASSUME NEW s \in Senders, SendSplices(s)  PROVE AttendedInv'
  <2>1. UNCHANGED <<phase, pendingWakes, rewakes, cnl, tasks, cancels>> /\ snd[s].pc = "splice"
    BY <1>4 DEF SendSplices, boundVars
  <2>2. CASE snd[s].wakeup
    <3>1. snd'[s].pc = "wake"
      <4>1. snd[s] \in Sends  BY <1>0, <2>1 DEF TypeOK, NoSend
      <4>2. snd' = [snd EXCEPT ![s].pc = "wake"]  BY <1>4, <2>2 DEF SendSplices
      <4> QED  BY <1>0, <4>1, <4>2 DEF TypeOK, Sends
    <3> QED  BY <1>2, <3>1 DEF Coming
  <2>3. CASE ~snd[s].wakeup
    <3>1. snd' = [snd EXCEPT ![s] = NoSend]  BY <1>4, <2>3 DEF SendSplices
    <3>2. \A n : Arriving(n) => Arriving(n)'  BY <1>0, <2>3, <3>1, ArrivingOthers
    <3>3. \A t \in Senders : snd[t].pc = "wake" => snd'[t].pc = "wake"
      BY <1>0, <2>1, <3>1 DEF TypeOK
    <3>4. Coming => Coming'  BY <2>1, <3>3 DEF Coming, Clearing
    <3> QED  BY <1>1, <2>1, <3>2, <3>4
  <2> QED  BY <2>2, <2>3
<1>5. ASSUME NEW s \in Senders, SendRefused(s)  PROVE AttendedInv'
  <2>1. UNCHANGED <<phase, rewakes, cnl, tasks, cancels>> /\ snd[s].pc = "splice"
        /\ pendingWakes' = pendingWakes \ {snd[s].msg}
    BY <1>5 DEF SendRefused, boundVars
  <2>2. snd' = [snd EXCEPT ![s] = NoSend]  BY <1>5 DEF SendRefused
  <2>3. \A n : Arriving(n) /\ n # snd[s].msg => Arriving(n)'  BY <1>0, <2>2, ArrivingOthers
  <2>4. \A t \in Senders : snd[t].pc = "wake" => snd'[t].pc = "wake"
    BY <1>0, <2>1, <2>2 DEF TypeOK
  <2>5. Coming => Coming'  BY <2>1, <2>4 DEF Coming, Clearing
  <2> QED  BY <1>1, <2>1, <2>3, <2>5
<1>6. ASSUME NEW after, WakeDriver(after), UNCHANGED <<tasks, cancels>>  PROVE AttendedInv'
  BY <1>6, WakeAttends DEF AttendedInv
<1>7. ASSUME NEW s \in Senders, SendWakes(s)  PROVE AttendedInv'
  BY <1>6, <1>7 DEF SendWakes, boundVars
<1>8. CASE Rewake  BY <1>6, <1>8 DEF Rewake, boundVars
<1>9. CASE CancelStep
  <2>1. PICK c \in Cancelers :
          \/ \E keep \in KeepInbox : CancelBegins(c, keep)
          \/ CancelLocks(c) \/ CancelAborts(c)
    BY <1>9 DEF CancelStep
  <2>2. CASE \E keep \in KeepInbox : CancelBegins(c, keep)
    <3>1. cnl'[c].pc = "lock"  BY <1>0, <2>2 DEF CancelBegins, TypeOK
    <3> QED  BY <1>2, <3>1 DEF Coming, Clearing
  <2>3. CASE CancelLocks(c)
    <3>1. pendingWakes' = {}  BY <2>3 DEF CancelLocks
    <3> QED  BY <3>1 DEF AttendedInv
  <2>4. CASE CancelAborts(c)
    <3>1. /\ UNCHANGED <<snd, pendingWakes, rewakes, tasks, cancels>> /\ cnl[c].pc = "cancel"
          /\ cnl' = [cnl EXCEPT ![c] = NoCancel]
      BY <2>4 DEF CancelAborts, boundVars
    <3>2. Clearing => Clearing'
      BY <1>0, <3>1 DEF Clearing, TypeOK
    <3>3. phase'.kind = phase.kind /\ phase'.wakeRequested = phase.wakeRequested
      BY <1>0, <2>4 DEF CancelAborts
    <3> QED  BY <1>1, <3>1, <3>2, <3>3 DEF Arriving, Coming
  <2> QED  BY <2>1, <2>2, <2>3, <2>4
<1>10. CASE RunMaintenance
  <2>1. /\ UNCHANGED <<snd, pendingWakes, rewakes, cnl, cancels>> /\ tasks' = tasks + 1
        /\ phase.kind = "idle"
    BY <1>10 DEF RunMaintenance
  <2>2. (Coming <=> Coming') /\ \A m : Arriving(m) <=> Arriving(m)'
    BY <2>1 DEF Coming, Clearing, Arriving
  <2>3. tasks' = 0 \/ cancels' = 0 => cancels = 0  BY <1>0, <2>1
  <2> QED  BY <2>1, <2>2, <2>3 DEF AttendedInv
<1>11. CASE TaskReturns \/ UNCHANGED vars
  <2>1. UNCHANGED <<snd, pendingWakes, rewakes, cnl, tasks, cancels>>
    BY <1>11 DEF TaskReturns, vars, boundVars
  <2>2. phase'.kind = phase.kind /\ phase'.wakeRequested = phase.wakeRequested
    BY <1>0, <1>11 DEF TaskReturns, vars
  <2> QED  BY <1>1, <2>1, <2>2 DEF Coming, Clearing, Arriving
<1>12. CASE MaintenanceEnds
  <2>1. /\ UNCHANGED <<snd, pendingWakes, tasks, cancels>> /\ cnl' = StaleCancels
        /\ rewakes' = rewakes + IF phase.wakeRequested /\ HasPending THEN 1 ELSE 0
    BY <1>12 DEF MaintenanceEnds, boundVars
  <2>2. phase.kind = "maintenance" /\ drv.pc = "none"
    BY <1>12 DEF MaintenanceEnds, Exclusion, OneActivity
  <2>3. rewakes > 0 => rewakes' > 0  BY <1>0, <2>1
  <2>4. (Clearing => Clearing') /\ \A m : Arriving(m) <=> Arriving(m)'
    BY <2>1, StaleKeepsClearing DEF Arriving
  <2>5. Coming => Coming'  BY <2>1, <2>3, <2>4 DEF Coming
  <2>6. ASSUME NEW m \in pendingWakes, phase.wakeRequested  PROVE Coming' \/ Arriving(m)'
    <3>1. m \in InInbox \/ Arriving(m) \/ Clearing  BY <2>2 DEF PlacedInv
    <3>2. m \in InInbox => HasPending
      BY EmptyOnce DEF InInbox, HasPending
    <3>3. HasPending => rewakes' > 0  BY <1>0, <2>1, <2>6
    <3> QED  BY <2>4, <3>1, <3>2, <3>3 DEF Coming
  <2> QED  BY <2>1, <2>2, <2>4, <2>5, <2>6 DEF AttendedInv
<1>13. CASE DriverExits
  <2>1. /\ UNCHANGED <<snd, tasks, cancels>> /\ cnl' = StaleCancels
        /\ drv.pc \in {"exit", "exitErr"}
        /\ pendingWakes' = IF drv.pc = "exitErr" THEN {} ELSE pendingWakes
        /\ rewakes' = rewakes + IF Replay(pendingWakes') THEN 1 ELSE 0
    BY <1>13 DEF DriverExits, boundVars
  <2>2. (Clearing => Clearing') /\ \A m : Arriving(m) <=> Arriving(m)'
    BY <2>1, StaleKeepsClearing DEF Arriving
  <2>3. ASSUME NEW m \in pendingWakes'  PROVE Coming' \/ Arriving(m)'
    <3>1. m \in InInbox \/ Arriving(m) \/ Clearing  BY <2>1, <2>3 DEF PlacedInv
    <3>2. m \in InInbox => HasPending
      BY EmptyOnce DEF InInbox, HasPending
    <3>3. HasPending => rewakes' > 0  BY <1>0, <2>1, <2>3 DEF Replay
    <3> QED  BY <2>2, <3>1, <3>2, <3>3 DEF Coming
  <2> QED  BY <2>3 DEF AttendedInv
<1>14. CASE DriverStep /\ ~DriverExits
  <2>1. phase'.kind = "running"  BY <1>14, DriverPlaces
  <2> QED  BY <2>1 DEF AttendedInv
<1>15. CASE SendStep  BY <1>3, <1>4, <1>5, <1>7, <1>15 DEF SendStep
<1> QED  BY <1>8, <1>9, <1>10, <1>11, <1>12, <1>13, <1>14, <1>15 DEF Next, MaintenanceStep

\* A send that loses the race with the closing turn, with a maintenance task or
\* with another driver's exit still finds a driver: an agent at rest has no
\* message in its inbox whose wake is still owed, unless both a task ran and a
\* Cancel came.  (A Cancel, a rejection, a failed or aborted activity and a
\* refused retry take wakes back, and those messages park.)
THEOREM NoWakeIsParked == Spec => []NoParkedWake
<1>1. Init => WakeInv
  <2> SUFFICES ASSUME Init  PROVE Counted /\ PlacedInv /\ AttendedInv
    BY ExclusionInit DEF WakeInv
  <2>1. pendingWakes = {} /\ phase = Idle /\ \A c \in Cancelers : cnl[c].pc = "idle"
    BY DEF Init, NoCancel
  <2> QED  BY <2>1 DEF Counted, PlacedInv, AttendedInv, Idle
<1>2. WakeInv /\ [Next]_vars => WakeInv'
  BY ExclusionStep, CountedStep, PlacedStep, AttendedStep DEF WakeInv
<1>3. WakeInv => NoParkedWake
  <2> SUFFICES ASSUME WakeInv, Quiet, tasks = 0 \/ cancels = 0, NEW m \in pendingWakes  PROVE FALSE
    BY DEF NoParkedWake
  <2>1. rewakes = 0 /\ ~Arriving(m) /\ ~Clearing /\ ~Coming /\ phase.kind = "idle"
    BY DEF Quiet, Arriving, Clearing, Coming
  <2> QED  BY <2>1 DEF WakeInv, AttendedInv
<1> QED  BY <1>1, <1>2, <1>3, PTL DEF Spec
=============================================================================
