------------------------ MODULE ToolScheduler_proofs -------------------------
(***************************************************************************)
(* Machine-checked proofs about ToolScheduler, for every number of calls,  *)
(* every pool size and every number of registry changes and panics.        *)
(***************************************************************************)
EXTENDS ToolScheduler, FiniteSetTheorems, SequenceTheorems, TLAPS

-----------------------------------------------------------------------------
(* Type correctness.                                                       *)

\* The state of the scheduler starts in its type.
LEMMA TypeInit == Init => TypeOK
<1> SUFFICES ASSUME Init  PROVE TypeOK  OBVIOUS
<1>1. log \in Seq([type : {"tool/call", "tool/result", "skipped"}, call : Calls])
  BY EmptySeq DEF Init
<1>2. sch \in [pc : Pcs, mode : Modes, aborted : BOOLEAN, next : 0 .. NumCalls,
              last : 0 .. NumCalls, started : 0 .. NumCalls, committed : 0 .. NumCalls]
  BY SchedulerAssumption DEF Init, Modes, Pcs
<1>3. /\ read \in [Calls -> Modes \cup {"unread"}]
      /\ body \in [Calls -> {"none", "running", "posted", "panicked", "settled"}]
  BY DEF Init
<1> QED  BY <1>1, <1>2, <1>3 DEF Init, TypeOK

\* An event of a call is one the log may hold.
LEMMA EventType ==
    ASSUME NEW t \in {"tool/call", "tool/result", "skipped"}, NEW i \in Calls
    PROVE  Event(t, i) \in [type : {"tool/call", "tool/result", "skipped"}, call : Calls]
BY DEF Event

\* The type of the driver goroutine's record, as TypeOK has it.
SchedulerRecord ==
    [pc : Pcs, mode : Modes, aborted : BOOLEAN, next : 0 .. NumCalls,
     last : 0 .. NumCalls, started : 0 .. NumCalls, committed : 0 .. NumCalls]

\* The record keeps its type when its counts move within the message.
LEMMA RecordMoves ==
    ASSUME NEW r \in SchedulerRecord, NEW c \in 0 .. NumCalls, NEW p \in Pcs
    PROVE  /\ [r EXCEPT !.started = c] \in SchedulerRecord
           /\ [r EXCEPT !.committed = c] \in SchedulerRecord
           /\ [r EXCEPT !.pc = p, !.started = c] \in SchedulerRecord
BY DEF SchedulerRecord

\* The record keeps its type when the scheduler moves on.
LEMMA GotoType ==
    ASSUME TypeOK, NEW p \in Pcs, Goto(p)
    PROVE  sch' \in SchedulerRecord
BY DEF TypeOK, Goto, SchedulerRecord

\* An answer of the scheduler itself is for a call that has started.
AnswersStarted == sch.pc = "answer" => sch.started > 0

\* Every step of the scheduler and of its environment keeps every variable in its type.
LEMMA TypeStep == TypeOK /\ AnswersStarted /\ [Next]_vars => TypeOK'
<1> SUFFICES ASSUME TypeOK, AnswersStarted, [Next]_vars  PROVE TypeOK'  OBVIOUS
<1> DEFINE Logged == [type : {"tool/call", "tool/result", "skipped"}, call : Calls]
<1> USE SchedulerAssumption DEF TypeOK
<1>1. CASE Abort  BY <1>1 DEF Abort, boundVars
<1>2. ASSUME NEW i \in Calls, ChangeMode(i)  PROVE TypeOK'
  BY <1>2 DEF ChangeMode, Modes
<1>3. ASSUME NEW i \in Calls, BodyStep(i)  PROVE TypeOK'
  BY <1>3 DEF BodyStep, BodyReturns, BodyPanics, boundVars
<1>4. CASE Classify
  <2>1. sch.next + 1 \in Calls  BY <1>4 DEF Classify, Calls
  <2>2. mode[sch.next + 1] \in Modes  BY <2>1
  <2>3. read' \in [Calls -> Modes \cup {"unread"}]  BY <1>4, <2>2 DEF Classify
  <2>4. sch' \in [pc : Pcs, mode : Modes, aborted : BOOLEAN, next : 0 .. NumCalls,
                  last : 0 .. NumCalls, started : 0 .. NumCalls, committed : 0 .. NumCalls]
    BY <1>4, <2>1, <2>2 DEF Classify, Calls, Pcs
  <2> QED  BY <1>4, <2>3, <2>4 DEF Classify, boundVars
<1>5. CASE AllConsumed \/ FillStops \/ DrainEnds \/ GroupAborted \/ SkipEnds
  <2>1. /\ \E p \in Pcs : Goto(p)
        /\ UNCHANGED <<mode, read, signal, body, log, boundVars>>
    BY <1>5 DEF AllConsumed, FillStops, DrainEnds, AfterDrain, GroupAborted, SkipEnds, Pcs, Over
  <2>2. sch' \in SchedulerRecord  BY <2>1, GotoType
  <2> QED  BY <2>1, <2>2 DEF SchedulerRecord, boundVars
<1>6. CASE StartCall
  <2>1. sch.started + 1 \in Calls  BY <1>6 DEF StartCall, MayStart, Calls
  <2>2. log' \in Seq(Logged)  BY <1>6, <2>1, EventType, AppendProperties DEF StartCall
  <2>3. mode[sch.started + 1] \in Modes  BY <2>1
  <2>4. read' \in [Calls -> Modes \cup {"unread"}]  BY <1>6, <2>3 DEF StartCall
  <2>5. sch' \in SchedulerRecord
    <3>1. sch' = [sch EXCEPT !.pc = "prepare", !.started = sch.started + 1]
      BY <1>6 DEF StartCall
    <3>2. "prepare" \in Pcs /\ sch.started + 1 \in 0 .. NumCalls  BY <2>1 DEF Pcs, Calls
    <3> QED  BY <3>1, <3>2, RecordMoves DEF SchedulerRecord
  <2> QED  BY <1>6, <2>2, <2>4, <2>5 DEF StartCall, SchedulerRecord, boundVars
<1>7. CASE PrepareDispatches \/ PrepareSettles
  BY <1>7 DEF PrepareDispatches, PrepareSettles, Goto, Pcs, boundVars
<1>8. CASE Commit
  <2>1. sch.committed + 1 \in Calls  BY <1>8 DEF Commit, Ready, Calls
  <2>2. log' \in Seq(Logged)
    BY <1>8, <2>1, EventType, AppendProperties DEF Commit, CommitIndex
  <2>3. sch' \in SchedulerRecord
    <3>1. sch' = [sch EXCEPT !.committed = sch.committed + 1]  BY <1>8 DEF Commit
    <3>2. "commit" \in Pcs /\ sch.committed + 1 \in 0 .. NumCalls  BY <2>1 DEF Pcs, Calls
    <3> QED  BY <3>1, <3>2, RecordMoves DEF SchedulerRecord
  <2> QED  BY <1>8, <2>2, <2>3 DEF Commit, SchedulerRecord, boundVars
<1>9. CASE CommitStops  BY <1>9 DEF CommitStops, Pcs, boundVars
<1>10. ASSUME NEW i \in Calls, Receive(i) \/ ReceivePanic(i) \/ Drain(i)  PROVE TypeOK'
  <2>1. /\ body' = [body EXCEPT ![i] = "settled"]
        /\ sch' = sch \/ \E p \in Pcs : Goto(p)
        /\ UNCHANGED <<mode, read, signal, log, boundVars>>
    BY <1>10 DEF Receive, ReceivePanic, Drain, Pcs
  <2>2. sch' \in SchedulerRecord  BY <2>1, GotoType DEF SchedulerRecord
  <2> QED  BY <2>1, <2>2 DEF SchedulerRecord, boundVars
<1>11. CASE GroupEnds  BY <1>11 DEF GroupEnds, Pcs, Over, boundVars
<1>12. CASE SkipCall
  <2>1. sch.started + 1 \in Calls
    <3>1. sch.started \in 0 .. NumCalls /\ sch.started < NumCalls
      BY <1>12 DEF SkipCall, Unstarted
    <3> QED  BY ONLY <3>1, SchedulerAssumption DEF Calls
  <2>2. log' \in Seq(Logged)  BY <1>12, <2>1, EventType, AppendProperties DEF SkipCall
  <2>3. sch' \in SchedulerRecord
    <3>1. sch' = [sch EXCEPT !.pc = "answer", !.started = sch.started + 1]
      BY <1>12 DEF SkipCall
    <3>2. "answer" \in Pcs /\ sch.started + 1 \in 0 .. NumCalls  BY <2>1 DEF Pcs, Calls
    <3> QED  BY <3>1, <3>2, RecordMoves DEF SchedulerRecord
  <2> QED  BY <1>12, <2>2, <2>3 DEF SkipCall, SchedulerRecord, boundVars
<1>13. CASE SchedulerPanics
  <2>1. /\ Goto("panicked") /\ "panicked" \in Pcs /\ panics' = panics + 1
        /\ UNCHANGED <<mode, read, signal, body, log, changes>>
    BY <1>13 DEF SchedulerPanics, Pcs, Over
  <2>2. sch' \in SchedulerRecord  BY <2>1, GotoType
  <2> QED  BY <2>1, <2>2 DEF SchedulerRecord
<1>14. CASE UNCHANGED vars  BY <1>14 DEF vars, boundVars
<1>15. CASE SkipAnswer
  <2>0. sch.started \in Calls
    BY <1>15, SchedulerAssumption DEF SkipAnswer, AnswersStarted, Calls
  <2>1. log' \in Seq(Logged)  BY <1>15, <2>0, EventType, AppendProperties DEF SkipAnswer
  <2>2. sch' \in SchedulerRecord  BY <1>15, GotoType DEF SkipAnswer, Pcs
  <2> QED  BY <1>15, <2>1, <2>2 DEF SkipAnswer, SchedulerRecord, boundVars
<1> QED
  BY <1>1, <1>2, <1>3, <1>4, <1>5, <1>6, <1>7, <1>8, <1>9, <1>10, <1>11, <1>12, <1>13, <1>14,
     <1>15
  DEF Next, SchedulerStep, GroupStep

\* Before it answers a call itself, the scheduler has started it.
LEMMA AnswersStep == TypeOK /\ AnswersStarted /\ [Next]_vars => AnswersStarted'
<1> SUFFICES ASSUME TypeOK, AnswersStarted, [Next]_vars  PROVE AnswersStarted'  OBVIOUS
<1> USE DEF AnswersStarted
<1>1. CASE SkipCall
  <2>1. sch'.started = sch.started + 1 /\ sch.started \in Nat
    BY <1>1, SchedulerAssumption DEF SkipCall, TypeOK
  <2> QED  BY <2>1
<1>2. CASE Classify \/ StartCall
  <2>1. CASE Classify  BY <2>1 DEF Classify
  <2>2. CASE StartCall
    <3>1. sch' = [sch EXCEPT !.pc = "prepare", !.started = sch.started + 1]
      BY <2>2 DEF StartCall
    <3>2. sch'.pc = "prepare"  BY <3>1 DEF TypeOK
    <3> QED  BY <3>2
  <2> QED  BY <1>2, <2>1, <2>2
<1>8. CASE AllConsumed \/ PrepareDispatches \/ PrepareSettles
  BY <1>8 DEF AllConsumed, PrepareDispatches, PrepareSettles, Goto, TypeOK
<1>3. CASE Commit \/ CommitStops \/ FillStops \/ DrainEnds \/ GroupEnds
  BY <1>3 DEF Commit, CommitStops, FillStops, DrainEnds, AfterDrain, GroupEnds, Goto, TypeOK
<1>4. CASE GroupAborted \/ SkipAnswer \/ SkipEnds \/ SchedulerPanics
  BY <1>4 DEF GroupAborted, SkipAnswer, SkipEnds, SchedulerPanics, Goto, TypeOK
<1>5. ASSUME NEW i \in Calls, Receive(i) \/ ReceivePanic(i)  PROVE AnswersStarted'
  BY <1>5 DEF Receive, ReceivePanic, Goto, TypeOK
<1>6. ASSUME NEW i \in Calls, Drain(i) \/ ChangeMode(i) \/ BodyStep(i)  PROVE AnswersStarted'
  BY <1>6 DEF Drain, ChangeMode, BodyStep, BodyReturns, BodyPanics
<1>7. CASE Abort \/ UNCHANGED vars  BY <1>7 DEF Abort, vars
<1> QED
  BY <1>1, <1>2, <1>3, <1>4, <1>5, <1>6, <1>7, <1>8 DEF Next, SchedulerStep, GroupStep

\* Every reachable state of the scheduler is in its type: the counts of runGroup never
\* leave the message.
THEOREM SchedulerTyping == Spec => []TypeOK
<1>1. Init => AnswersStarted  BY DEF Init, AnswersStarted
<1> QED  BY <1>1, TypeInit, TypeStep, AnswersStep, PTL DEF Spec

-----------------------------------------------------------------------------
(* The counts of runGroup, the bodies they count, and the group's mode.    *)

InGroup  == {"fill", "prepare", "commit", "wait", "drain"}
Skipping == {"skip", "answer", "aborted"}

\* The group's calls are started in order and committed in order behind them.
CountsInv ==
    /\ sch.next <= sch.committed /\ sch.committed <= sch.started
    /\ sch.pc = "classify" => sch.started = sch.next
    /\ sch.pc \in {"prepare", "answer"} => sch.committed < sch.started
    /\ sch.pc = "done" => sch.committed = NumCalls
    /\ sch.pc = "aborted" => sch.started = NumCalls
    /\ sch.aborted => signal
    /\ sch.pc \in Skipping => sch.aborted

\* What a body may be doing, from where its call stands; between two commits the
\* next call in line has not settled.
BodyInv ==
    /\ \A i \in Calls : i <= sch.committed => body[i] = "settled"
    /\ \A i \in Calls : i > sch.started => body[i] = "none"
    /\ sch.pc = "prepare" => body[sch.started] = "none"
    /\ sch.pc \in InGroup =>
         \A i \in Calls : i < sch.started \/ (i = sch.started /\ sch.pc # "prepare")
                              => body[i] # "none"
    /\ sch.pc \in {"fill", "prepare", "wait"} => ~Ready
    /\ sch.pc \in Skipping => \A i \in Calls : i > sch.committed => body[i] = "none"
    /\ sch.pc \notin InGroup \cup {"panicked"} => InFlight = {}

\* While bodies may run, the group is what its first call was when it was read, and
\* every later call was read as parallel.
GroupInv ==
    sch.pc \in InGroup \/ InFlight # {} =>
        /\ sch.next < NumCalls
        /\ sch.started <= sch.last
        /\ sch.last = IF sch.mode = "parallel" THEN NumCalls ELSE sch.next + 1
        /\ read[sch.next + 1] = sch.mode
        /\ \A i \in Calls : sch.next + 1 < i /\ i <= sch.started => read[i] = "parallel"

SchedulerInv == TypeOK /\ CountsInv /\ BodyInv /\ GroupInv

\* When runGroup finds nothing in flight, it has committed every call it started: its
\* check that the two counts agree never fails.
LEMMA AllCommitted ==
    ASSUME SchedulerInv, sch.pc = "wait", Quiescent
    PROVE  sch.committed = sch.started
<1> USE SchedulerAssumption DEF SchedulerInv, TypeOK, Calls, InGroup
<1>1. SUFFICES ASSUME sch.committed < sch.started  PROVE FALSE  BY DEF CountsInv
<1>2. sch.committed + 1 \in Calls /\ sch.committed + 1 <= sch.started  BY <1>1
<1>3. body[sch.committed + 1] = "settled"  BY <1>2 DEF BodyInv, Quiescent, InFlight
<1>4. sch.started <= sch.last  BY DEF GroupInv
<1> QED  BY <1>1, <1>3, <1>4 DEF BodyInv, Ready

\* Every step keeps the counts, the bodies and the group in step with each other.
LEMMA SchedulerInvStep == SchedulerInv /\ [Next]_vars => SchedulerInv'
<1> SUFFICES ASSUME SchedulerInv, [Next]_vars  PROVE SchedulerInv'  OBVIOUS
<1>0. TypeOK'
  <2>1. AnswersStarted
    BY SchedulerAssumption DEF AnswersStarted, SchedulerInv, TypeOK, CountsInv
  <2> QED  BY <2>1, TypeStep DEF SchedulerInv
<1> USE SchedulerAssumption DEF SchedulerInv, TypeOK, CountsInv, BodyInv, Ready, InFlight,
        Calls, Modes, InGroup, Skipping, Over
<1>1. CASE Abort
  <2>1. CountsInv'  BY <1>1 DEF Abort
  <2>2. BodyInv'  BY <1>1 DEF Abort
  <2>3. GroupInv'  BY <1>1 DEF Abort, GroupInv
  <2> QED  BY <1>0, <2>1, <2>2, <2>3
<1>2. ASSUME NEW j \in Calls, ChangeMode(j)  PROVE SchedulerInv'
  <2>1. CountsInv'  BY <1>2 DEF ChangeMode
  <2>2. BodyInv'  BY <1>2 DEF ChangeMode
  <2>3. GroupInv'  BY <1>2 DEF ChangeMode, GroupInv
  <2> QED  BY <1>0, <2>1, <2>2, <2>3
<1>3. ASSUME NEW j \in Calls, BodyStep(j)  PROVE SchedulerInv'
  <2>0. /\ sch' = sch /\ signal' = signal /\ read' = read
        /\ body[j] = "running" /\ body'[j] \in {"posted", "panicked"}
        /\ \A i \in Calls : i # j => body'[i] = body[i]
    BY <1>3 DEF BodyStep, BodyReturns, BodyPanics
  <2>1. CountsInv'  BY <2>0
  <2>4. InFlight' = InFlight
    <3>1. \A i \in Calls : i \in InFlight' <=> i \in InFlight  BY <2>0
    <3> QED  BY <3>1
  <2>2. BodyInv'
    <3>1. Ready' <=> Ready
      <4>1. \A i \in Calls : body'[i] = "settled" <=> body[i] = "settled"  BY <2>0
      <4> QED  BY <2>0, <4>1
    <3>2. \A i \in Calls : /\ body'[i] = "settled" <=> body[i] = "settled"
                           /\ body'[i] = "none" <=> body[i] = "none"
      BY <2>0
    <3>3. sch.pc = "prepare" => sch.started \in Calls  OBVIOUS
    <3> QED  BY <2>0, <2>4, <3>1, <3>2, <3>3 DEF BodyInv
  <2>3. GroupInv'  BY <2>0, <2>4 DEF GroupInv
  <2> QED  BY <1>0, <2>1, <2>2, <2>3
<1>4. CASE Classify
  <2>1. CountsInv'  BY <1>4 DEF Classify
  <2>2. BodyInv'  BY <1>4 DEF Classify
  <2>3. GroupInv'  BY <1>4 DEF Classify, GroupInv
  <2> QED  BY <1>0, <2>1, <2>2, <2>3
<1>5. CASE AllConsumed
  <2>1. CountsInv'  BY <1>5 DEF AllConsumed, Goto
  <2>2. BodyInv'  BY <1>5 DEF AllConsumed, Goto
  <2>3. GroupInv'  BY <1>5 DEF AllConsumed, Goto, GroupInv
  <2> QED  BY <1>0, <2>1, <2>2, <2>3
<1>6. CASE FillStops
  <2>1. CountsInv'  BY <1>6 DEF FillStops, Goto
  <2>2. BodyInv'  BY <1>6 DEF FillStops, Goto
  <2>3. GroupInv'  BY <1>6 DEF FillStops, Goto, GroupInv
  <2> QED  BY <1>0, <2>1, <2>2, <2>3
<1>7. CASE DrainEnds
  <2>1. CountsInv'  BY <1>7 DEF DrainEnds, AfterDrain, Drained, Goto
  <2>2. BodyInv'  BY <1>7 DEF DrainEnds, AfterDrain, Drained, Goto
  <2>3. GroupInv'  BY <1>7 DEF DrainEnds, AfterDrain, Drained, Goto, GroupInv
  <2> QED  BY <1>0, <2>1, <2>2, <2>3
<1>8. CASE GroupAborted
  <2>0. sch.committed = sch.started  BY <1>8, AllCommitted DEF GroupAborted
  <2>1. CountsInv'  BY <1>8 DEF GroupAborted, Goto
  <2>2. BodyInv'  BY <1>8, <2>0 DEF GroupAborted, Quiescent, Goto
  <2>3. GroupInv'  BY <1>8 DEF GroupAborted, Quiescent, Goto, GroupInv
  <2> QED  BY <1>0, <2>1, <2>2, <2>3
<1>9. CASE SkipEnds
  <2>1. CountsInv'  BY <1>9 DEF SkipEnds, Unstarted, Goto
  <2>2. BodyInv'  BY <1>9 DEF SkipEnds, Unstarted, Goto
  <2>3. GroupInv'  BY <1>9 DEF SkipEnds, Unstarted, Goto, GroupInv
  <2> QED  BY <1>0, <2>1, <2>2, <2>3
<1>10. CASE StartCall
  <2>0. /\ sch.pc = "fill" /\ sch.started < sch.last /\ body' = body /\ signal' = signal
        /\ sch'.pc = "prepare" /\ sch'.started = sch.started + 1
        /\ sch'.next = sch.next /\ sch'.committed = sch.committed /\ sch'.last = sch.last
        /\ sch'.aborted = sch.aborted
    BY <1>10 DEF StartCall, MayStart
  <2>1. CountsInv'  BY <2>0
  <2>2. BodyInv'  BY <2>0
  <2>3. GroupInv'
    <3>1. /\ sch.next < NumCalls /\ sch.mode \in Modes
          /\ sch.last = IF sch.mode = "parallel" THEN NumCalls ELSE sch.next + 1
          /\ read[sch.next + 1] = sch.mode
          /\ \A i \in Calls : sch.next + 1 < i /\ i <= sch.started => read[i] = "parallel"
      BY <2>0 DEF GroupInv
    <3>2. sch'.mode = sch.mode  BY <1>10 DEF StartCall
    <3>3. sch.started + 1 \in Calls /\ sch.next + 1 \in Calls  BY <2>0, <3>1
    <3>4. sch.started > sch.next => mode[sch.started + 1] = "parallel"
      <4>1. ~Barrier(sch.started + 1)  BY <1>10 DEF StartCall, MayStart
      <4> QED  BY <2>0, <3>1, <4>1 DEF Barrier
    <3>5. /\ read'[sch.next + 1] = read[sch.next + 1]
          /\ \A i \in Calls : i # sch.started + 1 => read'[i] = read[i]
          /\ sch.started > sch.next => read'[sch.started + 1] = mode[sch.started + 1]
      <4>1. read' = [read EXCEPT ![sch.started + 1] =
                        IF sch.started + 1 = sch.next + 1 THEN @ ELSE mode[sch.started + 1]]
        BY <1>10 DEF StartCall
      <4>2. read \in [Calls -> Modes \cup {"unread"}] /\ sch.started \in Nat /\ sch.next \in Nat
        OBVIOUS
      <4> QED  BY ONLY <3>3, <4>1, <4>2
    <3>6. ASSUME NEW i \in Calls, sch.next + 1 < i, i <= sch.started + 1
          PROVE  read'[i] = "parallel"
      <4>1. CASE i = sch.started + 1  BY <3>3, <3>4, <3>5, <3>6, <4>1
      <4>2. CASE i # sch.started + 1  BY <3>1, <3>5, <3>6, <4>2
      <4> QED  BY <4>1, <4>2
    <3>7. sch'.started <= sch'.last  BY <2>0
    <3>8. read'[sch'.next + 1] = sch'.mode  BY <2>0, <3>1, <3>2, <3>5
    <3> QED  BY <2>0, <3>1, <3>2, <3>6, <3>7, <3>8 DEF GroupInv
  <2> QED  BY <1>0, <2>1, <2>2, <2>3
<1>11. CASE PrepareDispatches
  <2>1. CountsInv'  BY <1>11 DEF PrepareDispatches, Goto
  <2>2. BodyInv'  BY <1>11 DEF PrepareDispatches, Goto
  <2>3. GroupInv'  BY <1>11 DEF PrepareDispatches, Goto, GroupInv
  <2> QED  BY <1>0, <2>1, <2>2, <2>3
<1>12. CASE PrepareSettles
  <2>1. CountsInv'  BY <1>12 DEF PrepareSettles, Goto
  <2>2. BodyInv'  BY <1>12 DEF PrepareSettles, Goto
  <2>3. GroupInv'  BY <1>12 DEF PrepareSettles, Goto, GroupInv
  <2> QED  BY <1>0, <2>1, <2>2, <2>3
<1>13. CASE Commit
  <2>0. /\ sch.pc = "commit" /\ body' = body /\ signal' = signal
        /\ sch.committed < sch.last /\ body[sch.committed + 1] = "settled"
        /\ sch'.pc = "commit" /\ sch'.committed = sch.committed + 1
        /\ sch'.next = sch.next /\ sch'.started = sch.started /\ sch'.last = sch.last
        /\ sch'.aborted = sch.aborted
    BY <1>13 DEF Commit
  <2>4. sch.committed + 1 <= sch.started
    <3>1. sch.committed + 1 \in Calls  BY <2>0
    <3> QED  BY <2>0, <3>1
  <2>1. CountsInv'  BY <2>0, <2>4
  <2>2. BodyInv'  BY <2>0
  <2>3. GroupInv'  BY <1>13 DEF Commit, GroupInv
  <2> QED  BY <1>0, <2>1, <2>2, <2>3
<1>14. CASE CommitStops
  <2>1. CountsInv'  BY <1>14 DEF CommitStops
  <2>2. BodyInv'  BY <1>14 DEF CommitStops
  <2>3. GroupInv'  BY <1>14 DEF CommitStops, GroupInv
  <2> QED  BY <1>0, <2>1, <2>2, <2>3
<1>15. ASSUME NEW j \in Calls, Receive(j)  PROVE SchedulerInv'
  <2>1. CountsInv'  BY <1>15 DEF Receive, Goto
  <2>2. BodyInv'  BY <1>15 DEF Receive, Goto
  <2>3. GroupInv'  BY <1>15 DEF Receive, Goto, GroupInv
  <2> QED  BY <1>0, <2>1, <2>2, <2>3
<1>16. ASSUME NEW j \in Calls, ReceivePanic(j)  PROVE SchedulerInv'
  <2>1. CountsInv'  BY <1>16 DEF ReceivePanic, Goto
  <2>2. BodyInv'  BY <1>16 DEF ReceivePanic, Goto
  <2>3. GroupInv'  BY <1>16 DEF ReceivePanic, Goto, GroupInv
  <2> QED  BY <1>0, <2>1, <2>2, <2>3
<1>17. ASSUME NEW j \in Calls, Drain(j)  PROVE SchedulerInv'
  <2>1. CountsInv'  BY <1>17 DEF Drain
  <2>2. BodyInv'  BY <1>17 DEF Drain
  <2>3. GroupInv'  BY <1>17 DEF Drain, GroupInv
  <2> QED  BY <1>0, <2>1, <2>2, <2>3
<1>18. CASE GroupEnds
  <2>1. CountsInv'  BY <1>18 DEF GroupEnds, Quiescent
  <2>2. BodyInv'  BY <1>18 DEF GroupEnds, Quiescent
  <2>3. GroupInv'  BY <1>18 DEF GroupEnds, Quiescent, GroupInv
  <2> QED  BY <1>0, <2>1, <2>2, <2>3
<1>19. CASE SkipCall
  <2>0. /\ sch.pc = "skip" /\ body' = body /\ sch'.started = sch.started + 1
        /\ sch'.pc = "answer" /\ sch'.committed = sch.committed
    BY <1>19 DEF SkipCall
  <2>1. CountsInv'  BY <1>19 DEF SkipCall, Unstarted
  <2>2. BodyInv'  BY <2>0
  <2>3. GroupInv'  BY <1>19 DEF SkipCall, Unstarted, GroupInv
  <2> QED  BY <1>0, <2>1, <2>2, <2>3
<1>22. CASE SkipAnswer
  <2>1. CountsInv'  BY <1>22 DEF SkipAnswer, Goto
  <2>2. BodyInv'  BY <1>22 DEF SkipAnswer, Goto
  <2>3. GroupInv'  BY <1>22 DEF SkipAnswer, Goto, GroupInv
  <2> QED  BY <1>0, <2>1, <2>2, <2>3
<1>20. CASE SchedulerPanics
  <2>1. CountsInv'  BY <1>20 DEF SchedulerPanics, Goto
  <2>2. BodyInv'  BY <1>20 DEF SchedulerPanics, Goto
  <2>3. GroupInv'  BY <1>20 DEF SchedulerPanics, Goto, GroupInv
  <2> QED  BY <1>0, <2>1, <2>2, <2>3
<1>21. CASE UNCHANGED vars
  <2>1. CountsInv'  BY <1>21 DEF vars, boundVars
  <2>2. BodyInv'  BY <1>21 DEF vars, boundVars
  <2>3. GroupInv'  BY <1>21 DEF vars, boundVars, GroupInv
  <2> QED  BY <1>0, <2>1, <2>2, <2>3
<1> QED
  BY <1>1, <1>2, <1>3, <1>4, <1>5, <1>6, <1>7, <1>8, <1>9, <1>10, <1>11, <1>12, <1>13,
     <1>14, <1>15, <1>16, <1>17, <1>18, <1>19, <1>20, <1>21, <1>22
     DEF Next, SchedulerStep, GroupStep

\* The counts, the bodies and the group agree before the first group begins.
LEMMA SchedulerInvInit == Init => SchedulerInv
<1> SUFFICES ASSUME Init  PROVE SchedulerInv  OBVIOUS
<1>1. /\ sch.pc = "classify" /\ sch.aborted = FALSE /\ sch.next = 0
      /\ sch.started = 0 /\ sch.committed = 0
      /\ \A i \in Calls : body[i] = "none" /\ i > 0
  BY SchedulerAssumption DEF Init, Calls
<1>2. InFlight = {}  BY <1>1 DEF InFlight
<1>3. CountsInv  BY <1>1 DEF CountsInv, Skipping
<1>4. BodyInv  BY <1>1, <1>2 DEF BodyInv, InGroup, Skipping, Calls
<1>5. GroupInv  BY <1>1, <1>2 DEF GroupInv, InGroup
<1> QED  BY <1>3, <1>4, <1>5, TypeInit DEF SchedulerInv

\* The inductive invariant holds in every reachable state.
LEMMA SchedulerInvHolds == Spec => []SchedulerInv
BY SchedulerInvInit, SchedulerInvStep, PTL DEF Spec

\* When the scheduler returns without having panicked itself, no tool body is running:
\* the step that called it can close (runGroup's waits, drainFailure).
THEOREM NothingRunsOn == Spec => []DrainedOnReturn
<1>1. SchedulerInv => DrainedOnReturn
  BY DEF SchedulerInv, BodyInv, DrainedOnReturn, Over, InGroup
<1> QED  BY <1>1, SchedulerInvHolds, PTL

-----------------------------------------------------------------------------
(* The pool.                                                               *)

\* The pool has room for the call that is being prepared.
RoomInv ==
    /\ Cardinality(InFlight) <= MaxParallel
    /\ sch.pc = "prepare" => Cardinality(InFlight) < MaxParallel

\* The calls in flight are finitely many.
LEMMA InFlightFinite == /\ IsFiniteSet(InFlight) /\ Cardinality(InFlight) \in Nat
                        /\ IsFiniteSet(InFlight') /\ Cardinality(InFlight') \in Nat
<1>1. IsFiniteSet(Calls)  BY SchedulerAssumption, FS_Interval DEF Calls
<1>2. InFlight \subseteq Calls /\ InFlight' \subseteq Calls  BY DEF InFlight
<1> QED  BY <1>1, <1>2, FS_Subset, FS_CardinalityType

\* One more element adds at most one.
LEMMA AddsOne ==
    ASSUME NEW S, NEW x, IsFiniteSet(S)
    PROVE  Cardinality(S \cup {x}) <= Cardinality(S) + 1
<1>1. Cardinality(S) \in Nat  BY FS_CardinalityType
<1>2. Cardinality(S \cup {x}) \in {Cardinality(S), Cardinality(S) + 1}  BY FS_AddElement
<1> QED  BY <1>1, <1>2

\* A step that dispatches nothing leaves the pool as it was, or smaller.
LEMMA RoomShrinks ==
    ASSUME RoomInv, InFlight' \subseteq InFlight, sch'.pc = "prepare" => sch.pc = "prepare" \/ HasRoom
    PROVE  RoomInv'
<1>1. Cardinality(InFlight') <= Cardinality(InFlight)  BY InFlightFinite, FS_Subset
<1> QED  BY <1>1, InFlightFinite, SchedulerAssumption DEF RoomInv, HasRoom

\* No step takes the pool over its cap.
LEMMA RoomStep == SchedulerInv /\ RoomInv /\ [Next]_vars => RoomInv'
<1> SUFFICES ASSUME SchedulerInv, RoomInv, [Next]_vars  PROVE RoomInv'  OBVIOUS
<1> USE DEF SchedulerInv, TypeOK
<1>1. CASE PrepareDispatches
  <2>1. sch.started \in Calls  BY <1>1, SchedulerAssumption DEF PrepareDispatches, CountsInv, Calls
  <2>2. InFlight' = InFlight \cup {sch.started} /\ sch'.pc = "commit"
    BY <1>1, <2>1 DEF PrepareDispatches, Goto, InFlight
  <2>3. Cardinality(InFlight') <= Cardinality(InFlight) + 1
    <3>1. Cardinality(InFlight \cup {sch.started}) <= Cardinality(InFlight) + 1
      BY InFlightFinite, AddsOne
    <3> QED  BY <3>1, <2>2
  <2> QED  BY <1>1, <2>2, <2>3, InFlightFinite, SchedulerAssumption DEF RoomInv, PrepareDispatches
<1>2. CASE StartCall
  <2>1. HasRoom /\ InFlight' = InFlight  BY <1>2 DEF StartCall, MayStart, InFlight
  <2> QED  BY <2>1, RoomShrinks
<1>3. ASSUME NEW j \in Calls,
             BodyStep(j) \/ Receive(j) \/ ReceivePanic(j) \/ Drain(j) \/ ChangeMode(j)
      PROVE  RoomInv'
  <2>1. InFlight' \subseteq InFlight /\ (sch'.pc = "prepare" => sch.pc = "prepare")
    BY <1>3 DEF BodyStep, BodyReturns, BodyPanics, Receive, ReceivePanic, Drain, ChangeMode, Goto,
              InFlight
  <2> QED  BY <2>1, RoomShrinks
<1>4. CASE Abort \/ Classify \/ AllConsumed \/ Commit \/ CommitStops \/ FillStops \/ DrainEnds
           \/ GroupEnds \/ GroupAborted \/ SkipCall \/ SkipAnswer \/ SkipEnds \/ SchedulerPanics
           \/ UNCHANGED vars
  <2>1. body' = body
    BY <1>4 DEF Abort, Classify, AllConsumed, Commit, CommitStops, FillStops, DrainEnds, GroupEnds,
           GroupAborted, SkipCall, SkipAnswer, SkipEnds, SchedulerPanics, vars
  <2>2. sch'.pc = "prepare" => sch.pc = "prepare"
    <3>1. CASE Abort \/ UNCHANGED vars  BY <3>1 DEF Abort, vars
    <3>2. CASE Classify \/ Commit  BY <3>2 DEF Classify, Commit
    <3>5. CASE SkipCall
      <4>1. sch' = [sch EXCEPT !.pc = "answer", !.started = sch.started + 1]
        BY <3>5 DEF SkipCall
      <4> QED  BY ONLY <4>1, TypeOK DEF TypeOK
    <3>4. CASE CommitStops \/ GroupEnds  BY <3>4 DEF CommitStops, GroupEnds
    <3>3. CASE AllConsumed \/ FillStops \/ DrainEnds \/ GroupAborted \/ SkipAnswer \/ SkipEnds
               \/ SchedulerPanics
      BY <3>3 DEF AllConsumed, FillStops, DrainEnds, AfterDrain, GroupAborted, SkipAnswer, SkipEnds,
                  SchedulerPanics, Goto
    <3> QED  BY <1>4, <3>1, <3>2, <3>3, <3>4, <3>5
  <2>3. InFlight' = InFlight  BY <2>1 DEF InFlight
  <2> QED  BY <2>2, <2>3, RoomShrinks
<1>5. CASE PrepareSettles
  <2>1. InFlight' \subseteq InFlight /\ sch'.pc = "commit"
    BY <1>5 DEF PrepareSettles, Goto, InFlight
  <2> QED  BY <2>1, RoomShrinks
<1> QED  BY <1>1, <1>2, <1>3, <1>4, <1>5 DEF Next, SchedulerStep, GroupStep

\* A call that was exclusive when the scheduler last looked runs alone.
LEMMA ExclusiveAlone ==
    SchedulerInv => \A i \in InFlight : read[i] = "exclusive" => InFlight = {i}
<1> SUFFICES ASSUME SchedulerInv, NEW i \in InFlight, read[i] = "exclusive"  PROVE InFlight = {i}
  OBVIOUS
<1> USE DEF SchedulerInv, TypeOK, Calls
<1>1. ASSUME NEW k \in InFlight  PROVE k \in Calls /\ sch.next < k /\ k <= sch.started
  <2>1. k \in Calls /\ body[k] # "settled" /\ body[k] # "none"  BY DEF InFlight
  <2>2. sch.committed < k /\ k <= sch.started  BY <2>1, SchedulerAssumption DEF BodyInv
  <2> QED  BY <2>1, <2>2, SchedulerAssumption DEF CountsInv
<1>2. /\ sch.started <= sch.last /\ read[sch.next + 1] = sch.mode
      /\ sch.last = IF sch.mode = "parallel" THEN NumCalls ELSE sch.next + 1
      /\ \A k \in Calls : sch.next + 1 < k /\ k <= sch.started => read[k] = "parallel"
  BY DEF GroupInv
<1>3. i = sch.next + 1  BY <1>1, <1>2, SchedulerAssumption
<1>4. sch.last = sch.next + 1  BY <1>2, <1>3
<1>5. \A k \in InFlight : k = i  BY <1>1, <1>2, <1>3, <1>4, SchedulerAssumption
<1> QED  BY <1>5

\* The bounded rolling pool: at no time do more than MaxParallel bodies run, and a call
\* read as exclusive runs alone, whatever the registry does meanwhile (fillPool's
\* second classification, the barrier groups of executeToolCalls).
THEOREM PoolKeepsItsDiscipline == Spec => []PoolDiscipline
<1>1. Init => RoomInv
  <2> SUFFICES ASSUME Init  PROVE RoomInv  OBVIOUS
  <2>1. InFlight = {} /\ sch.pc = "classify"  BY DEF Init, InFlight
  <2> QED  BY <2>1, FS_EmptySet, SchedulerAssumption DEF RoomInv
<1>2. SchedulerInv /\ RoomInv => PoolDiscipline  BY ExclusiveAlone DEF RoomInv, PoolDiscipline
<1> QED  BY <1>1, <1>2, SchedulerInvHolds, RoomStep, PTL DEF Spec

-----------------------------------------------------------------------------
(* The log.                                                                *)

\* What the log holds, as TypeOK has it.
Logged == [type : {"tool/call", "tool/result", "skipped"}, call : Calls]

\* The last call that is answered: a skipped call is answered right after it starts.
Top == IF sch.pc \notin Skipping THEN sch.committed
       ELSE IF sch.pc = "answer" THEN sch.started - 1 ELSE sch.started

\* The order of the message, for any log.
InOrder(s) ==
    \A q \in DOMAIN s :
        /\ \A p \in 1 .. q - 1 :
              (s[p].type = "tool/call" <=> s[q].type = "tool/call") => s[p].call < s[q].call
        /\ s[q].type # "tool/call" => \E p \in 1 .. q - 1 : s[p] = Event("tool/call", s[q].call)

\* The log holds the calls 1 .. n and the answers of 1 .. m, in order, each answer behind
\* its call; a skipped call is one past c.
Holds(s, n, m, c) ==
    /\ \A q \in DOMAIN s : IF s[q].type = "tool/call" THEN s[q].call <= n ELSE s[q].call <= m
    /\ \A i \in Calls : i <= n => \E q \in DOMAIN s : s[q] = Event("tool/call", i)
    /\ \A i \in Calls : i <= m => \E q \in DOMAIN s : s[q].type # "tool/call" /\ s[q].call = i
    /\ \A q \in DOMAIN s : s[q].type = "skipped" => s[q].call > c
    /\ InOrder(s)

\* The log matches the scheduler's counts, unless it panicked (between the two appends
\* of a skipped call, for one), and only an aborted scheduler skips calls.
LogInv ==
    /\ InOrder(log)
    /\ sch.pc # "panicked" =>
          /\ Holds(log, sch.started, Top, sch.committed)
          /\ \A q \in DOMAIN log : log[q].type = "skipped" => sch.pc \in Skipping

\* What Append does to a log.
LEMMA LogAppend ==
    ASSUME NEW s \in Seq(Logged), NEW e \in Logged
    PROVE  /\ Len(s) \in Nat /\ DOMAIN s = 1 .. Len(s) /\ DOMAIN Append(s, e) = 1 .. Len(s) + 1
           /\ Append(s, e)[Len(s) + 1] = e
           /\ \A p \in 1 .. Len(s) : Append(s, e)[p] = s[p]
           /\ \A p \in DOMAIN s : s[p] \in Logged
           /\ Append(s, e) \in Seq(Logged)
<1>1. /\ Append(s, e) \in Seq(Logged) /\ Len(Append(s, e)) = Len(s) + 1
      /\ \A p \in 1 .. Len(s) : Append(s, e)[p] = s[p]
      /\ Append(s, e)[Len(s) + 1] = e
  BY AppendProperties
<1>2. Len(s) \in Nat /\ DOMAIN s = 1 .. Len(s) /\ \A p \in 1 .. Len(s) : s[p] \in Logged
  BY LenProperties, ElementOfSeq
<1>3. DOMAIN Append(s, e) = 1 .. Len(Append(s, e))  BY <1>1, LenProperties
<1> QED  BY <1>1, <1>2, <1>3

\* A log in order stays in order behind a call or an answer that is later than all others
\* of its kind, and has its call in the log when it is an answer.
LEMMA OrderGrows ==
    ASSUME NEW s \in Seq(Logged), NEW e \in Logged, InOrder(s),
           \A p \in DOMAIN s :
              (s[p].type = "tool/call" <=> e.type = "tool/call") => s[p].call < e.call,
           e.type # "tool/call" => \E p \in DOMAIN s : s[p] = Event("tool/call", e.call)
    PROVE  InOrder(Append(s, e))
<1> DEFINE t == Append(s, e)
<1>1. /\ Len(s) \in Nat /\ DOMAIN s = 1 .. Len(s) /\ DOMAIN t = 1 .. Len(s) + 1
      /\ t[Len(s) + 1] = e /\ \A p \in 1 .. Len(s) : t[p] = s[p]
  BY LogAppend
<1> HIDE DEF t
<1> SUFFICES ASSUME NEW q \in DOMAIN t
             PROVE  /\ \A p \in 1 .. q - 1 :
                          (t[p].type = "tool/call" <=> t[q].type = "tool/call")
                              => t[p].call < t[q].call
                    /\ t[q].type # "tool/call"
                          => \E p \in 1 .. q - 1 : t[p] = Event("tool/call", t[q].call)
  BY DEF InOrder, t
<1>2. CASE q = Len(s) + 1
  <2>1. \A p \in 1 .. q - 1 : p \in DOMAIN s /\ t[p] = s[p]  BY <1>1, <1>2
  <2>2. \A p \in DOMAIN s : p \in 1 .. q - 1  BY <1>1, <1>2
  <2> QED  BY <1>1, <1>2, <2>1, <2>2
<1>3. CASE q \in DOMAIN s
  <2>1. t[q] = s[q] /\ \A p \in 1 .. q - 1 : t[p] = s[p]  BY <1>1, <1>3
  <2> QED  BY <1>3, <2>1 DEF InOrder
<1> QED  BY <1>1, <1>2, <1>3

\* The next call enters the log.
LEMMA CallGrows ==
    ASSUME NEW s \in Seq(Logged), NEW n \in Nat, NEW m \in Nat, NEW c \in Nat,
           Holds(s, n, m, c), n + 1 \in Calls
    PROVE  Holds(Append(s, Event("tool/call", n + 1)), n + 1, m, c)
<1> DEFINE e == Event("tool/call", n + 1)
           t == Append(s, e)
<1>1. e \in Logged /\ e.type = "tool/call" /\ e.call = n + 1  BY EventType DEF Event, Logged
<1>2. /\ Len(s) \in Nat /\ DOMAIN s = 1 .. Len(s) /\ DOMAIN t = 1 .. Len(s) + 1
      /\ t[Len(s) + 1] = e /\ \A p \in 1 .. Len(s) : t[p] = s[p]
      /\ \A p \in DOMAIN s : s[p] \in Logged
  BY <1>1, LogAppend
<1>3. InOrder(t)
  <2>1. \A p \in DOMAIN s : s[p].type = "tool/call" => s[p].call < n + 1
    BY <1>2 DEF Holds, Logged, Calls
  <2> QED  BY <1>1, <2>1, OrderGrows DEF Holds
<1> HIDE DEF e, t
<1>4. ASSUME NEW i \in Calls, i <= n + 1  PROVE \E q \in DOMAIN t : t[q] = Event("tool/call", i)
  <2>1. CASE i = n + 1  BY <1>2, <2>1 DEF e
  <2>2. CASE i # n + 1
    <3>1. i <= n  BY <1>4, <2>2 DEF Calls
    <3>2. PICK q \in DOMAIN s : s[q] = Event("tool/call", i)  BY <3>1 DEF Holds
    <3> QED  BY <1>2, <3>2
  <2> QED  BY <2>1, <2>2
<1>5. ASSUME NEW i \in Calls, i <= m
      PROVE  \E q \in DOMAIN t : t[q].type # "tool/call" /\ t[q].call = i
  <2>1. PICK q \in DOMAIN s : s[q].type # "tool/call" /\ s[q].call = i  BY <1>5 DEF Holds
  <2> QED  BY <1>2, <2>1
<1>6. \A q \in DOMAIN t : IF t[q].type = "tool/call" THEN t[q].call <= n + 1 ELSE t[q].call <= m
  <2>1. \A q \in DOMAIN s : IF s[q].type = "tool/call" THEN s[q].call <= n + 1 ELSE s[q].call <= m
    BY <1>2 DEF Holds, Logged, Calls
  <2> QED  BY <1>1, <1>2, <2>1
<1>7. \A q \in DOMAIN t : t[q].type = "skipped" => t[q].call > c  BY <1>1, <1>2 DEF Holds
<1> QED  BY <1>3, <1>4, <1>5, <1>6, <1>7 DEF Holds, t, e

\* The answer of the next call enters the log.
LEMMA AnswerGrows ==
    ASSUME NEW s \in Seq(Logged), NEW n \in Nat, NEW m \in Nat, NEW c \in Nat, NEW d \in Nat,
           NEW type \in {"tool/result", "skipped"},
           Holds(s, n, m, c), m + 1 \in Calls, m + 1 <= n,
           \A q \in DOMAIN s : s[q].type = "skipped" => s[q].call > d,
           type = "skipped" => m + 1 > d
    PROVE  Holds(Append(s, Event(type, m + 1)), n, m + 1, d)
<1> DEFINE e == Event(type, m + 1)
           t == Append(s, e)
<1>1. e \in Logged /\ e.type = type /\ e.type # "tool/call" /\ e.call = m + 1
  BY EventType DEF Event, Logged
<1>2. /\ Len(s) \in Nat /\ DOMAIN s = 1 .. Len(s) /\ DOMAIN t = 1 .. Len(s) + 1
      /\ t[Len(s) + 1] = e /\ \A p \in 1 .. Len(s) : t[p] = s[p]
      /\ \A p \in DOMAIN s : s[p] \in Logged
  BY <1>1, LogAppend
<1>3. InOrder(t)
  <2>1. \A p \in DOMAIN s : s[p].type # "tool/call" => s[p].call < m + 1
    BY <1>2 DEF Holds, Logged, Calls
  <2>2. \E p \in DOMAIN s : s[p] = Event("tool/call", m + 1)  BY DEF Holds
  <2> QED  BY <1>1, <2>1, <2>2, OrderGrows DEF Holds
<1> HIDE DEF e, t
<1>4. ASSUME NEW i \in Calls, i <= n  PROVE \E q \in DOMAIN t : t[q] = Event("tool/call", i)
  <2>1. PICK q \in DOMAIN s : s[q] = Event("tool/call", i)  BY <1>4 DEF Holds
  <2> QED  BY <1>2, <2>1
<1>5. ASSUME NEW i \in Calls, i <= m + 1
      PROVE  \E q \in DOMAIN t : t[q].type # "tool/call" /\ t[q].call = i
  <2>1. CASE i = m + 1  BY <1>1, <1>2, <2>1
  <2>2. CASE i # m + 1
    <3>1. i <= m  BY <1>5, <2>2 DEF Calls
    <3>2. PICK q \in DOMAIN s : s[q].type # "tool/call" /\ s[q].call = i  BY <3>1 DEF Holds
    <3> QED  BY <1>2, <3>2
  <2> QED  BY <2>1, <2>2
<1>6. \A q \in DOMAIN t : IF t[q].type = "tool/call" THEN t[q].call <= n ELSE t[q].call <= m + 1
  <2>1. \A q \in DOMAIN s : IF s[q].type = "tool/call" THEN s[q].call <= n ELSE s[q].call <= m + 1
    BY <1>2 DEF Holds, Logged, Calls
  <2> QED  BY <1>1, <1>2, <2>1
<1>7. \A q \in DOMAIN t : t[q].type = "skipped" => t[q].call > d  BY <1>1, <1>2
<1> QED  BY <1>3, <1>4, <1>5, <1>6, <1>7 DEF Holds, t, e

\* Every step keeps the log in the order of the message.
LEMMA LogStep == SchedulerInv /\ LogInv /\ [Next]_vars => LogInv'
<1> SUFFICES ASSUME SchedulerInv, LogInv, [Next]_vars  PROVE LogInv'  OBVIOUS
<1> USE SchedulerAssumption DEF SchedulerInv, TypeOK
<1>0. /\ log \in Seq(Logged) /\ sch.started \in Nat /\ sch.committed \in Nat
      /\ DOMAIN log = 1 .. Len(log) /\ Len(log) \in Nat
  BY LenProperties DEF Logged
<1>1. CASE StartCall
  <2>1. sch.started + 1 \in Calls  BY <1>1 DEF StartCall, MayStart, Calls
  <2>2. /\ sch'.started = sch.started + 1 /\ sch'.committed = sch.committed
        /\ sch.pc \notin Skipping \cup {"panicked"} /\ sch'.pc \notin Skipping
        /\ log' = Append(log, Event("tool/call", sch.started + 1))
    BY <1>1 DEF StartCall, Skipping
  <2>3. Top = sch.committed /\ Top' = sch.committed  BY <2>2 DEF Top
  <2>4. Holds(log', sch.started + 1, sch.committed, sch.committed)
    BY <1>0, <2>1, <2>2, <2>3, CallGrows DEF LogInv
  <2>5. \A q \in DOMAIN log' : log'[q].type # "skipped"
    <3>1. Event("tool/call", sch.started + 1) \in Logged
      BY <2>1, EventType DEF Logged
    <3>2. \A q \in DOMAIN log : log[q].type # "skipped"  BY <2>2 DEF LogInv
    <3> QED  BY <1>0, <2>2, <3>1, <3>2, LogAppend DEF Event
  <2> QED  BY <2>2, <2>3, <2>4, <2>5 DEF LogInv, Holds
<1>2. CASE Commit
  <2>1. sch.committed + 1 \in Calls /\ sch.committed + 1 <= sch.started
    <3>1. sch.committed + 1 \in Calls /\ body[sch.committed + 1] = "settled"
      BY <1>2 DEF Commit, Ready, Calls
    <3> QED  BY <3>1 DEF BodyInv, Calls
  <2>2. /\ sch'.started = sch.started /\ sch'.committed = sch.committed + 1
        /\ sch.pc \notin Skipping \cup {"panicked"} /\ sch'.pc \notin Skipping
        /\ log' = Append(log, Event("tool/result", sch.committed + 1))
    BY <1>2 DEF Commit, CommitIndex, Skipping
  <2>3. Top = sch.committed /\ Top' = sch.committed + 1  BY <2>2 DEF Top
  <2>4. \A q \in DOMAIN log : log[q].type # "skipped"  BY <2>2 DEF LogInv
  <2>5. Holds(log', sch.started, sch.committed + 1, sch.committed + 1)
    <3>1. Holds(log, sch.started, sch.committed, sch.committed)  BY <2>2, <2>3 DEF LogInv
    <3>2. sch.committed + 1 \in Nat /\ "tool/result" # "skipped"  BY <1>0
    <3>3. Holds(Append(log, Event("tool/result", sch.committed + 1)), sch.started,
                sch.committed + 1, sch.committed + 1)
      BY ONLY AnswerGrows, <1>0, <2>1, <2>4, <3>1, <3>2
    <3> QED  BY <2>2, <3>3
  <2>6. \A q \in DOMAIN log' : log'[q].type # "skipped"
    <3>1. Event("tool/result", sch.committed + 1) \in Logged  BY <2>1, EventType DEF Logged
    <3> QED  BY <1>0, <2>2, <2>4, <3>1, LogAppend DEF Event
  <2> QED  BY <2>2, <2>3, <2>5, <2>6 DEF LogInv, Holds
<1>3. CASE SkipCall
  <2>1. sch.started + 1 \in Calls  BY <1>3 DEF SkipCall, Unstarted, Calls
  <2>2. /\ sch'.started = sch.started + 1 /\ sch'.committed = sch.committed
        /\ sch.pc = "skip" /\ sch'.pc = "answer"
        /\ log' = Append(log, Event("tool/call", sch.started + 1))
    BY <1>3 DEF SkipCall
  <2>3. Top = sch.started /\ Top' = sch.started  BY <1>0, <2>2 DEF Top, Skipping
  <2>4. Holds(log', sch.started + 1, sch.started, sch.committed)
    BY <1>0, <2>1, <2>2, <2>3, CallGrows DEF LogInv
  <2>5. sch'.pc # "panicked" /\ sch'.pc \in Skipping  BY <2>2 DEF Skipping
  <2>6. Holds(log', sch'.started, Top', sch'.committed)  BY <2>2, <2>3, <2>4
  <2>7. InOrder(log')  BY <2>4 DEF Holds
  <2> QED  BY <2>5, <2>6, <2>7 DEF LogInv
<1>13. CASE SkipAnswer
  <2> DEFINE m == sch.started - 1
  <2>1. m \in Nat /\ m + 1 = sch.started /\ m + 1 \in Calls /\ sch.started > sch.committed
    BY <1>0, <1>13 DEF SkipAnswer, CountsInv, Calls
  <2>2. /\ sch'.started = sch.started /\ sch'.committed = sch.committed
        /\ sch.pc = "answer" /\ sch'.pc = "skip"
        /\ log' = Append(log, Event("skipped", m + 1))
    BY <1>13, <2>1 DEF SkipAnswer, Goto
  <2>3. Top = m /\ Top' = m + 1  BY <2>1, <2>2 DEF Top, Skipping
  <2>4. Holds(log, sch.started, m, sch.committed)  BY <2>2, <2>3 DEF LogInv
  <2> HIDE DEF m
  <2>5. Holds(log', sch.started, m + 1, sch.committed)
    <3>1. \A q \in DOMAIN log : log[q].type = "skipped" => log[q].call > sch.committed
      BY <2>4 DEF Holds
    <3>2. m + 1 <= sch.started /\ m + 1 > sch.committed  BY <1>0, <2>1
    <3>3. Holds(Append(log, Event("skipped", m + 1)), sch.started, m + 1, sch.committed)
      BY ONLY AnswerGrows, <1>0, <2>1, <2>4, <3>1, <3>2
    <3> QED  BY <2>2, <3>3
  <2> QED  BY <2>2, <2>3, <2>5 DEF LogInv, Holds, Skipping
<1>4. ASSUME log' = log, sch.pc # "panicked", sch'.started = sch.started, Top' = Top,
             sch'.committed = sch.committed, sch.pc \in Skipping => sch'.pc \in Skipping
      PROVE  LogInv'
  BY <1>4 DEF LogInv
<1>5. CASE Classify
  BY <1>4, <1>5 DEF Classify, CountsInv, Top, Skipping
<1>6. CASE GroupAborted
  <2>1. sch.committed = sch.started  BY <1>6, AllCommitted DEF SchedulerInv, GroupAborted
  <2> QED  BY <1>4, <1>6, <2>1 DEF GroupAborted, Goto, Top, Skipping
<1>7. CASE GroupEnds  BY <1>4, <1>7 DEF GroupEnds, Top, Skipping
<1>8. CASE CommitStops \/ PrepareDispatches \/ PrepareSettles \/ AllConsumed \/ FillStops
  BY <1>4, <1>8 DEF CommitStops, PrepareDispatches, PrepareSettles, AllConsumed, FillStops, Goto,
                    Top, Skipping
<1>9. CASE DrainEnds \/ SkipEnds
  BY <1>4, <1>9 DEF DrainEnds, AfterDrain, SkipEnds, Goto, Top, Skipping
<1>14. CASE SchedulerPanics
  BY <1>14 DEF SchedulerPanics, Goto, LogInv
<1>10. ASSUME NEW j \in Calls, Receive(j) \/ ReceivePanic(j)  PROVE LogInv'
  BY <1>4, <1>10 DEF Receive, ReceivePanic, Goto, Top, Skipping
<1>11. ASSUME NEW j \in Calls, Drain(j) \/ ChangeMode(j) \/ BodyStep(j)  PROVE LogInv'
  <2>1. log' = log /\ sch' = sch
    BY <1>11 DEF Drain, ChangeMode, BodyStep, BodyReturns, BodyPanics
  <2> QED  BY <2>1 DEF LogInv, Top
<1>12. CASE Abort \/ UNCHANGED vars
  <2>1. log' = log /\ sch' = sch  BY <1>12 DEF Abort, vars
  <2> QED  BY <2>1 DEF LogInv, Top
<1> QED
  BY <1>1, <1>2, <1>3, <1>5, <1>6, <1>7, <1>8, <1>9, <1>10, <1>11, <1>12, <1>13, <1>14
     DEF Next, SchedulerStep, GroupStep

\* The log is empty before the first call.
LEMMA LogInit == Init => LogInv
<1> SUFFICES ASSUME Init  PROVE LogInv  OBVIOUS
<1>1. log = <<>> /\ sch.started = 0 /\ sch.committed = 0 /\ Top = 0
  BY DEF Init, Top, Skipping
<1>2. DOMAIN log = {}  BY <1>1
<1>3. \A i \in Calls : ~(i <= 0)  BY SchedulerAssumption DEF Calls
<1>4. InOrder(log)  BY <1>2 DEF InOrder
<1>5. Holds(log, 0, 0, 0)  BY <1>2, <1>3, <1>4 DEF Holds
<1> QED  BY <1>1, <1>2, <1>4, <1>5 DEF LogInv

\* The log agrees with the counts in every reachable state.
LEMMA LogInvHolds == Spec => []LogInv
BY LogInit, LogStep, SchedulerInvHolds, PTL DEF Spec

\* Whichever body returns first, calls and answers enter the log in the order of the
\* message and no answer comes before its call (commitReady).
THEOREM LogIsInModelOrder == Spec => []InModelOrder
<1>1. LogInv => InModelOrder  BY DEF LogInv, InOrder, InModelOrder
<1> QED  BY <1>1, LogInvHolds, PTL

\* executeToolCalls returns, done or aborted, only with an answer for every call.
THEOREM EveryCallIsAnswered == Spec => []AllAnswered
<1>1. SchedulerInv /\ LogInv => AllAnswered
  <2> SUFFICES ASSUME SchedulerInv, LogInv, sch.pc \in {"done", "aborted"}
               PROVE  Answered = Calls
    BY DEF AllAnswered
  <2>1. Top = NumCalls
    BY SchedulerAssumption DEF SchedulerInv, TypeOK, CountsInv, Top, Skipping
  <2>2. \A i \in Calls : \E q \in DOMAIN log : log[q].type # "tool/call" /\ log[q].call = i
    BY <2>1, SchedulerAssumption DEF LogInv, Holds, Calls
  <2>3. \A q \in DOMAIN log : log[q].call \in Calls
    <3>1. log \in Seq(Logged)  BY DEF SchedulerInv, TypeOK, Logged
    <3>2. \A q \in DOMAIN log : log[q] \in Logged  BY <3>1, ElementOfSeq, LenProperties
    <3> QED  BY <3>2 DEF Logged
  <2> QED  BY <2>2, <2>3 DEF Answered
<1> QED  BY <1>1, SchedulerInvHolds, LogInvHolds, PTL

\* What the scheduler answered itself stands behind the results of every body that ran,
\* in an aborted step where nothing runs any more.
FabInv ==
    /\ NoFabrication
    /\ \A q \in DOMAIN log : log[q].type = "skipped" =>
          sch.pc \in Skipping \cup {"panicked"} /\ InFlight = {}

\* The counts and the log say so wherever the scheduler has not panicked.
LEMMA FabHere == SchedulerInv /\ LogInv /\ sch.pc # "panicked" => FabInv
<1> SUFFICES ASSUME SchedulerInv, LogInv, sch.pc # "panicked",
                    NEW q \in DOMAIN log, log[q].type = "skipped"
             PROVE  /\ signal /\ sch.pc # "failed" /\ body[log[q].call] = "none"
                    /\ \A i \in Calls : body[i] # "none" =>
                          \E p \in 1 .. q - 1 : log[p] = Event("tool/result", i)
                    /\ sch.pc \in Skipping \cup {"panicked"} /\ InFlight = {}
  BY DEF FabInv, NoFabrication
<1>1. sch.pc \in Skipping  BY DEF LogInv
<1>2. Holds(log, sch.started, Top, sch.committed)  BY DEF LogInv
<1>3. log \in Seq(Logged) /\ DOMAIN log = 1 .. Len(log) /\ Len(log) \in Nat
  BY LenProperties DEF SchedulerInv, TypeOK, Logged
<1>4. \A p \in DOMAIN log : log[p] \in Logged  BY <1>3, ElementOfSeq
<1>5. log[q].call \in Calls /\ log[q].call > sch.committed
  BY <1>2, <1>4 DEF Holds, Logged
<1>6. body[log[q].call] = "none"
  BY <1>1, <1>5 DEF SchedulerInv, BodyInv
<1>7. signal  BY <1>1 DEF SchedulerInv, CountsInv
<1>8. InFlight = {}
  BY <1>1 DEF SchedulerInv, BodyInv, Skipping, InGroup
<1>9. ASSUME NEW i \in Calls, body[i] # "none"
      PROVE  \E p \in 1 .. q - 1 : log[p] = Event("tool/result", i)
  <2>1. sch.committed \in Nat /\ sch.started \in Nat /\ Top \in Int /\ sch.committed <= Top
    BY <1>1, SchedulerAssumption DEF SchedulerInv, TypeOK, CountsInv, Top, Skipping
  <2>2. i \in Nat  BY SchedulerAssumption DEF Calls
  <2>3. i <= sch.committed  BY <1>1, <1>9, <2>1, <2>2 DEF SchedulerInv, BodyInv
  <2>4. i <= Top  BY <2>1, <2>2, <2>3
  <2>5. PICK p \in DOMAIN log : log[p].type # "tool/call" /\ log[p].call = i
    BY <1>2, <2>4 DEF Holds
  <2>6. log[p].type # "skipped"
    <3>1. log[p].type = "skipped" => log[p].call > sch.committed  BY <1>2 DEF Holds
    <3> QED  BY <2>1, <2>2, <2>3, <2>5, <3>1
  <2>7. log[p] = Event("tool/result", i)
    BY <1>4, <2>5, <2>6 DEF Logged, Event
  <2>8. p < q
    <3>1. i < log[q].call
      BY <1>5, <2>1, <2>2, <2>3, SchedulerAssumption DEF Calls
    <3>2. \A r \in 1 .. p - 1 : log[r].type # "tool/call" => log[r].call < i
      BY <1>2, <2>5 DEF Holds, InOrder
    <3>3. p \in Nat /\ q \in Nat /\ q >= 1 /\ p # q
      BY <1>3, <2>5, <3>1, SchedulerAssumption, <1>5 DEF Calls
    <3>4. ~(q \in 1 .. p - 1)
      <4>1. q \in 1 .. p - 1 => log[q].call < i  BY <3>2
      <4>2. log[q].call \in Nat  BY <1>5, SchedulerAssumption DEF Calls
      <4> QED  BY <2>2, <3>1, <4>1, <4>2
    <3> QED  BY <3>3, <3>4
  <2> QED  BY <1>3, <2>7, <2>8
<1> QED  BY <1>1, <1>6, <1>7, <1>8, <1>9 DEF Skipping

\* Nothing is logged on the way into a panic nor behind it, and only a body that is in
\* flight goes on.
LEMMA PanicsOnly ==
    ASSUME TypeOK, [Next]_vars, sch'.pc = "panicked"
    PROVE  log' = log /\ (signal => signal') /\ (body' = body \/ InFlight # {})
<1>1. CASE Abort \/ UNCHANGED vars  BY <1>1 DEF Abort, vars
<1>2. CASE SchedulerPanics  BY <1>2 DEF SchedulerPanics
<1>3. ASSUME NEW i \in Calls, ChangeMode(i) \/ BodyStep(i)
      PROVE  log' = log /\ (signal => signal') /\ (body' = body \/ InFlight # {})
  <2>1. log' = log /\ signal' = signal
    BY <1>3 DEF ChangeMode, BodyStep, BodyReturns, BodyPanics
  <2>2. body' = body \/ body[i] = "running"
    BY <1>3 DEF ChangeMode, BodyStep, BodyReturns, BodyPanics
  <2>3. body[i] = "running" => i \in InFlight  BY DEF InFlight
  <2> QED  BY <2>1, <2>2, <2>3
<1>4. ~SchedulerStep
  <2>1. CASE Classify \/ CommitStops
    <3>1. CASE Classify
      <4>1. sch'.pc = "fill"  BY <3>1 DEF Classify
      <4> QED  BY <4>1
    <3>2. CASE CommitStops
      <4>1. sch' = [sch EXCEPT !.pc = "fill", !.aborted = @ \/ signal]
        BY <3>2 DEF CommitStops
      <4>2. sch'.pc = "fill"  BY ONLY <4>1, TypeOK DEF TypeOK
      <4> QED  BY <4>2
    <3> QED  BY <2>1, <3>1, <3>2
  <2>8. CASE GroupEnds
    <3>1. CASE sch.committed # sch.started
      <4>1. sch' = [sch EXCEPT !.pc = "failed"]  BY <2>8, <3>1 DEF GroupEnds
      <4> QED  BY ONLY <4>1, TypeOK, sch'.pc = "panicked" DEF TypeOK
    <3>2. CASE sch.committed = sch.started
      <4>1. sch' = [sch EXCEPT !.pc = "classify", !.next = sch.started]
        BY <2>8, <3>2 DEF GroupEnds
      <4> QED  BY ONLY <4>1, TypeOK, sch'.pc = "panicked" DEF TypeOK
    <3> QED  BY <3>1, <3>2
  <2>2. CASE AllConsumed \/ PrepareDispatches \/ PrepareSettles \/ FillStops
    BY <2>2 DEF AllConsumed, PrepareDispatches, PrepareSettles, FillStops, Goto, TypeOK
  <2>3. CASE DrainEnds \/ GroupAborted \/ SkipAnswer \/ SkipEnds
    BY <2>3 DEF DrainEnds, AfterDrain, GroupAborted, SkipAnswer, SkipEnds, Goto, TypeOK
  <2>4. CASE StartCall
    <3>1. sch' = [sch EXCEPT !.pc = "prepare", !.started = sch.started + 1]
      BY <2>4 DEF StartCall
    <3> QED  BY ONLY <3>1, TypeOK, sch'.pc = "panicked" DEF TypeOK
  <2>5. CASE SkipCall
    <3>1. sch' = [sch EXCEPT !.pc = "answer", !.started = sch.started + 1]
      BY <2>5 DEF SkipCall
    <3> QED  BY ONLY <3>1, TypeOK, sch'.pc = "panicked" DEF TypeOK
  <2>6. CASE Commit
    <3>1. sch.pc = "commit" /\ sch' = [sch EXCEPT !.committed = @ + 1]  BY <2>6 DEF Commit
    <3> QED  BY ONLY <3>1, TypeOK, sch'.pc = "panicked" DEF TypeOK
  <2>7. ASSUME NEW i \in Calls, Receive(i) \/ ReceivePanic(i) \/ Drain(i)  PROVE FALSE
    BY <2>7 DEF Receive, ReceivePanic, Drain, Goto, TypeOK
  <2> QED
    BY <2>1, <2>2, <2>3, <2>4, <2>5, <2>6, <2>7, <2>8 DEF SchedulerStep, GroupStep
<1> QED  BY <1>1, <1>2, <1>3, <1>4 DEF Next

\* A panic of the scheduler, behind which it takes no step, leaves its answers as they are.
LEMMA FabPanics == TypeOK /\ FabInv /\ [Next]_vars /\ sch'.pc = "panicked" => FabInv'
<1> SUFFICES ASSUME TypeOK, FabInv, [Next]_vars, sch'.pc = "panicked",
                    NEW q \in DOMAIN log', log'[q].type = "skipped"
             PROVE  /\ signal' /\ body'[log'[q].call] = "none"
                    /\ \A i \in Calls : body'[i] # "none" =>
                          \E p \in 1 .. q - 1 : log'[p] = Event("tool/result", i)
                    /\ InFlight' = {}
  BY DEF FabInv, NoFabrication
<1>1. log' = log /\ (signal => signal') /\ (body' = body \/ InFlight # {})  BY PanicsOnly
<1>2. body' = body /\ InFlight = {}  BY <1>1 DEF FabInv
<1>3. InFlight' = InFlight  BY <1>2 DEF InFlight
<1> QED  BY <1>1, <1>2, <1>3 DEF FabInv, NoFabrication

\* The scheduler answers a call itself only in an aborted step, only when its body never
\* ran, and behind the results of all that did; where a body's failure was drained it
\* answers none (runGroup, drainFailure, appendSkippedToolCall).
THEOREM NothingIsFabricated == Spec => []NoFabrication
<1>1. Init => FabInv
  <2> SUFFICES ASSUME Init  PROVE FabInv  OBVIOUS
  <2>1. DOMAIN log = {}  BY DEF Init
  <2> QED  BY <2>1 DEF FabInv, NoFabrication
<1>2. SchedulerInv => TypeOK  BY DEF SchedulerInv
<1>3. (SchedulerInv /\ LogInv /\ sch.pc # "panicked" => FabInv)'
  BY FabHere, PTL
<1>4. /\ SchedulerInv /\ SchedulerInv' /\ LogInv' /\ FabInv /\ [Next]_vars
      => FabInv'
  BY <1>2, <1>3, FabPanics
<1>5. FabInv => NoFabrication  BY DEF FabInv
<1> QED  BY <1>1, <1>4, <1>5, SchedulerInvHolds, LogInvHolds, PTL DEF Spec
=============================================================================
