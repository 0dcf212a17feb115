---------------------- MODULE SessionWriteBehind_proofs ----------------------
(***************************************************************************)
(* Machine-checked proofs about SessionWriteBehind, for every number of    *)
(* events, appenders, flush callers, write goroutines and failures.        *)
(***************************************************************************)
EXTENDS SessionWriteBehind, SequenceTheorems, FiniteSetTheorems, TLAPS

-----------------------------------------------------------------------------
(* Facts about the operators the actions are built from.                   *)

\* What Batch(lo, hi) is: the events from lo up to hi - 1, in order.
LEMMA BatchFacts ==
    ASSUME NEW lo \in Nat, NEW hi \in Nat, lo <= hi, hi <= MaxEvents
    PROVE  /\ Batch(lo, hi) \in Seq(Events)
           /\ Len(Batch(lo, hi)) = hi - lo
           /\ \A i \in 1 .. hi - lo : Batch(lo, hi)[i] = lo + i - 1
<1>1. MaxEvents \in Nat  BY WriteBehindAssumption
<1>2. hi - lo \in Nat  OBVIOUS
<1>3. Batch(lo, hi) \in [1 .. hi - lo -> Events]  BY <1>1 DEF Batch, Events
<1>4. /\ DOMAIN Batch(lo, hi) = 1 .. hi - lo
      /\ \A i \in 1 .. hi - lo : Batch(lo, hi)[i] = lo + i - 1
  BY DEF Batch
<1>5. Batch(lo, hi) \in Seq(Events)  BY <1>2, <1>3, IsASeq
<1> HIDE DEF Batch
<1>6. Len(Batch(lo, hi)) = hi - lo
  <2>1. DOMAIN Batch(lo, hi) = 1 .. Len(Batch(lo, hi)) /\ Len(Batch(lo, hi)) \in Nat
    BY <1>5, LenProperties
  <2> QED  BY <2>1, <1>4, <1>2
<1> QED  BY <1>4, <1>5, <1>6

\* A batch of no events is the empty sequence.
LEMMA EmptyBatch ==
    ASSUME NEW lo \in Nat
    PROVE  Batch(lo, lo + 0) = <<>>
BY DEF Batch

\* Extending the stored prefix by the batch that starts at its end is a longer prefix.
LEMMA PrefixExtends ==
    ASSUME NEW s \in Seq(Events), NEW n \in Nat, Len(s) + n <= MaxEvents,
           \A i \in DOMAIN s : s[i] = i - 1
    PROVE  LET t == s \o Batch(Len(s), Len(s) + n) IN
           /\ t \in Seq(Events)
           /\ Len(t) = Len(s) + n
           /\ \A i \in DOMAIN t : t[i] = i - 1
<1> DEFINE b == Batch(Len(s), Len(s) + n)
<1>1. Len(s) \in Nat  BY LenProperties
<1>2. /\ b \in Seq(Events)
      /\ Len(b) = n
      /\ \A i \in 1 .. n : b[i] = Len(s) + i - 1
  <2>1. /\ Len(s) + n \in Nat /\ Len(s) <= Len(s) + n
        /\ (Len(s) + n) - Len(s) = n
    BY <1>1
  <2> HIDE DEF b
  <2>2. /\ b \in Seq(Events)
        /\ Len(b) = (Len(s) + n) - Len(s)
        /\ \A i \in 1 .. (Len(s) + n) - Len(s) : b[i] = Len(s) + i - 1
    BY <1>1, <2>1, BatchFacts, Zenon DEF b
  <2> QED  BY <2>1, <2>2
<1> HIDE DEF b
<1>3. s \o b \in Seq(Events) /\ Len(s \o b) = Len(s) + n
  BY <1>2, ConcatProperties
<1>4. ASSUME NEW i \in 1 .. Len(s) + n  PROVE (s \o b)[i] = i - 1
  <2>1. CASE i <= Len(s)  BY <2>1, <1>1, <1>2, ConcatProperties, LenProperties
  <2>2. CASE i > Len(s)
    <3>1. (s \o b)[i] = b[i - Len(s)]  BY <2>2, <1>1, <1>2, ConcatProperties
    <3> QED  BY <3>1, <2>2, <1>1, <1>2
  <2>3. i <= Len(s) \/ i > Len(s)  BY <1>1
  <2> QED  BY <2>1, <2>2, <2>3
<1> QED  BY <1>3, <1>4, LenProperties DEF b

\* A prefix of the log holds exactly the events below its length.
LEMMA PrefixRange ==
    ASSUME NEW s \in Seq(Events), \A i \in DOMAIN s : s[i] = i - 1
    PROVE  Range(s) = 0 .. Len(s) - 1
<1>1. DOMAIN s = 1 .. Len(s) /\ Len(s) \in Nat  BY LenProperties
<1>2. ASSUME NEW e \in 0 .. Len(s) - 1  PROVE e \in Range(s)
  <2>1. e + 1 \in DOMAIN s /\ s[e + 1] = e  BY <1>1
  <2> QED  BY <2>1 DEF Range
<1> QED  BY <1>1, <1>2 DEF Range

-----------------------------------------------------------------------------
(* Type correctness.                                                       *)

\* What the flush callers are answered for is a set of events.
LEMMA HeldType == TypeOK => Held \subseteq Events
<1> SUFFICES ASSUME TypeOK, NEW e \in Held  PROVE e \in Events  OBVIOUS
<1>1. CASE e \in Range(pending)
  <2>1. pending \in [1 .. Len(pending) -> Events]  BY LenProperties DEF TypeOK
  <2> QED  BY <1>1, <2>1 DEF Range
<1>2. CASE e \in InFlight
  <2>1. PICK w \in Writes : e \in Range(write[w].batch)  BY <1>2 DEF InFlight, Unsettled
  <2>2. write[w].batch \in Seq(Events)  BY DEF TypeOK, WriteRecord
  <2>3. write[w].batch \in [1 .. Len(write[w].batch) -> Events]  BY <2>2, LenProperties
  <2> QED  BY <2>1, <2>3 DEF Range
<1> QED  BY <1>1, <1>2 DEF Held

\* A write that moves to another stage is still a write.
LEMMA StagedWrite ==
    ASSUME NEW f \in [Writes -> WriteRecord], NEW w \in Writes, NEW st \in WriteStages
    PROVE  [f EXCEPT ![w].stage = st] \in [Writes -> WriteRecord]
BY DEF WriteRecord

\* A write that settles, giving up its batch, is still a write.
LEMMA SettledWrite ==
    ASSUME NEW f \in [Writes -> WriteRecord], NEW w \in Writes, NEW st \in WriteStages
    PROVE  [f EXCEPT ![w].stage = st, ![w].batch = <<>>] \in [Writes -> WriteRecord]
<1>1. <<>> \in Seq(Events)  BY EmptySeq
<1> QED  BY <1>1 DEF WriteRecord

\* Every step of the write path keeps every variable in its type.
LEMMA TypeStep == TypeOK /\ [Next]_vars => TypeOK'
<1> SUFFICES ASSUME TypeOK, [Next]_vars  PROVE TypeOK'  OBVIOUS
<1> USE WriteBehindAssumption DEF TypeOK
<1>1. CASE SessionAppend
  BY <1>1 DEF SessionAppend, coordVars, controllerVars, timerVars, boundVars, Events
<1>2. CASE AttachLive
  BY <1>2 DEF AttachLive, Snapshot, sessionVars, controllerVars, timerVars, boundVars
<1>3. CASE InitializeOk
  <2>1. store' \in Seq(Events)
    <3>1. 0 <= seed /\ seed <= MaxEvents /\ seed \in Nat /\ 0 \in Nat  OBVIOUS
    <3> QED  BY <1>3, <3>1, BatchFacts DEF InitializeOk
  <2> QED  BY <1>3, <2>1 DEF InitializeOk, sessionVars, controllerVars, timerVars, boundVars
<1>4. CASE InitializeFails
  BY <1>4 DEF InitializeFails, sessionVars, controllerVars, timerVars
<1>5. ASSUME NEW e \in notifying, Enqueue(e)  PROVE TypeOK'
  <2>1. e \in Events  OBVIOUS
  <2>2. pending' \in Seq(Events)  BY <1>5, <2>1, AppendProperties DEF Enqueue
  <2>3. /\ timer' \in BOOLEAN /\ automaticPaused' \in BOOLEAN
        /\ deadlineExpired' \in BOOLEAN
    BY <1>5 DEF Enqueue, ArmTimer
  <2>4. notifying' \in SUBSET Events  BY <1>5 DEF Enqueue
  <2> QED  BY <1>5, <2>2, <2>3, <2>4 DEF Enqueue, coordVars, boundVars
<1>6. CASE TimerFires
  <2>1. fired' \in Nat /\ orphans' \in Nat  BY <1>6 DEF TimerFires
  <2>2. timer' \in BOOLEAN  BY <1>6 DEF TimerFires
  <2> QED  BY <1>6, <2>1, <2>2 DEF TimerFires, sessionVars, coordVars, boundVars
<1>7. CASE OnDeadline
  <2>1. fired' \in Nat /\ orphans' \in Nat /\ relocking' \in Nat
    BY <1>7 DEF OnDeadline
  <2>2. deadlineExpired' \in BOOLEAN  BY <1>7 DEF OnDeadline
  <2> QED  BY <1>7, <2>1, <2>2 DEF OnDeadline, sessionVars, coordVars, boundVars
<1>8. ASSUME NEW w \in Writes, OnDeadlineStart(w)  PROVE TypeOK'
  <2>1. write' \in [Writes -> WriteRecord]
    BY <1>8 DEF OnDeadlineStart, StartWrite, WriteRecord, WriteStages
  <2>2. relocking' \in Nat  BY <1>8 DEF OnDeadlineStart
  <2>3. pending' \in Seq(Events)  BY <1>8, EmptySeq DEF OnDeadlineStart, StartWrite, LeftPending
  <2> QED
    BY <1>8, <2>1, <2>2, <2>3 DEF OnDeadlineStart, StartWrite, sessionVars, coordVars, boundVars
<1>9. ASSUME NEW w \in Writes, SinkWrites(w)  PROVE TypeOK'
  <2>1. PICK n \in 0 .. Len(write[w].batch) :
           /\ Continues(write[w].batch, n)
           /\ store' = store \o Batch(cursor, cursor + n)
           /\ cursor' = cursor + n
    BY <1>9 DEF SinkWrites
  <2>2. Len(write[w].batch) \in Nat  BY LenProperties DEF WriteRecord
  <2>3. n \in Nat /\ cursor + n \in Nat  BY <2>2
  <2>4. store' \in Seq(Events)
    <3>1. CASE n = 0
      <4>1. Batch(cursor, cursor + n) = <<>>  BY <3>1, EmptyBatch
      <4> QED  BY <4>1, <2>1, EmptySeq, ConcatProperties
    <3>2. CASE n # 0
      <4>0. cursor + n - 1 \in cursor .. cursor + n - 1  BY <2>3, <3>2
      <4>1. cursor + n - 1 \in {write[w].batch[i] : i \in FreshIn(write[w].batch)}
        BY <2>1, <4>0, Zenon DEF Continues
      <4>2. write[w].batch \in [1 .. Len(write[w].batch) -> Events]
        BY LenProperties DEF WriteRecord
      <4>3. cursor + n - 1 \in Events  BY <4>1, <4>2 DEF FreshIn
      <4>4. cursor + n <= MaxEvents /\ cursor <= cursor + n  BY <4>3, <2>3 DEF Events
      <4>5. Batch(cursor, cursor + n) \in Seq(Events)  BY <4>4, <2>3, BatchFacts
      <4> QED  BY <4>5, <2>1, ConcatProperties
    <3> QED  BY <3>1, <3>2
  <2>5. write' \in [Writes -> WriteRecord]
    <3>1. write' = [write EXCEPT ![w].stage = "ok"]  BY <1>9 DEF SinkWrites
    <3>2. "ok" \in WriteStages  BY DEF WriteStages
    <3> QED  BY <3>1, <3>2, StagedWrite
  <2> QED  BY <1>9, <2>1, <2>3, <2>4, <2>5 DEF SinkWrites, SinkVars, sessionVars,
                      controllerVars, timerVars
<1>10. ASSUME NEW w \in Writes, SinkRefuses(w) \/ SinkFails(w)  PROVE TypeOK'
  <2>0. write' = [write EXCEPT ![w].stage = "err"]  BY <1>10 DEF SinkRefuses, SinkFails
  <2>1. write' \in [Writes -> WriteRecord]  BY <2>0, StagedWrite DEF WriteStages
  <2>2. failures' \in Nat
    <3>1. failures' \in {failures, failures + 1}  BY <1>10 DEF SinkRefuses, SinkFails
    <3> QED  BY <3>1
  <2> QED  BY <1>10, <2>1, <2>2 DEF SinkRefuses, SinkFails, SinkVars, sessionVars,
                      controllerVars, timerVars
<1>11. ASSUME NEW w \in Writes, SettleOk(w)  PROVE TypeOK'
  <2>1. write' \in [Writes -> WriteRecord]
    <3>1. write' = [write EXCEPT ![w].stage = "closing", ![w].batch = <<>>]
      BY <1>11 DEF SettleOk
    <3>2. "closing" \in WriteStages  BY DEF WriteStages
    <3> QED  BY <3>1, <3>2, SettledWrite
  <2> QED  BY <1>11, <2>1 DEF SettleOk, sessionVars, coordVars, timerVars, boundVars
<1>12. ASSUME NEW w \in Writes, SettleErr(w)  PROVE TypeOK'
  <2>1. write' \in [Writes -> WriteRecord]
    <3>1. write' = [write EXCEPT ![w].stage = "closingErr", ![w].batch = <<>>]
      BY <1>12 DEF SettleErr
    <3>2. "closingErr" \in WriteStages  BY DEF WriteStages
    <3> QED  BY <3>1, <3>2, SettledWrite
  <2>2. write[w].batch \in Seq(Events)  BY DEF WriteRecord
  <2>3. pending' \in Seq(Events)  BY <1>12, <2>2, ConcatProperties DEF SettleErr, RetainFailed
  <2>4. lastForegroundErr' \in BOOLEAN  BY <1>12 DEF SettleErr
  <2> QED  BY <1>12, <2>1, <2>3, <2>4 DEF SettleErr, sessionVars, coordVars, boundVars
<1>13. ASSUME NEW w \in Writes, CloseDone(w)  PROVE TypeOK'
  <2>1. NoBatch \in WriteRecord  BY EmptySeq DEF NoBatch, WriteRecord, WriteStages
  <2>2. write' \in [Writes -> WriteRecord]
    BY <1>13, <2>1 DEF CloseDone, WriteRecord, WriteStages
  <2>3. drain' \in [pc : DrainPcs, on : Writes \cup {NoWrite}]
    BY <1>13 DEF CloseDone, DrainPcs
  <2>4. UNCHANGED <<sessionVars, coordVars, controllerVars, caller, acked, boundVars>>
    BY <1>13, Zenon DEF CloseDone
  <2> QED  BY <2>2, <2>3, <2>4 DEF sessionVars, coordVars, controllerVars, timerVars, boundVars
<1>14. ASSUME NEW w \in Writes, ContinueAutomaticStops(w)  PROVE TypeOK'
  <2>1. NoBatch \in WriteRecord  BY EmptySeq DEF NoBatch, WriteRecord, WriteStages
  <2>2. write' \in [Writes -> WriteRecord]  BY <1>14, <2>1 DEF ContinueAutomaticStops
  <2> QED  BY <1>14, <2>2 DEF ContinueAutomaticStops, sessionVars, coordVars,
                      controllerVars, timerVars, boundVars
<1>15. ASSUME NEW w \in Writes, NEW next \in Writes, ContinueAutomaticStarts(w, next)
       PROVE TypeOK'
  <2>1. NoBatch \in WriteRecord  BY EmptySeq DEF NoBatch, WriteRecord, WriteStages
  <2>2. write' \in [Writes -> WriteRecord]
    BY <1>15, <2>1 DEF ContinueAutomaticStarts, WriteRecord, WriteStages
  <2> QED  BY <1>15, <2>2, EmptySeq DEF ContinueAutomaticStarts, LeftPending, sessionVars,
                      coordVars, boundVars
<1>16. ASSUME NEW c \in Callers, FlushSession(c)  PROVE TypeOK'
  <2>1. caller' \in [Callers -> [pc : CallerPcs, due : SUBSET Events]]
    BY <1>16 DEF FlushSession, CallerPcs
  <2>2. flushes' \in Nat
    <3>1. flushes' = flushes + 1  BY <1>16, Zenon DEF FlushSession
    <3> QED  BY <3>1
  <2>3. init' \in {"none", "running", "ok", "failed"} /\ seed' \in 0 .. MaxEvents
    BY <1>16 DEF FlushSession, Snapshot
  <2> QED  BY <1>16, <2>1, <2>2, <2>3 DEF FlushSession, sessionVars
<1>17. ASSUME NEW c \in Callers, FlushInitFailed(c)  PROVE TypeOK'
  BY <1>17 DEF FlushInitFailed, sessionVars, coordVars, boundVars, CallerPcs
<1>18. ASSUME NEW c \in Callers, FlushJoins(c)  PROVE TypeOK'
  BY <1>18, HeldType DEF FlushJoins, sessionVars, coordVars, controllerVars, timerVars,
                      boundVars, CallerPcs
<1>19. ASSUME NEW c \in Callers, FlushBegins(c)  PROVE TypeOK'
  <2>1. caller' \in [Callers -> [pc : CallerPcs, due : SUBSET Events]]
    BY <1>19, HeldType DEF FlushBegins, CallerPcs
  <2> QED  BY <1>19, <2>1 DEF FlushBegins, sessionVars, coordVars, boundVars, DrainPcs
<1>20. CASE DrainCheck
  BY <1>20 DEF DrainCheck, DrainPcs, sessionVars, coordVars, controllerVars, timerVars, boundVars
<1>21. CASE DrainAwaited
  BY <1>21 DEF DrainAwaited, DrainStep, DrainPcs, sessionVars, coordVars, timerVars, boundVars
<1>22. ASSUME NEW w \in Writes, DrainWrite(w)  PROVE TypeOK'
  <2>1. write' \in [Writes -> WriteRecord]
    BY <1>22 DEF DrainWrite, StartWrite, WriteRecord, WriteStages
  <2> QED  BY <1>22, <2>1, EmptySeq DEF DrainWrite, StartWrite, LeftPending, DrainPcs,
                      sessionVars, coordVars, boundVars
<1>23. CASE DrainWritten
  <2>1. drain' \in [pc : DrainPcs, on : Writes \cup {NoWrite}]
    BY <1>23 DEF DrainWritten, DrainStep, DrainPcs
  <2> QED  BY <1>23, <2>1 DEF DrainWritten, sessionVars, coordVars, timerVars, boundVars
<1>24. CASE DrainEmpty
  BY <1>24 DEF DrainEmpty, DrainStep, DrainPcs, sessionVars, coordVars, controllerVars,
               timerVars, boundVars
<1>25. CASE DrainSettle
  <2>1. acked' \in SUBSET Events  BY <1>25 DEF DrainSettle
  <2>2. caller' \in [Callers -> [pc : CallerPcs, due : SUBSET Events]]
    BY <1>25 DEF DrainSettle, CallerPcs
  <2> QED  BY <1>25, <2>1, <2>2 DEF DrainSettle, DrainPcs, sessionVars, coordVars,
                      timerVars, boundVars
<1>26. CASE UNCHANGED vars
  BY <1>26 DEF vars, sessionVars, coordVars, timerVars, boundVars
<1> QED
  BY <1>1, <1>2, <1>3, <1>4, <1>5, <1>6, <1>7, <1>8, <1>9, <1>10, <1>11, <1>12, <1>13,
     <1>14, <1>15, <1>16, <1>17, <1>18, <1>19, <1>20, <1>21, <1>22, <1>23, <1>24, <1>25,
     <1>26 DEF Next, WriteStep, CallerProgress, DrainProgress

\* The controller starts well typed.
LEMMA TypeInit == Init => TypeOK
<1> SUFFICES ASSUME Init  PROVE TypeOK  OBVIOUS
<1>1. NoBatch \in WriteRecord  BY EmptySeq DEF NoBatch, WriteRecord, WriteStages
<1>2. write \in [Writes -> WriteRecord]  BY <1>1 DEF Init
<1>3. <<>> \in Seq(Events)  BY EmptySeq
<1>4. logLen \in 0 .. MaxEvents /\ seed \in 0 .. MaxEvents
  BY WriteBehindAssumption DEF Init
<1>5. caller \in [Callers -> [pc : CallerPcs, due : SUBSET Events]]
  BY DEF Init, CallerPcs
<1> QED  BY <1>2, <1>3, <1>4, <1>5 DEF Init, TypeOK, DrainPcs

\* Type correctness of the write path (the fields of SessionWriteBehind, the
\* goroutines and the callers), for every value of the constants.
THEOREM WriteBehindTyping == Spec => []TypeOK
  BY TypeInit, TypeStep, PTL DEF Spec

-----------------------------------------------------------------------------
(* The durable log is a prefix of the session log.                         *)

\* What the store, the queue and the batches hold has been appended to the
\* session, and nothing is durable before initialization ended.
Provenance ==
    /\ init # "ok" => store = <<>> /\ cursor = 0
    /\ seed <= logLen
    /\ \A e \in notifying : e < logLen
    /\ \A i \in DOMAIN pending : pending[i] < logLen
    /\ \A w \in Writes : \A i \in DOMAIN write[w].batch : write[w].batch[i] < logLen

PrefixInv == TypeOK /\ Provenance /\ StoreIsLogPrefix

\* The prefix invariant holds at the start.
LEMMA PrefixInit == Init => PrefixInv
<1> SUFFICES ASSUME Init  PROVE PrefixInv  OBVIOUS
<1>1. TypeOK  BY TypeInit
<1>2. Provenance
  BY WriteBehindAssumption DEF Init, Provenance, NoBatch
<1>3. StoreIsLogPrefix
  BY <1>1, EmptySeq DEF Init, StoreIsLogPrefix, TypeOK
<1> QED  BY <1>1, <1>2, <1>3 DEF PrefixInv

\* Where an action changes neither the log, the queue, the batches nor the store,
\* there is nothing to show.
LEMMA PrefixStutter ==
    ASSUME PrefixInv, TypeOK',
           UNCHANGED <<logLen, notifying, init, seed, store, cursor, pending, write>>
    PROVE  PrefixInv'
BY DEF PrefixInv, Provenance, StoreIsLogPrefix

\* startWriteLocked moves the queue into a batch.
LEMMA PrefixStart ==
    ASSUME PrefixInv, TypeOK', NEW w \in Writes, NEW b \in BOOLEAN,
           write' = [write EXCEPT ![w] = [stage |-> "sink", batch |-> pending,
                                          background |-> b]],
           pending' = <<>>,
           UNCHANGED <<logLen, notifying, init, seed, store, cursor>>
    PROVE  PrefixInv'
<1>1. Provenance'
  <2>1. \A v \in Writes : write'[v].batch \in {write[v].batch, pending}
    BY DEF PrefixInv, TypeOK
  <2> QED  BY <2>1 DEF PrefixInv, Provenance
<1> QED  BY <1>1 DEF PrefixInv, StoreIsLogPrefix

\* A write goroutine that only moves on, or ends, holds no event it did not hold.
LEMMA PrefixMoves ==
    ASSUME PrefixInv, TypeOK',
           \A v \in Writes : write'[v].batch \in {write[v].batch, <<>>},
           UNCHANGED <<logLen, notifying, init, seed, store, cursor, pending>>
    PROVE  PrefixInv'
<1>1. Provenance'  BY DEF PrefixInv, Provenance
<1> QED  BY <1>1 DEF PrefixInv, StoreIsLogPrefix

\* Every step keeps the durable log a prefix of the session log.
LEMMA PrefixStep == PrefixInv /\ [Next]_vars => PrefixInv'
<1> SUFFICES ASSUME PrefixInv, [Next]_vars  PROVE PrefixInv'  OBVIOUS
<1>0. TypeOK /\ TypeOK'  BY TypeStep DEF PrefixInv
<1>1. CASE SessionAppend
  <2>1. logLen \in Nat /\ logLen' = logLen + 1  BY <1>0, <1>1, WriteBehindAssumption DEF SessionAppend, TypeOK
  <2>2. Provenance'
    <3>1. UNCHANGED <<init, store, cursor, seed, pending, write>>
      BY <1>1 DEF SessionAppend, coordVars, controllerVars
    <3>2. \A e \in notifying' : e < logLen'
      <4>1. \A e \in notifying : e \in Nat /\ e < logLen
        BY <1>0 DEF PrefixInv, Provenance, TypeOK, Events
      <4>2. notifying' = notifying \cup {logLen}  BY <1>1 DEF SessionAppend
      <4> QED  BY <4>1, <4>2, <2>1
    <3>3. \A i \in DOMAIN pending : pending[i] < logLen'
      <4>1. pending \in [1 .. Len(pending) -> Events]  BY <1>0, LenProperties DEF TypeOK
      <4> QED  BY <4>1, <2>1 DEF PrefixInv, Provenance, Events
    <3>4. ASSUME NEW w \in Writes, NEW i \in DOMAIN write[w].batch
          PROVE  write[w].batch[i] < logLen'
      <4>1. write[w].batch \in Seq(Events)  BY <1>0 DEF TypeOK, WriteRecord
      <4>2. write[w].batch \in [1 .. Len(write[w].batch) -> Events]  BY <4>1, LenProperties
      <4> QED  BY <4>2, <2>1 DEF PrefixInv, Provenance, Events
    <3>5. seed' <= logLen'  BY <1>0, <2>1, <3>1 DEF PrefixInv, Provenance, TypeOK
    <3> QED  BY <3>1, <3>2, <3>3, <3>4, <3>5 DEF PrefixInv, Provenance
  <2>3. StoreIsLogPrefix'
    BY <1>0, <1>1, <2>1 DEF SessionAppend, coordVars, PrefixInv, StoreIsLogPrefix, TypeOK
  <2> QED  BY <1>0, <2>2, <2>3 DEF PrefixInv
<1>2. ASSUME \/ AttachLive
             \/ InitializeFails
             \/ \E c \in Callers : FlushSession(c)
      PROVE PrefixInv'
  <2>1. UNCHANGED <<logLen, notifying, store, cursor, pending, write>>
    BY <1>2 DEF AttachLive, InitializeFails, FlushSession, sessionVars, controllerVars
  <2>2. (init' # "ok" => store = <<>> /\ cursor = 0) /\ seed' <= logLen
    <3>1. logLen <= logLen /\ seed <= logLen
      BY <1>0, WriteBehindAssumption DEF TypeOK, PrefixInv, Provenance
    <3>3. seed' \in {seed, logLen}
      BY <1>2 DEF AttachLive, InitializeFails, FlushSession, Snapshot
    <3>4. init' # "ok" => init # "ok"
      BY <1>2 DEF AttachLive, InitializeFails, FlushSession
    <3> QED  BY <3>1, <3>3, <3>4 DEF PrefixInv, Provenance
  <2> QED  BY <1>0, <2>1, <2>2 DEF PrefixInv, Provenance, StoreIsLogPrefix
<1>3. CASE InitializeOk
  <2>1. UNCHANGED <<logLen, notifying, seed, pending, write>> /\ init' = "ok"
        /\ store' = Batch(0, seed) /\ cursor' = seed
    BY <1>3 DEF InitializeOk, sessionVars, controllerVars
  <2>2. seed \in Nat /\ seed <= MaxEvents /\ seed - 0 = seed /\ 0 \in Nat /\ 0 <= seed
    BY <1>0, WriteBehindAssumption DEF TypeOK
  <2>3. /\ store' \in Seq(Events) /\ Len(store') = seed
        /\ \A i \in 1 .. seed : store'[i] = 0 + i - 1
    <3>1. /\ Len(Batch(0, seed)) = seed - 0
          /\ \A i \in 1 .. seed - 0 : Batch(0, seed)[i] = 0 + i - 1
          /\ Batch(0, seed) \in Seq(Events)
      BY <2>2, BatchFacts
    <3> QED  BY <3>1, <2>1, <2>2
  <2>4. DOMAIN store' = 1 .. seed  BY <2>3, LenProperties
  <2>5. StoreIsLogPrefix'
    BY <2>1, <2>2, <2>3, <2>4 DEF PrefixInv, Provenance, StoreIsLogPrefix
  <2>6. Provenance'  BY <2>1 DEF PrefixInv, Provenance
  <2> QED  BY <1>0, <2>5, <2>6 DEF PrefixInv
<1>4. ASSUME NEW e \in notifying, Enqueue(e)  PROVE PrefixInv'
  <2>1. /\ UNCHANGED <<logLen, init, seed, store, cursor, write>>
        /\ pending' = Append(pending, e) /\ notifying' \subseteq notifying
    BY <1>4 DEF Enqueue, coordVars
  <2>2. e \in Events /\ e < logLen  BY <1>0 DEF PrefixInv, Provenance, TypeOK
  <2>3. \A i \in DOMAIN pending' :
           pending'[i] \in {pending[i], e} /\ (i \notin DOMAIN pending => pending'[i] = e)
    <3>1. pending \in Seq(Events)  BY <1>0 DEF TypeOK
    <3>2. /\ DOMAIN pending = 1 .. Len(pending) /\ Len(pending) \in Nat
          /\ DOMAIN pending' = 1 .. Len(pending) + 1
          /\ pending'[Len(pending) + 1] = e
          /\ \A i \in 1 .. Len(pending) : pending'[i] = pending[i]
      BY <2>1, <2>2, <3>1, AppendProperties, LenProperties
    <3> QED  BY <3>2
  <2>4. \A i \in DOMAIN pending' : pending'[i] < logLen
    BY <2>2, <2>3 DEF PrefixInv, Provenance
  <2> QED  BY <1>0, <2>1, <2>4 DEF PrefixInv, Provenance, StoreIsLogPrefix
<1>5. ASSUME NEW w \in Writes, OnDeadlineStart(w) \/ DrainWrite(w)  PROVE PrefixInv'
  BY <1>0, <1>5, PrefixStart DEF OnDeadlineStart, DrainWrite, StartWrite, LeftPending,
                      sessionVars, coordVars
<1>6. ASSUME NEW w \in Writes, SinkWrites(w)  PROVE PrefixInv'
  <2>1. PICK n \in 0 .. Len(write[w].batch) :
           /\ Continues(write[w].batch, n)
           /\ store' = store \o Batch(cursor, cursor + n)
           /\ cursor' = cursor + n
    BY <1>6 DEF SinkWrites
  <2>2. write[w].batch \in Seq(Events)  BY <1>0 DEF TypeOK, WriteRecord
  <2>3. write[w].batch \in [1 .. Len(write[w].batch) -> Events] /\ Len(write[w].batch) \in Nat
    BY <2>2, LenProperties
  <2>4. n \in Nat /\ cursor \in Nat /\ logLen \in Nat /\ logLen <= MaxEvents /\ MaxEvents \in Nat
    BY <1>0, <2>3, WriteBehindAssumption DEF TypeOK
  <2>5. cursor + n <= logLen
    <3>1. CASE n = 0  BY <3>1, <2>4 DEF PrefixInv, StoreIsLogPrefix
    <3>2. CASE n # 0
      <4>1. cursor + n - 1 \in cursor .. cursor + n - 1  BY <2>4, <3>2
      <4>2. cursor + n - 1 \in {write[w].batch[i] : i \in FreshIn(write[w].batch)}
        BY <2>1, <4>1, Zenon DEF Continues
      <4>3. cursor + n - 1 < logLen  BY <4>2 DEF FreshIn, PrefixInv, Provenance
      <4> QED  BY <4>3, <2>4
    <3> QED  BY <3>1, <3>2
  <2>6. /\ Len(store') = cursor'
        /\ \A i \in DOMAIN store' : store'[i] = i - 1
    <3>1. store \in Seq(Events) /\ cursor = Len(store) /\ \A i \in DOMAIN store : store[i] = i - 1
      BY <1>0 DEF TypeOK, PrefixInv, StoreIsLogPrefix
    <3>2. Len(store) + n <= MaxEvents  BY <2>4, <2>5, <3>1
    <3> QED  BY <2>1, <2>4, <3>1, <3>2, PrefixExtends
  <2>7. UNCHANGED <<logLen, notifying, init, seed, pending>> /\ init = "ok"
    BY <1>6 DEF SinkWrites, SinkVars, sessionVars, controllerVars
  <2>8. \A v \in Writes : write'[v].batch = write[v].batch
    BY <1>0, <1>6 DEF SinkWrites, TypeOK, WriteRecord
  <2>9. Provenance'  BY <2>7, <2>8 DEF PrefixInv, Provenance
  <2>10. StoreIsLogPrefix'  BY <2>1, <2>5, <2>6, <2>7 DEF StoreIsLogPrefix
  <2> QED  BY <1>0, <2>9, <2>10 DEF PrefixInv
<1>7. ASSUME NEW w \in Writes, \/ SinkRefuses(w) \/ SinkFails(w) \/ SettleOk(w)
                               \/ CloseDone(w) \/ ContinueAutomaticStops(w)
      PROVE PrefixInv'
  <2>1. \A v \in Writes : write'[v].batch \in {write[v].batch, <<>>}
    <3> USE <1>0 DEF TypeOK, WriteRecord
    <3>1. CASE SinkRefuses(w)  BY <3>1 DEF SinkRefuses
    <3>2. CASE SinkFails(w)  BY <3>2 DEF SinkFails
    <3>3. CASE SettleOk(w)  BY <3>3 DEF SettleOk
    <3>4. CASE CloseDone(w)  BY <3>4 DEF CloseDone, NoBatch
    <3>5. CASE ContinueAutomaticStops(w)  BY <3>5 DEF ContinueAutomaticStops, NoBatch
    <3> QED  BY <1>7, <3>1, <3>2, <3>3, <3>4, <3>5
  <2>2. UNCHANGED <<logLen, notifying, init, seed, store, cursor, pending>>
    BY <1>7 DEF SinkRefuses, SinkFails, SettleOk, CloseDone, ContinueAutomaticStops,
                SinkVars, sessionVars, coordVars, controllerVars
  <2> QED  BY <1>0, <2>1, <2>2, PrefixMoves
<1>8. ASSUME NEW w \in Writes, SettleErr(w)  PROVE PrefixInv'
  <2>1. /\ UNCHANGED <<logLen, notifying, init, seed, store, cursor>>
        /\ pending' = write[w].batch \o pending
    BY <1>8 DEF SettleErr, RetainFailed, sessionVars, coordVars
  <2>2. write[w].batch \in Seq(Events) /\ pending \in Seq(Events)
    BY <1>0 DEF TypeOK, WriteRecord
  <2>3. Range(pending') = Range(write[w].batch) \cup Range(pending)
    BY <2>1, <2>2, RangeConcatenation
  <2>4. \A i \in DOMAIN pending' : pending'[i] < logLen
    BY <2>3 DEF Range, PrefixInv, Provenance
  <2>5. \A v \in Writes : write'[v].batch \in {write[v].batch, <<>>}
    BY <1>0, <1>8 DEF SettleErr, TypeOK, WriteRecord
  <2>6. Provenance'  BY <2>1, <2>4, <2>5 DEF PrefixInv, Provenance
  <2> QED  BY <1>0, <2>1, <2>6 DEF PrefixInv, StoreIsLogPrefix
<1>9. ASSUME NEW w \in Writes, NEW next \in Writes, ContinueAutomaticStarts(w, next)
      PROVE PrefixInv'
  <2>1. \A v \in Writes : write'[v].batch \in {write[v].batch, <<>>, pending}
    BY <1>0, <1>9 DEF ContinueAutomaticStarts, NoBatch, TypeOK, WriteRecord
  <2>2. UNCHANGED <<logLen, notifying, init, seed, store, cursor>> /\ pending' = <<>>
    BY <1>9 DEF ContinueAutomaticStarts, LeftPending, sessionVars, coordVars
  <2>3. Provenance'  BY <2>1, <2>2 DEF PrefixInv, Provenance
  <2> QED  BY <1>0, <2>2, <2>3 DEF PrefixInv, StoreIsLogPrefix
<1>10. ASSUME \/ TimerFires \/ OnDeadline
              \/ \E c \in Callers : CallerProgress(c)
              \/ DrainCheck \/ DrainAwaited \/ DrainWritten \/ DrainEmpty \/ DrainSettle
              \/ UNCHANGED vars
       PROVE PrefixInv'
  <2>1. UNCHANGED <<logLen, notifying, init, seed, store, cursor, pending, write>>
    <3>1. CASE TimerFires \/ OnDeadline
      BY <3>1 DEF TimerFires, OnDeadline, sessionVars, coordVars
    <3>2. CASE \E c \in Callers : CallerProgress(c)
      BY <3>2 DEF CallerProgress, FlushInitFailed, FlushJoins, FlushBegins, sessionVars,
                  coordVars, controllerVars
    <3>3. CASE DrainCheck \/ DrainAwaited \/ DrainWritten
      BY <3>3 DEF DrainCheck, DrainAwaited, DrainWritten, sessionVars, coordVars, controllerVars
    <3>4. CASE DrainEmpty \/ DrainSettle
      BY <3>4 DEF DrainEmpty, DrainSettle, sessionVars, coordVars, controllerVars
    <3>5. CASE UNCHANGED vars
      BY <3>5 DEF vars, sessionVars, coordVars
    <3> QED  BY <1>10, <3>1, <3>2, <3>3, <3>4, <3>5
  <2> QED  BY <1>0, <2>1, PrefixStutter
<1> QED
  BY <1>1, <1>2, <1>3, <1>4, <1>5, <1>6, <1>7, <1>8, <1>9, <1>10
  DEF Next, WriteStep, CallerProgress, DrainProgress

\* The durable log is always a gap-free, duplicate-free prefix of the session
\* log, and the coordinator's cursor is its length (appendLiveBatch, appendCore),
\* whatever two overlapping writes and the failures of the backend do.
THEOREM StoredPrefix == Spec => []StoreIsLogPrefix
<1>1. PrefixInv => StoreIsLogPrefix  BY DEF PrefixInv
<1> QED  BY <1>1, PrefixInit, PrefixStep, PTL DEF Spec

-----------------------------------------------------------------------------
(* The write path implements the append-only log.                          *)

\* A stored log that is a prefix of the session is the abstract log's prefix of
\* the same length.
LEMMA PrefixIsLogPrefix ==
    ASSUME NEW s \in Seq(Events), \A i \in DOMAIN s : s[i] = i - 1
    PROVE  s = Log!Prefix(Len(s)) /\ Len(s) \in Nat
<1>1. DOMAIN s = 1 .. Len(s) /\ Len(s) \in Nat /\ s \in [1 .. Len(s) -> Events]
  BY LenProperties
<1>2. s = [i \in 1 .. Len(s) |-> s[i]]  BY <1>1
<1>3. \A i \in 1 .. Len(s) : s[i] = i - 1  BY <1>1
<1>4. s = [i \in 1 .. Len(s) |-> i - 1]  BY <1>2, <1>3, Zenon
<1> QED  BY <1>1, <1>4 DEF Log!Prefix

\* A step that appends nothing and does not move the cursor back either leaves the
\* durable log alone or makes the next events durable.
LEMMA LogAdvances ==
    ASSUME PrefixInv, PrefixInv', logLen' = logLen, cursor' >= cursor
    PROVE  [Log!Next]_<<logLen, store>>
<1>1. /\ store = Log!Prefix(Len(store)) /\ Len(store) \in Nat
      /\ store' = Log!Prefix(Len(store')) /\ Len(store') \in Nat
  BY PrefixIsLogPrefix DEF PrefixInv, TypeOK, StoreIsLogPrefix
<1>2. Len(store) = cursor /\ Len(store') = cursor' /\ cursor' <= logLen /\ logLen \in Nat
  BY WriteBehindAssumption DEF PrefixInv, TypeOK, StoreIsLogPrefix
<1>3. CASE Len(store') = Len(store)
  <2>1. store' = store  BY <1>1, <1>3
  <2> QED  BY <2>1
<1>4. CASE Len(store') # Len(store)
  <2>1. Len(store) < Len(store') /\ Len(store') \in 1 .. logLen
    BY <1>1, <1>2, <1>4
  <2>2. Log!Persist(Len(store'))  BY <1>1, <2>1 DEF Log!Persist
  <2> QED  BY <2>1, <2>2 DEF Log!Next
<1> QED  BY <1>3, <1>4

\* Every step of the write path is a step of the abstract log or leaves it alone.
LEMMA LogStep == PrefixInv /\ [Next]_vars => [Log!Next]_<<logLen, store>>
<1> SUFFICES ASSUME PrefixInv, [Next]_vars  PROVE [Log!Next]_<<logLen, store>>
  OBVIOUS
<1>0. PrefixInv'  BY PrefixStep
<1>1. CASE SessionAppend
  BY <1>1 DEF SessionAppend, coordVars, Log!Next, Log!AppendEvent
<1>2. CASE InitializeOk
  <2>1. logLen' = logLen /\ cursor = 0 /\ cursor' = seed /\ seed >= 0
    BY <1>2 DEF InitializeOk, sessionVars, PrefixInv, Provenance, TypeOK
  <2> QED  BY <1>0, <2>1, LogAdvances
<1>3. ASSUME NEW w \in Writes, SinkWrites(w)  PROVE [Log!Next]_<<logLen, store>>
  <2>1. PICK n \in 0 .. Len(write[w].batch) : cursor' = cursor + n
    BY <1>3 DEF SinkWrites
  <2>2. Len(write[w].batch) \in Nat /\ cursor \in Nat
    BY LenProperties DEF PrefixInv, TypeOK, WriteRecord
  <2>3. logLen' = logLen /\ cursor' >= cursor
    BY <1>3, <2>1, <2>2 DEF SinkWrites, SinkVars, sessionVars
  <2> QED  BY <1>0, <2>3, LogAdvances
<1>4. ASSUME \/ AttachLive \/ InitializeFails
             \/ \E e \in notifying : Enqueue(e)
             \/ TimerFires \/ OnDeadline
             \/ \E c \in Callers : FlushSession(c) \/ CallerProgress(c)
      PROVE  UNCHANGED <<logLen, store>>
  BY <1>4 DEF AttachLive, InitializeFails, Enqueue, TimerFires, OnDeadline, FlushSession,
     CallerProgress, FlushInitFailed, FlushJoins, FlushBegins, sessionVars, coordVars
<1>5. ASSUME NEW w \in Writes,
             \/ OnDeadlineStart(w) \/ SinkRefuses(w) \/ SinkFails(w)
             \/ SettleOk(w) \/ SettleErr(w) \/ CloseDone(w)
             \/ ContinueAutomaticStops(w)
             \/ \E next \in Writes : ContinueAutomaticStarts(w, next)
      PROVE  UNCHANGED <<logLen, store>>
  BY <1>5 DEF OnDeadlineStart, SinkRefuses, SinkFails, SettleOk, SettleErr, CloseDone,
     ContinueAutomaticStops, ContinueAutomaticStarts, SinkVars, sessionVars, coordVars
<1>6. CASE DrainProgress
  <2>1. UNCHANGED <<logLen, store>>
    BY <1>6 DEF DrainProgress, DrainCheck, DrainAwaited, DrainWrite, DrainWritten,
       DrainEmpty, DrainSettle, sessionVars, coordVars
  <2> QED  BY <2>1
<1>7. CASE UNCHANGED vars
  BY <1>7 DEF vars, sessionVars, coordVars
<1> QED
  BY <1>1, <1>2, <1>3, <1>4, <1>5, <1>6, <1>7 DEF Next, WriteStep

\* The write-behind path, with its batches, timers, overlapping writes, failures
\* and flushes, implements an append-only log: the durable log of a session only
\* ever grows, by the events that come next (appendLiveBatch, appendCore).
THEOREM RefinesDurableLog == Spec => ImplementsDurableLog
<1>1. Init => Log!Init
  BY WriteBehindAssumption DEF Init, Log!Init
<1> QED
  BY <1>1, PrefixInit, PrefixStep, LogStep, PTL DEF Spec, ImplementsDurableLog, Log!Spec

-----------------------------------------------------------------------------
(* No event is lost.                                                       *)

LossInv == PrefixInv /\ NothingLost

\* Everything the store or the controller has it still has after the step.
KeepsAll == Range(store) \cup Held \subseteq Range(store') \cup Held'

\* A step that keeps everything and changes neither the session nor the progress
\* of initialization loses nothing.
LEMMA LossQuiet ==
    ASSUME LossInv, PrefixInv', KeepsAll, UNCHANGED <<logLen, notifying, init, seed>>
    PROVE  LossInv'
BY DEF LossInv, NothingLost, KeepsAll

\* Starting a write moves the queue into a batch whose write has not succeeded.
LEMMA KeepsStart ==
    ASSUME TypeOK, NEW w \in Writes, write[w].stage \notin {"sink", "err"},
           write'[w].stage = "sink", write'[w].batch = pending,
           \A v \in Writes : write[v].stage \in {"sink", "err"} => write'[v] = write[v],
           UNCHANGED store
    PROVE  KeepsAll
BY DEF KeepsAll, Held, InFlight, Unsettled

\* A step that leaves every batch whose write has not succeeded in such a state
\* keeps everything.
LEMMA KeepsMoves ==
    ASSUME \A v \in Writes : write[v].stage \in {"sink", "err"} =>
              write'[v].stage \in {"sink", "err"} /\ write'[v].batch = write[v].batch,
           UNCHANGED <<store, pending>>
    PROVE  KeepsAll
BY DEF KeepsAll, Held, InFlight, Unsettled

\* Every step keeps what the store or the controller has.
LEMMA KeepsStep == PrefixInv /\ [Next]_vars => KeepsAll
<1> SUFFICES ASSUME PrefixInv, [Next]_vars  PROVE KeepsAll  OBVIOUS
<1>0. TypeOK /\ PrefixInv /\ PrefixInv'  BY PrefixStep DEF PrefixInv
<1>1. CASE InitializeOk
  <2>1. UNCHANGED <<pending, write>> /\ init = "running"
    BY <1>1 DEF InitializeOk, controllerVars
  <2>2. Held' = Held  BY <2>1 DEF Held, InFlight, Unsettled
  <2>3. store = <<>>  BY <1>0, <2>1 DEF PrefixInv, Provenance
  <2>4. Range(store) = {}  BY <2>3 DEF Range
  <2> QED  BY <2>2, <2>4 DEF KeepsAll
<1>2. ASSUME NEW e \in notifying, Enqueue(e)  PROVE KeepsAll
  <2>1. /\ UNCHANGED <<logLen, init, seed, store, write>>
        /\ notifying' = notifying \ {e}
        /\ pending' = Append(pending, e)
    BY <1>2 DEF Enqueue, coordVars
  <2>2. pending \in Seq(Events) /\ e \in Events  BY <1>0 DEF TypeOK
  <2>3. Range(pending) \cup {e} \subseteq Range(pending')
    <3>1. /\ DOMAIN pending = 1 .. Len(pending) /\ Len(pending) \in Nat
          /\ DOMAIN pending' = 1 .. Len(pending) + 1
          /\ pending'[Len(pending) + 1] = e
          /\ \A i \in 1 .. Len(pending) : pending'[i] = pending[i]
      BY <2>1, <2>2, AppendProperties, LenProperties
    <3>2. e \in Range(pending')  BY <3>1 DEF Range
    <3>3. Range(pending) \subseteq Range(pending')  BY <3>1 DEF Range
    <3> QED  BY <3>2, <3>3
  <2>4. Held \subseteq Held'  BY <2>1, <2>3 DEF Held, InFlight, Unsettled
  <2> QED  BY <2>1, <2>4 DEF KeepsAll
<1>3. ASSUME NEW w \in Writes, OnDeadlineStart(w) \/ DrainWrite(w)  PROVE KeepsAll
  <2>1. \E b \in BOOLEAN : StartWrite(w, b)  BY <1>3 DEF OnDeadlineStart, DrainWrite
  <2>2. /\ write[w].stage = "none" /\ write'[w].stage = "sink" /\ write'[w].batch = pending
        /\ \A v \in Writes : v # w => write'[v] = write[v]
    BY <1>0, <2>1 DEF StartWrite, NoBatch, TypeOK
  <2>3. UNCHANGED store  BY <1>3 DEF OnDeadlineStart, DrainWrite, coordVars
  <2> QED  BY <1>0, <2>2, <2>3, KeepsStart
<1>4. ASSUME NEW w \in Writes, SinkWrites(w)  PROVE KeepsAll
  <2>1. PICK n \in 0 .. Len(write[w].batch) :
           /\ Continues(write[w].batch, n)
           /\ cursor' = cursor + n
    BY <1>4 DEF SinkWrites
  <2>2. write[w].batch \in Seq(Events)  BY <1>0 DEF TypeOK, WriteRecord
  <2>3. write[w].batch \in [1 .. Len(write[w].batch) -> Events] /\ Len(write[w].batch) \in Nat
    BY <2>2, LenProperties
  <2>4. n \in Nat /\ cursor \in Nat  BY <1>0, <2>3 DEF TypeOK
  <2>5. Range(store) = 0 .. cursor - 1 /\ Range(store') = 0 .. cursor + n - 1
    <3>1. Range(store) = 0 .. Len(store) - 1
      BY <1>0, PrefixRange DEF PrefixInv, TypeOK, StoreIsLogPrefix
    <3>2. Range(store') = 0 .. Len(store') - 1
      <4>1. store' \in Seq(Events) /\ \A i \in DOMAIN store' : store'[i] = i - 1
        BY <1>0 DEF PrefixInv, TypeOK, StoreIsLogPrefix
      <4> QED  BY <4>1, PrefixRange
    <3>3. Len(store) = cursor /\ Len(store') = cursor + n
      BY <1>0, <2>1 DEF PrefixInv, StoreIsLogPrefix
    <3> QED  BY <3>1, <3>2, <3>3
  <2>6. Range(write[w].batch) \subseteq Range(store')
    <3> SUFFICES ASSUME NEW i \in DOMAIN write[w].batch
                 PROVE  write[w].batch[i] \in 0 .. cursor + n - 1
      BY <2>5 DEF Range
    <3>1. write[w].batch[i] \in Nat  BY <2>3 DEF Events
    <3>2. CASE write[w].batch[i] >= cursor
      <4>1. write[w].batch[i] \in cursor .. cursor + n - 1
        BY <2>1, <3>2 DEF Continues, FreshIn
      <4> QED  BY <4>1, <3>1, <2>4
    <3>3. CASE ~(write[w].batch[i] >= cursor)  BY <3>1, <3>3, <2>4
    <3> QED  BY <3>2, <3>3
  <2>7. UNCHANGED <<logLen, notifying, init, seed, pending>>
    BY <1>4 DEF SinkWrites, SinkVars, sessionVars, controllerVars
  <2>8. \A v \in Writes : v # w => write'[v] = write[v]  BY <1>0, <1>4 DEF SinkWrites, TypeOK
  <2>9. Range(store) \subseteq Range(store')  BY <2>4, <2>5
  <2> QED
    <3> SUFFICES ASSUME NEW e \in InFlight, e \notin Range(store')  PROVE e \in InFlight'
      BY <2>7, <2>9 DEF KeepsAll, Held
    <3>1. PICK v \in Writes : write[v].stage \in {"sink", "err"} /\ e \in Range(write[v].batch)
      BY DEF InFlight, Unsettled
    <3>2. v # w  BY <3>1, <2>6
    <3> QED  BY <3>1, <3>2, <2>8 DEF InFlight, Unsettled
<1>5. ASSUME NEW w \in Writes, \/ SinkRefuses(w) \/ SinkFails(w) \/ SettleOk(w)
                               \/ CloseDone(w) \/ ContinueAutomaticStops(w)
      PROVE KeepsAll
  <2>1. \A v \in Writes : write[v].stage \in {"sink", "err"} =>
              write'[v].stage \in {"sink", "err"} /\ write'[v].batch = write[v].batch
    <3> USE <1>0 DEF TypeOK, WriteRecord
    <3>1. CASE SinkRefuses(w)  BY <3>1 DEF SinkRefuses
    <3>2. CASE SinkFails(w)  BY <3>2 DEF SinkFails
    <3>3. CASE SettleOk(w)  BY <3>3 DEF SettleOk
    <3>4. CASE CloseDone(w)  BY <3>4 DEF CloseDone
    <3>5. CASE ContinueAutomaticStops(w)  BY <3>5 DEF ContinueAutomaticStops
    <3> QED  BY <1>5, <3>1, <3>2, <3>3, <3>4, <3>5
  <2>2. UNCHANGED <<store, pending>>
    BY <1>5 DEF SinkRefuses, SinkFails, SettleOk, CloseDone, ContinueAutomaticStops,
                SinkVars, sessionVars, coordVars, controllerVars
  <2> QED  BY <2>1, <2>2, KeepsMoves
<1>6. ASSUME NEW w \in Writes, SettleErr(w)  PROVE KeepsAll
  <2>1. /\ UNCHANGED <<logLen, notifying, init, seed, store>>
        /\ pending' = write[w].batch \o pending
    BY <1>6 DEF SettleErr, RetainFailed, sessionVars, coordVars
  <2>2. write[w].batch \in Seq(Events) /\ pending \in Seq(Events)
    BY <1>0 DEF TypeOK, WriteRecord
  <2>3. Range(pending') = Range(write[w].batch) \cup Range(pending)
    BY <2>1, <2>2, RangeConcatenation
  <2>4. \A v \in Writes : v # w => write'[v] = write[v]  BY <1>0, <1>6 DEF SettleErr, TypeOK
  <2> QED  BY <2>1, <2>3, <2>4 DEF KeepsAll, Held, InFlight, Unsettled
<1>7. ASSUME NEW w \in Writes, NEW next \in Writes, ContinueAutomaticStarts(w, next)
       PROVE KeepsAll
  <2>1. /\ w # next
        /\ write[w].stage = "continue" /\ write[next].stage = "none"
        /\ write'[next].stage = "sink" /\ write'[next].batch = pending
        /\ \A v \in Writes : v \notin {w, next} => write'[v] = write[v]
    BY <1>0, <1>7 DEF ContinueAutomaticStarts, NoBatch, TypeOK
  <2>2. UNCHANGED store  BY <1>7 DEF ContinueAutomaticStarts, coordVars
  <2> QED  BY <1>0, <2>1, <2>2, KeepsStart
<1>8. ASSUME \/ SessionAppend \/ AttachLive \/ InitializeFails
             \/ TimerFires \/ OnDeadline
             \/ \E c \in Callers : FlushSession(c) \/ CallerProgress(c)
             \/ DrainCheck \/ DrainAwaited \/ DrainWritten \/ DrainEmpty \/ DrainSettle
             \/ UNCHANGED vars
      PROVE KeepsAll
  <2>1. UNCHANGED <<store, pending, write>>
    <3>1. CASE TimerFires \/ OnDeadline
      BY <3>1 DEF TimerFires, OnDeadline, sessionVars, coordVars
    <3>2. CASE \E c \in Callers : CallerProgress(c)
      BY <3>2 DEF CallerProgress, FlushInitFailed, FlushJoins, FlushBegins, sessionVars,
                  coordVars, controllerVars
    <3>3. CASE DrainCheck \/ DrainAwaited \/ DrainWritten
      BY <3>3 DEF DrainCheck, DrainAwaited, DrainWritten, sessionVars, coordVars, controllerVars
    <3>4. CASE DrainEmpty \/ DrainSettle
      BY <3>4 DEF DrainEmpty, DrainSettle, sessionVars, coordVars, controllerVars
    <3>5. CASE UNCHANGED vars
      BY <3>5 DEF vars, sessionVars, coordVars
    <3>6. CASE SessionAppend \/ AttachLive \/ InitializeFails
      BY <3>6 DEF SessionAppend, AttachLive, InitializeFails, sessionVars, coordVars,
                  controllerVars
    <3>7. CASE \E c \in Callers : FlushSession(c)
      BY <3>7 DEF FlushSession, sessionVars
    <3> QED  BY <1>8, <3>1, <3>2, <3>3, <3>4, <3>5, <3>6, <3>7
  <2> QED  BY <2>1, KeepsMoves
<1> QED
  BY <1>1, <1>2, <1>3, <1>4, <1>5, <1>6, <1>7, <1>8
  DEF Next, WriteStep, DrainProgress

\* No step loses an event.
LEMMA LossStep == LossInv /\ [Next]_vars => LossInv'
<1> SUFFICES ASSUME LossInv, [Next]_vars  PROVE LossInv'  OBVIOUS
<1>0. TypeOK /\ PrefixInv /\ PrefixInv' /\ KeepsAll  BY PrefixStep, KeepsStep DEF LossInv, PrefixInv
<1>1. CASE SessionAppend
  <2>1. UNCHANGED <<init, seed, store, pending, write>>
    BY <1>1 DEF SessionAppend, coordVars, controllerVars
  <2>2. Held' = Held  BY <2>1 DEF Held, InFlight, Unsettled
  <2>3. logLen \in Nat /\ logLen' = logLen + 1 /\ notifying' = notifying \cup {logLen}
    BY <1>0, <1>1, WriteBehindAssumption DEF SessionAppend, TypeOK
  <2>4. ASSUME NEW e \in 0 .. logLen' - 1  PROVE e \in 0 .. logLen - 1 \/ e = logLen
    BY <2>3
  <2>5. NothingLost'  BY <2>1, <2>2, <2>3, <2>4 DEF LossInv, NothingLost
  <2> QED  BY <1>0, <2>5 DEF LossInv
<1>2. ASSUME AttachLive \/ \E c \in Callers : FlushSession(c)  PROVE LossInv'
  <2>1. UNCHANGED <<logLen, notifying, store, pending, write>>
    BY <1>2 DEF AttachLive, FlushSession, sessionVars, controllerVars
  <2>2. Held' = Held  BY <2>1 DEF Held, InFlight, Unsettled
  <2>3. (init = "none" /\ init' = "running" /\ seed' = logLen) \/ UNCHANGED <<init, seed>>
    BY <1>2 DEF AttachLive, FlushSession, Snapshot
  <2>4. CASE UNCHANGED <<init, seed>>
    BY <1>0, <2>1, <2>2, <2>4, LossQuiet DEF KeepsAll
  <2>5. CASE init' = "running" /\ seed' = logLen
    BY <1>0, <2>1, <2>5 DEF LossInv, NothingLost, TypeOK
  <2> QED  BY <2>3, <2>4, <2>5
<1>3. CASE InitializeOk
  <2>1. /\ UNCHANGED <<logLen, notifying, pending, write>> /\ init' = "ok" /\ init = "running"
        /\ cursor' = seed
    BY <1>3 DEF InitializeOk, sessionVars, controllerVars
  <2>2. Held' = Held  BY <2>1 DEF Held, InFlight, Unsettled
  <2>3. store = <<>>  BY <1>0, <2>1 DEF PrefixInv, Provenance
  <2>4. Range(store) = {}  BY <2>3 DEF Range
  <2>5. Range(store') = 0 .. seed - 1
    <3>1. store' \in Seq(Events) /\ Len(store') = seed /\ \A i \in DOMAIN store' : store'[i] = i - 1
      BY <1>0, <2>1 DEF PrefixInv, TypeOK, StoreIsLogPrefix
    <3> QED  BY <3>1, PrefixRange
  <2>6. seed \in Nat  BY <1>0 DEF TypeOK
  <2>7. NothingLost'
    <3> SUFFICES ASSUME NEW e \in 0 .. logLen - 1
                 PROVE  e \in notifying \/ e \in Range(store') \cup Held
      BY <2>1, <2>2 DEF NothingLost
    <3>1. e \in notifying \/ e \in Held \/ e < seed
      BY <2>1, <2>4 DEF LossInv, NothingLost
    <3>2. logLen \in Nat  BY <1>0 DEF TypeOK
    <3>3. e < seed => e \in 0 .. seed - 1  BY <2>6, <3>2
    <3> QED  BY <3>1, <3>3, <2>5
  <2> QED  BY <1>0, <2>7 DEF LossInv
<1>4. CASE InitializeFails
  <2>1. /\ UNCHANGED <<logLen, notifying, seed, store, pending, write>>
        /\ init = "running" /\ init' = "failed"
    BY <1>4 DEF InitializeFails, sessionVars, controllerVars
  <2>2. Held' = Held  BY <2>1 DEF Held, InFlight, Unsettled
  <2> QED  BY <1>0, <2>1, <2>2 DEF LossInv, NothingLost
<1>5. ASSUME NEW e \in notifying, Enqueue(e)  PROVE LossInv'
  <2>1. /\ UNCHANGED <<logLen, init, seed, store, write>>
        /\ notifying' = notifying \ {e}
        /\ pending' = Append(pending, e)
    BY <1>5 DEF Enqueue, coordVars
  <2>2. pending \in Seq(Events) /\ e \in Events  BY <1>0 DEF TypeOK
  <2>3. Range(pending) \cup {e} \subseteq Range(pending')
    <3>1. /\ DOMAIN pending = 1 .. Len(pending) /\ Len(pending) \in Nat
          /\ DOMAIN pending' = 1 .. Len(pending) + 1
          /\ pending'[Len(pending) + 1] = e
          /\ \A i \in 1 .. Len(pending) : pending'[i] = pending[i]
      BY <2>1, <2>2, AppendProperties, LenProperties
    <3>2. e \in Range(pending')  BY <3>1 DEF Range
    <3>3. Range(pending) \subseteq Range(pending')  BY <3>1 DEF Range
    <3> QED  BY <3>2, <3>3
  <2>4. Held \cup {e} \subseteq Held'  BY <2>1, <2>3 DEF Held, InFlight, Unsettled
  <2> QED  BY <1>0, <2>1, <2>4 DEF LossInv, NothingLost
<1>6. ASSUME NEW w \in Writes, OnDeadlineStart(w) \/ WriteStep(w)  PROVE LossInv'
  <2>1. UNCHANGED <<logLen, notifying, init, seed>>
    BY <1>6 DEF OnDeadlineStart, WriteStep, SinkWrites, SinkRefuses, SinkFails, SettleOk,
                SettleErr, CloseDone, ContinueAutomaticStops, ContinueAutomaticStarts,
                SinkVars, sessionVars, coordVars
  <2> QED  BY <1>0, <2>1, LossQuiet
<1>7. ASSUME \/ TimerFires \/ OnDeadline
              \/ \E c \in Callers : CallerProgress(c)
      PROVE LossInv'
  <2>1. UNCHANGED <<logLen, notifying, init, seed>>
    BY <1>7 DEF TimerFires, OnDeadline, CallerProgress, FlushInitFailed, FlushJoins,
                FlushBegins, sessionVars, coordVars
  <2> QED  BY <1>0, <2>1, LossQuiet
<1>8. ASSUME DrainProgress \/ UNCHANGED vars  PROVE LossInv'
  <2>1. UNCHANGED <<logLen, notifying, init, seed>>
    BY <1>8 DEF DrainProgress, DrainCheck, DrainAwaited, DrainWrite, DrainWritten,
                DrainEmpty, DrainSettle, vars, sessionVars, coordVars
  <2> QED  BY <1>0, <2>1, LossQuiet
<1> QED  BY <1>1, <1>2, <1>3, <1>4, <1>5, <1>6, <1>7, <1>8 DEF Next

\* An event the observer has handed to the controller is durable, queued or in a
\* batch whose write has not succeeded, for every interleaving of appenders, timer
\* callbacks, overlapping writes, failures and flushes (Enqueue, startWriteLocked).
THEOREM NoEventLost == Spec => []NothingLost
<1>1. Init => LossInv
  <2> SUFFICES ASSUME Init  PROVE NothingLost  BY PrefixInit DEF LossInv
  <2> QED  BY DEF Init, NothingLost
<1>2. LossInv => NothingLost  BY DEF LossInv
<1> QED  BY <1>1, <1>2, LossStep, PTL DEF Spec

-----------------------------------------------------------------------------
(* An event is held once.                                                  *)

\* An event whose observer has not run is not held yet, so queueing it does not
\* repeat one; with HeldOnce that is inductive.
OnceInv == PrefixInv /\ HeldOnce /\ Held \cap notifying = {}

\* Everything the controller holds has been appended to the session.
LEMMA HeldIsAppended == PrefixInv => \A e \in Held : e < logLen
BY DEF PrefixInv, Provenance, Held, InFlight, Unsettled, Range

\* A write goroutine that moves on or ends holds nothing it did not hold.
LEMMA OnceMoves ==
    ASSUME OnceInv, PrefixInv', UNCHANGED pending, notifying' \subseteq notifying,
           \A v \in Writes : write'[v].stage \in {"sink", "err"} =>
              write[v].stage \in {"sink", "err"} /\ write'[v].batch = write[v].batch
    PROVE  OnceInv'
<1>1. Held' \subseteq Held  BY DEF Held, InFlight, Unsettled
<1>2. HeldOnce'  BY DEF OnceInv, HeldOnce, Unsettled
<1> QED  BY <1>1, <1>2 DEF OnceInv

\* startWriteLocked moves the queue into a batch and leaves an empty queue.
LEMMA OnceStart ==
    ASSUME OnceInv, PrefixInv', NEW w \in Writes,
           write'[w].stage = "sink", write'[w].batch = pending,
           pending' = <<>>, UNCHANGED notifying,
           \A v \in Writes : v # w /\ write'[v].stage \in {"sink", "err"} =>
              write[v].stage \in {"sink", "err"} /\ write'[v].batch = write[v].batch
    PROVE  OnceInv'
<1>1. Range(pending') = {}  BY DEF Range
<1>2. Held' \subseteq Held  BY <1>1 DEF Held, InFlight, Unsettled
<1>3. HeldOnce'
  <2>1. \A i, j \in DOMAIN pending' : pending'[i] = pending'[j] => i = j  OBVIOUS
  <2>2. ASSUME NEW v \in Unsettled'
        PROVE  /\ Range(write'[v].batch) \cap Range(pending') = {}
               /\ \A i, j \in DOMAIN write'[v].batch :
                     write'[v].batch[i] = write'[v].batch[j] => i = j
    <3>1. CASE v = w  BY <3>1, <1>1 DEF OnceInv, HeldOnce
    <3>2. CASE v # w
      <4>1. v \in Unsettled /\ write'[v].batch = write[v].batch  BY <3>2 DEF Unsettled
      <4> QED  BY <4>1, <1>1 DEF OnceInv, HeldOnce
    <3> QED  BY <3>1, <3>2
  <2>3. ASSUME NEW u \in Unsettled', NEW v \in Unsettled', u # v
        PROVE  Range(write'[u].batch) \cap Range(write'[v].batch) = {}
    <3>1. \A x \in Unsettled' : x # w => x \in Unsettled /\ write'[x].batch = write[x].batch
      BY DEF Unsettled
    <3> QED  BY <2>3, <3>1 DEF OnceInv, HeldOnce
  <2> QED  BY <2>1, <2>2, <2>3 DEF HeldOnce
<1> QED  BY <1>2, <1>3 DEF OnceInv

\* Two sequences without repetitions and without a common element make a longer
\* one without repetitions.
LEMMA ConcatInjective ==
    ASSUME NEW s \in Seq(Events), NEW t \in Seq(Events),
           \A i, j \in DOMAIN s : s[i] = s[j] => i = j,
           \A i, j \in DOMAIN t : t[i] = t[j] => i = j,
           Range(s) \cap Range(t) = {}
    PROVE  \A i, j \in DOMAIN (s \o t) : (s \o t)[i] = (s \o t)[j] => i = j
<1>1. /\ DOMAIN s = 1 .. Len(s) /\ Len(s) \in Nat
      /\ DOMAIN t = 1 .. Len(t) /\ Len(t) \in Nat
      /\ DOMAIN (s \o t) = 1 .. Len(s) + Len(t)
  BY LenProperties, ConcatProperties
<1>2. \A i \in DOMAIN (s \o t) :
         \/ i \in DOMAIN s /\ (s \o t)[i] = s[i]
         \/ i - Len(s) \in DOMAIN t /\ i > Len(s) /\ (s \o t)[i] = t[i - Len(s)]
  BY <1>1, ConcatProperties
<1>3. \A i \in DOMAIN s, j \in DOMAIN t : s[i] # t[j]  BY DEF Range
<1> SUFFICES ASSUME NEW i \in DOMAIN (s \o t), NEW j \in DOMAIN (s \o t),
                    (s \o t)[i] = (s \o t)[j]
             PROVE  i = j
  OBVIOUS
<1>4. i \in Int /\ j \in Int /\ Len(s) \in Int  BY <1>1
<1>5. CASE i \in DOMAIN s /\ (s \o t)[i] = s[i] /\ j \in DOMAIN s /\ (s \o t)[j] = s[j]
  BY <1>5
<1>6. CASE i - Len(s) = j - Len(s)  BY <1>4, <1>6
<1> QED  BY <1>2, <1>3, <1>5, <1>6

\* The steps that touch neither the queue nor the batches.
LEMMA QueueQuiet ==
    ASSUME \/ AttachLive \/ InitializeOk \/ InitializeFails \/ TimerFires \/ OnDeadline
           \/ \E c \in Callers : FlushSession(c) \/ CallerProgress(c)
           \/ DrainCheck \/ DrainAwaited \/ DrainWritten \/ DrainEmpty \/ DrainSettle
           \/ UNCHANGED vars
    PROVE  UNCHANGED <<notifying, pending, write>>
<1>1. CASE AttachLive \/ InitializeOk \/ InitializeFails
  BY <1>1 DEF AttachLive, InitializeOk, InitializeFails, sessionVars, controllerVars
<1>2. CASE TimerFires \/ OnDeadline
  BY <1>2 DEF TimerFires, OnDeadline, sessionVars
<1>3. CASE \E c \in Callers : FlushSession(c) \/ CallerProgress(c)
  BY <1>3 DEF FlushSession, CallerProgress, FlushInitFailed, FlushJoins, FlushBegins,
              sessionVars, controllerVars
<1>4. CASE DrainCheck \/ DrainAwaited \/ DrainWritten
  BY <1>4 DEF DrainCheck, DrainAwaited, DrainWritten, sessionVars, controllerVars
<1>5. CASE DrainEmpty \/ DrainSettle
  BY <1>5 DEF DrainEmpty, DrainSettle, sessionVars, controllerVars
<1>6. CASE UNCHANGED vars  BY <1>6 DEF vars, sessionVars
<1> QED  BY <1>1, <1>2, <1>3, <1>4, <1>5, <1>6

\* No step makes the controller hold an event twice.
LEMMA OnceStep == OnceInv /\ [Next]_vars => OnceInv'
<1> SUFFICES ASSUME OnceInv, [Next]_vars  PROVE OnceInv'  OBVIOUS
<1>0. TypeOK /\ PrefixInv /\ PrefixInv'  BY PrefixStep DEF OnceInv, PrefixInv
<1>1. CASE SessionAppend
  <2>1. UNCHANGED <<pending, write>> /\ notifying' = notifying \cup {logLen}
    BY <1>1 DEF SessionAppend, controllerVars
  <2>2. Held' = Held /\ (HeldOnce' <=> HeldOnce)
    BY <2>1 DEF Held, InFlight, Unsettled, HeldOnce
  <2>3. logLen \notin Held
    <3>1. logLen \in Nat  BY <1>0 DEF TypeOK
    <3> QED  BY <1>0, <3>1, HeldIsAppended
  <2> QED  BY <1>0, <2>1, <2>2, <2>3 DEF OnceInv
<1>2. ASSUME NEW e \in notifying, Enqueue(e)  PROVE OnceInv'
  <2>1. /\ UNCHANGED write
        /\ notifying' = notifying \ {e}
        /\ pending' = Append(pending, e)
    BY <1>2 DEF Enqueue
  <2>2. pending \in Seq(Events) /\ e \in Events  BY <1>0 DEF TypeOK
  <2>3. e \notin Held  BY DEF OnceInv
  <2>4. /\ DOMAIN pending = 1 .. Len(pending) /\ Len(pending) \in Nat
        /\ DOMAIN pending' = 1 .. Len(pending) + 1
        /\ pending'[Len(pending) + 1] = e
        /\ \A i \in 1 .. Len(pending) : pending'[i] = pending[i]
    BY <2>1, <2>2, AppendProperties, LenProperties
  <2>5. Range(pending') = Range(pending) \cup {e}  BY <2>4 DEF Range
  <2>6. Held' = Held \cup {e}  BY <2>1, <2>5 DEF Held, InFlight, Unsettled
  <2>7. ASSUME NEW i \in DOMAIN pending', NEW j \in DOMAIN pending', pending'[i] = pending'[j]
        PROVE  i = j
    <3>1. \A k \in DOMAIN pending : pending[k] # e  BY <2>3 DEF Held, Range
    <3>2. \A k \in DOMAIN pending' : k \in DOMAIN pending \/ k = Len(pending) + 1  BY <2>4
    <3>3. \A k, l \in DOMAIN pending : pending[k] = pending[l] => k = l  BY DEF OnceInv, HeldOnce
    <3> QED  BY <2>4, <2>7, <3>1, <3>2, <3>3
  <2>8. \A v \in Unsettled : e \notin Range(write[v].batch)  BY <2>3 DEF Held, InFlight
  <2>9. HeldOnce'
    <3>1. Unsettled' = Unsettled  BY <2>1 DEF Unsettled
    <3>2. \A v \in Unsettled : Range(write[v].batch) \cap Range(pending') = {}
      BY <2>5, <2>8 DEF OnceInv, HeldOnce
    <3>3. /\ \A v \in Unsettled : \A i, j \in DOMAIN write[v].batch :
                write[v].batch[i] = write[v].batch[j] => i = j
          /\ \A u, v \in Unsettled : u # v =>
                Range(write[u].batch) \cap Range(write[v].batch) = {}
      BY DEF OnceInv, HeldOnce
    <3>4. \A i, j \in DOMAIN pending' : pending'[i] = pending'[j] => i = j  BY <2>7
    <3> HIDE <2>7
    <3> QED  BY <2>1, <3>1, <3>2, <3>3, <3>4 DEF HeldOnce
  <2> QED  BY <1>0, <2>1, <2>6, <2>9 DEF OnceInv
<1>3. ASSUME NEW w \in Writes, OnDeadlineStart(w) \/ DrainWrite(w)  PROVE OnceInv'
  <2>1. \E b \in BOOLEAN : StartWrite(w, b)  BY <1>3 DEF OnDeadlineStart, DrainWrite
  <2>2. /\ write'[w].stage = "sink" /\ write'[w].batch = pending /\ pending' = <<>>
        /\ \A v \in Writes : v # w => write'[v] = write[v]
    BY <1>0, <2>1 DEF StartWrite, LeftPending, TypeOK
  <2>3. UNCHANGED notifying  BY <1>3 DEF OnDeadlineStart, DrainWrite, sessionVars
  <2> QED  BY <1>0, <2>2, <2>3, OnceStart
<1>4. ASSUME NEW w \in Writes, NEW next \in Writes, ContinueAutomaticStarts(w, next)
      PROVE OnceInv'
  <2>1. /\ write'[next].stage = "sink" /\ write'[next].batch = pending /\ pending' = <<>>
        /\ \A v \in Writes : v # next => write'[v] = write[v] \/ write'[v].stage = "none"
    BY <1>0, <1>4 DEF ContinueAutomaticStarts, LeftPending, NoBatch, TypeOK
  <2>2. UNCHANGED notifying  BY <1>4 DEF ContinueAutomaticStarts, sessionVars
  <2> QED  BY <1>0, <2>1, <2>2, OnceStart
<1>5. ASSUME NEW w \in Writes, \/ SinkWrites(w) \/ SinkRefuses(w) \/ SinkFails(w)
                               \/ SettleOk(w) \/ CloseDone(w) \/ ContinueAutomaticStops(w)
      PROVE OnceInv'
  <2>1. \A v \in Writes : write'[v].stage \in {"sink", "err"} =>
              write[v].stage \in {"sink", "err"} /\ write'[v].batch = write[v].batch
    <3> USE <1>0 DEF TypeOK, WriteRecord
    <3>1. CASE SinkWrites(w)  BY <3>1 DEF SinkWrites
    <3>2. CASE SinkRefuses(w)  BY <3>2 DEF SinkRefuses
    <3>3. CASE SinkFails(w)  BY <3>3 DEF SinkFails
    <3>4. CASE SettleOk(w)  BY <3>4 DEF SettleOk
    <3>5. CASE CloseDone(w)  BY <3>5 DEF CloseDone, NoBatch
    <3>6. CASE ContinueAutomaticStops(w)  BY <3>6 DEF ContinueAutomaticStops, NoBatch
    <3> QED  BY <1>5, <3>1, <3>2, <3>3, <3>4, <3>5, <3>6
  <2>2. UNCHANGED <<notifying, pending>>
    BY <1>5 DEF SinkWrites, SinkRefuses, SinkFails, SettleOk, CloseDone,
                ContinueAutomaticStops, SinkVars, sessionVars, controllerVars
  <2> QED  BY <1>0, <2>1, <2>2, OnceMoves
<1>6. ASSUME NEW w \in Writes, SettleErr(w)  PROVE OnceInv'
  <2>1. /\ UNCHANGED notifying /\ pending' = write[w].batch \o pending
        /\ write[w].stage = "err"
    BY <1>6 DEF SettleErr, RetainFailed, sessionVars
  <2>2. write[w].batch \in Seq(Events) /\ pending \in Seq(Events)
    BY <1>0 DEF TypeOK, WriteRecord
  <2>3. Range(pending') = Range(write[w].batch) \cup Range(pending)
    BY <2>1, <2>2, RangeConcatenation
  <2>4. /\ \A v \in Writes : v # w => write'[v] = write[v]
        /\ write'[w].stage = "closingErr"
    BY <1>0, <1>6 DEF SettleErr, TypeOK, WriteRecord
  <2>5. w \in Unsettled /\ Unsettled' \subseteq Unsettled \ {w}  BY <2>1, <2>4 DEF Unsettled
  <2>6. \A v \in Unsettled' : write'[v] = write[v]  BY <2>4, <2>5 DEF Unsettled
  <2>7. Held' \subseteq Held  BY <2>3, <2>5, <2>6 DEF Held, InFlight
  <2>8. \A i, j \in DOMAIN pending' : pending'[i] = pending'[j] => i = j
    <3>1. /\ \A i, j \in DOMAIN pending : pending[i] = pending[j] => i = j
          /\ \A i, j \in DOMAIN write[w].batch : write[w].batch[i] = write[w].batch[j] => i = j
          /\ Range(write[w].batch) \cap Range(pending) = {}
      BY <2>5 DEF OnceInv, HeldOnce
    <3> QED  BY <2>1, <2>2, <3>1, ConcatInjective
  <2>9. HeldOnce'  BY <2>3, <2>5, <2>6, <2>8 DEF OnceInv, HeldOnce
  <2> QED  BY <1>0, <2>1, <2>7, <2>9 DEF OnceInv
<1>7. ASSUME \/ AttachLive \/ InitializeOk \/ InitializeFails \/ TimerFires \/ OnDeadline
             \/ \E c \in Callers : FlushSession(c) \/ CallerProgress(c)
             \/ DrainCheck \/ DrainAwaited \/ DrainWritten \/ DrainEmpty \/ DrainSettle
             \/ UNCHANGED vars
      PROVE OnceInv'
  <2>1. UNCHANGED <<notifying, pending, write>>  BY <1>7, QueueQuiet
  <2> QED  BY <1>0, <2>1, OnceMoves
<1> QED
  BY <1>1, <1>2, <1>3, <1>4, <1>5, <1>6, <1>7 DEF Next, WriteStep, DrainProgress

\* The queue and the batches whose write has not succeeded never hold an event
\* twice, however often a failed batch is put back in front of the queue and
\* however many writes overlap (startWriteLocked and its retention on failure).
THEOREM EventsAreHeldOnce == Spec => []HeldOnce
<1>1. Init => OnceInv
  <2> SUFFICES ASSUME Init  PROVE HeldOnce /\ Held \cap notifying = {}
    BY PrefixInit DEF OnceInv
  <2>1. \A w \in Writes : write[w].stage = "none"  BY DEF Init, NoBatch
  <2>2. Unsettled = {}  BY <2>1 DEF Unsettled
  <2> QED  BY <2>2 DEF Init, HeldOnce
<1>2. OnceInv => HeldOnce  BY DEF OnceInv
<1> QED  BY <1>1, <1>2, OnceStep, PTL DEF Spec
=============================================================================
