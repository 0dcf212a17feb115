------------------------- MODULE JobRegistry_proofs --------------------------
(***************************************************************************)
(* Machine-checked proofs about JobRegistry, for every finite set of jobs  *)
(* and waiters, every quota and every wake budget, with at most one        *)
(* teardown.                                                               *)
(***************************************************************************)
EXTENDS JobRegistry, FiniteSetTheorems, TLAPS

-----------------------------------------------------------------------------
(* The wait counts, and with them the types.                               *)

\* The goroutines that wait on a job.
On(j) == {w \in Waiters : waiter[w].on = j}

\* The jobs that are past their registration.
Known == {j \in Jobs : job[j].status \notin {"none", "starting"}}

\* A job's count is the number of its waits, and only registered jobs are waited on.
WaitInv ==
    /\ \A j \in Jobs : job[j].waiters = Cardinality(On(j))
    /\ \A w \in Waiters : waiter[w].pc = "waiting" <=> waiter[w].on # NoJob
    /\ \A w \in Waiters : waiter[w].on # NoJob => waiter[w].on \in Known
    /\ store \subseteq Known /\ killing \subseteq Known

\* A teardown works on its snapshot of the store, one job after the other; the job it is
\* at was claimed before its producer is told to stop.
TeardownShape(t) ==
    /\ teardown[t].snap \subseteq Known
    /\ teardown[t].todo \subseteq teardown[t].snap
    /\ teardown[t].pc \in {"cancelling", "settling", "mark"} <=> teardown[t].on # NoJob
    /\ teardown[t].on # NoJob =>
          teardown[t].on \in (teardown[t].snap \ teardown[t].todo) \cap told
    /\ teardown[t].pc = "idle" => teardown[t].snap = {}
    /\ teardown[t].pc # "done" => teardown[t].snap \subseteq store
    /\ teardown[t].pc = "done" => teardown[t].todo = {}

\* There is one teardown, and it has this shape.
TeardownInv ==
    /\ \A t, u \in Teardowns : teardown[t].pc # "idle" /\ teardown[u].pc # "idle" => t = u
    /\ \A t \in Teardowns : TeardownShape(t)

\* The type of a job's record, as TypeOK has it.
JobRecord == [status : Statuses, reported : BOOLEAN, waiters : Nat, settled : BOOLEAN]

\* A record keeps its type when its status is written.
LEMMA StatusMoves ==
    ASSUME NEW f \in [Jobs -> JobRecord], NEW j \in Jobs, NEW s \in Statuses
    PROVE  [f EXCEPT ![j].status = s] \in [Jobs -> JobRecord]
BY DEF JobRecord

\* A record keeps its type when its report is claimed.
LEMMA ReportMoves ==
    ASSUME NEW f \in [Jobs -> JobRecord], NEW j \in Jobs, NEW b \in BOOLEAN
    PROVE  [f EXCEPT ![j].reported = b] \in [Jobs -> JobRecord]
BY DEF JobRecord

\* A record keeps its type when its job ends.
LEMMA EndMoves ==
    ASSUME NEW f \in [Jobs -> JobRecord], NEW j \in Jobs, NEW b \in BOOLEAN
    PROVE  [f EXCEPT ![j].status = "ended", ![j].settled = TRUE, ![j].reported = b]
              \in [Jobs -> JobRecord]
<1>1. f[j] \in JobRecord  OBVIOUS
<1>2. [f[j] EXCEPT !.status = "ended", !.settled = TRUE, !.reported = b] \in JobRecord
  BY <1>1 DEF JobRecord, Statuses
<1>3. [f EXCEPT ![j] = [f[j] EXCEPT !.status = "ended", !.settled = TRUE, !.reported = b]]
         \in [Jobs -> JobRecord]
  BY <1>2
<1> QED  BY <1>3

\* A record keeps its type when a wait is counted in or out.
LEMMA CountMoves ==
    ASSUME NEW f \in [Jobs -> JobRecord], NEW j \in Jobs, NEW n \in Nat, NEW b \in BOOLEAN
    PROVE  /\ [f EXCEPT ![j].waiters = n] \in [Jobs -> JobRecord]
           /\ [f EXCEPT ![j].waiters = n, ![j].reported = b] \in [Jobs -> JobRecord]
<1>1. [f EXCEPT ![j].waiters = n] \in [Jobs -> JobRecord]  BY DEF JobRecord
<1>2. [f EXCEPT ![j].waiters = n, ![j].reported = b] \in [Jobs -> JobRecord]  BY DEF JobRecord
<1> QED  BY <1>1, <1>2

\* The type of a teardown, as TypeOK has it.
TeardownRecord ==
    [pc : TeardownPcs, snap : SUBSET Jobs, todo : SUBSET Jobs, on : Jobs \cup {NoJob}]

\* A teardown keeps its type when it moves on.
LEMMA TeardownMoves ==
    ASSUME NEW f \in [Teardowns -> TeardownRecord], NEW t \in Teardowns,
           NEW p \in TeardownPcs, NEW o \in Jobs \cup {NoJob}, NEW d \in SUBSET Jobs
    PROVE  /\ [f EXCEPT ![t].pc = p] \in [Teardowns -> TeardownRecord]
           /\ [f EXCEPT ![t].pc = p, ![t].on = o] \in [Teardowns -> TeardownRecord]
           /\ [f EXCEPT ![t].todo = d, ![t].on = o, ![t].pc = p] \in [Teardowns -> TeardownRecord]
<1>1. [f EXCEPT ![t].pc = p] \in [Teardowns -> TeardownRecord]  BY DEF TeardownRecord
<1>2. [f EXCEPT ![t].pc = p, ![t].on = o] \in [Teardowns -> TeardownRecord]  BY DEF TeardownRecord
<1>3. [f EXCEPT ![t].todo = d, ![t].on = o, ![t].pc = p] \in [Teardowns -> TeardownRecord]
  <2>1. f[t] \in TeardownRecord  OBVIOUS
  <2>2. [f[t] EXCEPT !.todo = d, !.on = o, !.pc = p] \in TeardownRecord
    BY <2>1 DEF TeardownRecord
  <2>3. [f EXCEPT ![t] = [f[t] EXCEPT !.todo = d, !.on = o, !.pc = p]]
           \in [Teardowns -> TeardownRecord]
    BY <2>2
  <2> QED  BY <2>3
<1> QED  BY <1>1, <1>2, <1>3

\* The type of a settlement, as TypeOK has it, and how it moves.
SettleRecord == [pc : SettlePcs, reported : BOOLEAN]

\* A settlement keeps its type when it moves on.
LEMMA SettleMoves ==
    ASSUME NEW f \in [Jobs -> SettleRecord], NEW j \in Jobs, NEW p \in SettlePcs
    PROVE  /\ [f EXCEPT ![j].pc = p] \in [Jobs -> SettleRecord]
           /\ [f EXCEPT ![j] = NoSettle] \in [Jobs -> SettleRecord]
           /\ \A b \in BOOLEAN :
                 [f EXCEPT ![j] = [pc |-> p, reported |-> b]] \in [Jobs -> SettleRecord]
<1>1. [f EXCEPT ![j].pc = p] \in [Jobs -> SettleRecord]  BY DEF SettleRecord
<1>2. NoSettle \in SettleRecord /\ \A b \in BOOLEAN : [pc |-> p, reported |-> b] \in SettleRecord
  BY DEF SettleRecord, NoSettle, SettlePcs
<1> QED  BY <1>1, <1>2

\* The jobs registry starts in its type.
LEMMA TypeInit == Init => TypeOK
<1> SUFFICES ASSUME Init  PROVE TypeOK  OBVIOUS
<1>1. job \in [Jobs -> JobRecord]  BY DEF Init, NewJob, JobRecord, Statuses
<1>2. /\ settling \in [Jobs -> [pc : SettlePcs, reported : BOOLEAN]]
      /\ waiter \in [Waiters -> [pc : {"idle", "waiting"}, on : Jobs \cup {NoJob}]]
  BY DEF Init, NoSettle, NoWait, SettlePcs
<1>3. teardown \in [Teardowns -> [pc : TeardownPcs, snap : SUBSET Jobs,
                                  todo : SUBSET Jobs, on : Jobs \cup {NoJob}]]
  BY DEF Init, TeardownPcs
<1> QED  BY <1>1, <1>2, <1>3 DEF Init, TypeOK, JobRecord

\* settle keeps the record and the settlement in their types.
LEMMA SettleType ==
    ASSUME TypeOK, NEW j \in Jobs, Settle(j)
    PROVE  job' \in [Jobs -> JobRecord] /\ settling' \in [Jobs -> SettleRecord]
<1>0. job \in [Jobs -> JobRecord] /\ settling \in [Jobs -> SettleRecord]
  BY DEF TypeOK, JobRecord, SettleRecord
<1>1. CASE IsTerminal(j)  BY <1>0, <1>1 DEF Settle
<1>2. CASE ~IsTerminal(j)
  <2>1. ReportsAtSettle(j) \in BOOLEAN  BY DEF ReportsAtSettle
  <2>2. "committed" \in SettlePcs  BY DEF SettlePcs
  <2>3. /\ job' = [job EXCEPT ![j].status = "ended", ![j].settled = TRUE,
                              ![j].reported = ReportsAtSettle(j)]
        /\ settling' = [settling EXCEPT ![j] = [pc |-> "committed",
                                                reported |-> ReportsAtSettle(j)]]
    BY <1>2 DEF Settle
  <2>4. job' \in [Jobs -> JobRecord]  BY ONLY <1>0, <2>1, <2>3, EndMoves, j \in Jobs
  <2>5. settling' \in [Jobs -> SettleRecord]
    BY ONLY <1>0, <2>1, <2>2, <2>3, SettleMoves, j \in Jobs
  <2> QED  BY <2>4, <2>5
<1> QED  BY <1>1, <1>2

\* A wait that ends finds itself counted.
LEMMA CountOutIsNat ==
    ASSUME TypeOK, WaitInv, NEW w \in Waiters, waiter[w].pc = "waiting"
    PROVE  waiter[w].on \in Jobs /\ CountOut(waiter[w].on) \in Nat
<1> DEFINE j == waiter[w].on
<1>1. j \in Jobs /\ w \in On(j)  BY DEF WaitInv, Known, On
<1>2. IsFiniteSet(On(j))  BY JobsAssumption, FS_Subset DEF On
<1>3. Cardinality(On(j)) \in Nat /\ Cardinality(On(j)) # 0
  BY <1>1, <1>2, FS_CardinalityType, FS_EmptySet
<1>4. job[j].waiters = Cardinality(On(j))  BY <1>1 DEF WaitInv
<1> QED  BY <1>1, <1>3, <1>4 DEF CountOut

\* Every step keeps every variable in its type; a wait's count is never below zero.
LEMMA TypeStep == TypeOK /\ WaitInv /\ TeardownInv /\ [Next]_vars => TypeOK'
<1> SUFFICES ASSUME TypeOK, WaitInv, TeardownInv, [Next]_vars  PROVE TypeOK'  OBVIOUS
<1> DEFINE Work == [Jobs -> [state : {"none", "working", "posted", "observed"},
                             cancelled : BOOLEAN]]
           Wait == [Waiters -> [pc : {"idle", "waiting"}, on : Jobs \cup {NoJob}]]
<1>0. /\ job \in [Jobs -> JobRecord] /\ settling \in [Jobs -> SettleRecord]
      /\ teardown \in [Teardowns -> TeardownRecord] /\ producer \in Work /\ waiter \in Wait
  BY DEF TypeOK, JobRecord, SettleRecord, TeardownRecord
<1>1. /\ \A s \in {"starting", "running", "stopping", "ended"} : s \in Statuses
      /\ \A p \in {"cancel", "cancelling", "settling", "mark", "done"} : p \in TeardownPcs
      /\ \A p \in {"listeners", "deliver"} : p \in SettlePcs
      /\ NewJob \in JobRecord
  BY DEF Statuses, TeardownPcs, SettlePcs, NewJob, JobRecord
<1>2. ASSUME job' \in [Jobs -> JobRecord], settling' \in [Jobs -> SettleRecord],
             teardown' \in [Teardowns -> TeardownRecord], producer' \in Work, waiter' \in Wait,
             store' \in SUBSET Jobs, killing' \in SUBSET Jobs, listenersClosed' \in BOOLEAN,
             spent' \in Nat, seen' \in Nat, wakes' \in Nat,
             told' \in SUBSET Jobs, abandoned' \in SUBSET Jobs
      PROVE  TypeOK'
  BY <1>2 DEF TypeOK, JobRecord, SettleRecord, TeardownRecord
<1> USE DEF deliveryVars, history
<1>3. /\ store \in SUBSET Jobs /\ killing \in SUBSET Jobs /\ listenersClosed \in BOOLEAN
      /\ spent \in Nat /\ seen \in Nat /\ wakes \in Nat
      /\ told \in SUBSET Jobs /\ abandoned \in SUBSET Jobs
  BY DEF TypeOK
<1> HIDE DEF Work, Wait
<1>4. ASSUME NEW j \in Jobs, StartAdmitted(j)  PROVE TypeOK'
  <2>1. job' \in [Jobs -> JobRecord]  BY <1>0, <1>1, <1>4, StatusMoves DEF StartAdmitted
  <2> QED  BY <1>0, <1>2, <1>3, <1>4, <2>1 DEF StartAdmitted
<1>5. ASSUME NEW j \in Jobs, RunFails(j)  PROVE TypeOK'
  <2>1. job' \in [Jobs -> JobRecord]  BY <1>0, <1>1, <1>5 DEF RunFails
  <2> QED  BY <1>0, <1>2, <1>3, <1>5, <2>1 DEF RunFails
<1>6. ASSUME NEW j \in Jobs, Register(j)  PROVE TypeOK'
  <2>1. job' \in [Jobs -> JobRecord]  BY <1>0, <1>1, <1>6, StatusMoves DEF Register
  <2>2. producer' \in Work  BY <1>0, <1>6 DEF Register, Work
  <2> QED  BY <1>0, <1>2, <1>3, <1>6, <2>1, <2>2 DEF Register
<1>7. ASSUME NEW j \in Jobs, ProducerEnds(j)  PROVE TypeOK'
  <2>1. producer' \in Work  BY <1>0, <1>7 DEF ProducerEnds, Work
  <2> QED  BY <1>0, <1>2, <1>3, <1>7, <2>1 DEF ProducerEnds
<1>8. ASSUME NEW j \in Jobs, Observe(j)  PROVE TypeOK'
  <2>1. producer' \in Work  BY <1>0, <1>8 DEF Observe, Work
  <2>2. Settle(j)  BY <1>8 DEF Observe
  <2>3. job' \in [Jobs -> JobRecord] /\ settling' \in [Jobs -> SettleRecord]
    BY <2>2, SettleType
  <2> QED  BY <1>0, <1>2, <1>3, <1>8, <2>1, <2>3 DEF Observe
<1>9. ASSUME NEW j \in Jobs, ResolveListeners(j)  PROVE TypeOK'
  <2>1. settling' \in [Jobs -> SettleRecord]
    <3>1. \/ settling' = [settling EXCEPT ![j] = NoSettle]
          \/ settling' = [settling EXCEPT ![j].pc = "listeners"]
      BY <1>0, <1>9 DEF ResolveListeners
    <3>2. settling \in [Jobs -> SettleRecord] /\ "listeners" \in SettlePcs  BY <1>0, <1>1
    <3>3. [settling EXCEPT ![j].pc = "listeners"] \in [Jobs -> SettleRecord]
      BY ONLY <1>9, <3>2, SettleMoves
    <3>4. [settling EXCEPT ![j] = NoSettle] \in [Jobs -> SettleRecord]
      BY ONLY <1>9, <3>2, SettleMoves
    <3> QED  BY ONLY <3>1, <3>3, <3>4
  <2> QED  BY <1>0, <1>2, <1>3, <1>9, <2>1 DEF ResolveListeners
<1>10. ASSUME NEW j \in Jobs, DeliverReads(j)  PROVE TypeOK'
  <2>1. settling' \in [Jobs -> SettleRecord]
    <3>1. \/ settling' = [settling EXCEPT ![j] = NoSettle]
          \/ settling' = [settling EXCEPT ![j].pc = "deliver"]
      BY <1>10 DEF DeliverReads
    <3>2. settling \in [Jobs -> SettleRecord] /\ "deliver" \in SettlePcs  BY <1>0, <1>1
    <3>3. [settling EXCEPT ![j].pc = "deliver"] \in [Jobs -> SettleRecord]
      BY ONLY <1>10, <3>2, SettleMoves
    <3>4. [settling EXCEPT ![j] = NoSettle] \in [Jobs -> SettleRecord]
      BY ONLY <1>10, <3>2, SettleMoves
    <3> QED  BY ONLY <3>1, <3>3, <3>4
  <2>2. seen' \in Nat  BY <1>3, <1>10 DEF DeliverReads
  <2> QED  BY <1>0, <1>2, <1>3, <1>10, <2>1, <2>2 DEF DeliverReads
<1>11. ASSUME NEW j \in Jobs, DeliverSends(j)  PROVE TypeOK'
  <2>1. settling' \in [Jobs -> SettleRecord]
    <3>1. settling' = [settling EXCEPT ![j] = NoSettle]  BY <1>11 DEF DeliverSends
    <3> QED  BY <1>0, <1>1, <3>1, SettleMoves
  <2>2. seen' \in Nat /\ spent' \in Nat /\ wakes' \in Nat /\ told' \in SUBSET Jobs
    BY <1>3, <1>11 DEF DeliverSends, Charge
  <2> QED  BY <1>0, <1>2, <1>3, <1>11, <2>1, <2>2 DEF DeliverSends
<1>12. CASE HumanClaims  BY <1>0, <1>2, <1>3, <1>12 DEF HumanClaims
<1>13. ASSUME NEW j \in Jobs, Read(j)  PROVE TypeOK'
  <2>1. job' \in [Jobs -> JobRecord]  BY <1>0, <1>1, <1>13, ReportMoves DEF Read
  <2> QED  BY <1>0, <1>2, <1>3, <1>13, <2>1 DEF Read
<1>14. ASSUME NEW j \in Jobs, KillLive(j) \/ KillRefused(j)  PROVE TypeOK'
  BY <1>0, <1>2, <1>3, <1>14 DEF KillLive, KillRefused
<1>15. ASSUME NEW j \in Jobs, KillCancels(j)  PROVE TypeOK'
  <2>1. producer' \in Work  BY <1>0, <1>15 DEF KillCancels, Work
  <2> QED  BY <1>0, <1>2, <1>3, <1>15, <2>1 DEF KillCancels
<1>16. ASSUME NEW j \in Jobs, KillMarks(j)  PROVE TypeOK'
  <2>1. job' \in [Jobs -> JobRecord]
    <3>1. \/ job' = job
          \/ job' = [[job EXCEPT ![j].status = "stopping"] EXCEPT ![j].reported = TRUE]
      BY <1>0, <1>16 DEF KillMarks
    <3>2. [job EXCEPT ![j].status = "stopping"] \in [Jobs -> JobRecord]
      BY <1>0, <1>1, StatusMoves
    <3> QED  BY <1>0, <3>1, <3>2, ReportMoves
  <2> QED  BY <1>0, <1>2, <1>3, <1>16, <2>1 DEF KillMarks
<1>17. ASSUME NEW w \in Waiters, NEW j \in Jobs, WaitBegins(w, j)  PROVE TypeOK'
  <2>1. job' \in [Jobs -> JobRecord]
    <3>1. job[j].waiters + 1 \in Nat  BY <1>0 DEF JobRecord
    <3>2. job' = [job EXCEPT ![j].waiters = job[j].waiters + 1]  BY <1>0, <1>17 DEF WaitBegins
    <3> QED  BY <1>0, <3>1, <3>2, CountMoves
  <2>2. waiter' \in Wait  BY <1>0, <1>17 DEF WaitBegins, Wait
  <2> QED  BY <1>0, <1>2, <1>3, <1>17, <2>1, <2>2 DEF WaitBegins
<1>18. ASSUME NEW w \in Waiters, WaitReturns(w) \/ WaitAborts(w)  PROVE TypeOK'
  <2> DEFINE j == waiter[w].on
             b == job[j].reported \/ IsTerminal(j)
  <2>1. j \in Jobs /\ CountOut(j) \in Nat
    BY <1>18, CountOutIsNat DEF WaitReturns, WaitAborts
  <2>2. waiter' \in Wait
    <3>1. waiter' = [waiter EXCEPT ![w] = NoWait]  BY <1>18 DEF WaitReturns, WaitAborts
    <3> QED  BY <1>0, <3>1 DEF Wait, NoWait
  <2>3. \/ job' = [job EXCEPT ![j].waiters = CountOut(j)]
        \/ job' = [job EXCEPT ![j].waiters = CountOut(j), ![j].reported = b]
    BY <1>0, <1>18, <2>1 DEF WaitReturns, WaitAborts
  <2>4. b \in BOOLEAN  OBVIOUS
  <2>5. job' \in [Jobs -> JobRecord]
    <3> HIDE DEF j, b
    <3>1. CASE job' = [job EXCEPT ![j].waiters = CountOut(j)]
      BY ONLY <1>0, <2>1, <2>4, <3>1, CountMoves
    <3>2. CASE job' = [job EXCEPT ![j].waiters = CountOut(j), ![j].reported = b]
      BY ONLY <1>0, <2>1, <2>4, <3>2, CountMoves
    <3> QED  BY <2>3, <3>1, <3>2
  <2>6. told' \in SUBSET Jobs /\ abandoned' \in SUBSET Jobs
    BY <1>3, <1>18, <2>1 DEF WaitReturns, WaitAborts
  <2>7. UNCHANGED <<store, producer, settling, killing, teardown, listenersClosed, deliveryVars>>
    BY <1>18 DEF WaitReturns, WaitAborts
  <2> QED  BY <1>0, <1>2, <1>3, <2>2, <2>5, <2>6, <2>7
<1>19. ASSUME NEW t \in Teardowns, TeardownBegins(t)  PROVE TypeOK'
  <2>1. teardown' \in [Teardowns -> TeardownRecord]
    BY <1>0, <1>1, <1>3, <1>19 DEF TeardownBegins, TeardownRecord
  <2> QED  BY <1>0, <1>2, <1>3, <1>19, <2>1 DEF TeardownBegins
<1>20. ASSUME NEW t \in Teardowns, TeardownPicks(t)  PROVE TypeOK'
  <2>1. PICK j \in teardown[t].todo :
          /\ teardown' = [teardown EXCEPT ![t].todo = @ \ {j},
                              ![t].on = IF IsTerminal(j) THEN NoJob ELSE j,
                              ![t].pc = IF IsTerminal(j) THEN "cancel" ELSE "cancelling"]
          /\ job' = [job EXCEPT ![j].reported = @ \/ ~IsTerminal(j)]
          /\ told' = IF IsTerminal(j) THEN told ELSE told \cup {j}
          /\ UNCHANGED <<store, producer, settling, killing, waiter, listenersClosed,
                         deliveryVars, abandoned>>
    BY <1>20 DEF TeardownPicks
  <2>2. j \in Jobs /\ teardown[t].todo \ {j} \in SUBSET Jobs  BY <1>0 DEF TeardownRecord
  <2>3. job' \in [Jobs -> JobRecord]
    <3> DEFINE b == job[j].reported \/ ~IsTerminal(j)
    <3>1. b \in BOOLEAN  OBVIOUS
    <3>2. job' = [job EXCEPT ![j].reported = b]  BY <1>0, <2>1, <2>2
    <3> HIDE DEF b
    <3> QED  BY ONLY <1>0, <2>2, <3>1, <3>2, ReportMoves
  <2>4. teardown' \in [Teardowns -> TeardownRecord]
    <3> DEFINE d == teardown[t].todo \ {j}
               o == IF IsTerminal(j) THEN NoJob ELSE j
               p == IF IsTerminal(j) THEN "cancel" ELSE "cancelling"
    <3>1. d \in SUBSET Jobs /\ o \in Jobs \cup {NoJob} /\ p \in TeardownPcs  BY <1>1, <2>2
    <3>2. teardown' = [teardown EXCEPT ![t].todo = d, ![t].on = o, ![t].pc = p]  BY <1>0, <2>1
    <3> HIDE DEF d, o, p
    <3> QED  BY ONLY <1>0, <1>20, <3>1, <3>2, TeardownMoves
  <2> QED  BY <1>0, <1>2, <1>3, <2>1, <2>2, <2>3, <2>4
<1>21. ASSUME NEW t \in Teardowns, TeardownCancels(t)  PROVE TypeOK'
  <2>1. teardown' \in [Teardowns -> TeardownRecord]
    BY <1>0, <1>1, <1>21, TeardownMoves DEF TeardownCancels
  <2>2. producer' \in Work  BY <1>0, <1>21 DEF TeardownCancels, Work
  <2> QED  BY <1>0, <1>2, <1>3, <1>21, <2>1, <2>2 DEF TeardownCancels
<1>22. ASSUME NEW t \in Teardowns, TeardownForces(t)  PROVE TypeOK'
  <2>1. teardown' \in [Teardowns -> TeardownRecord]
    BY <1>0, <1>1, <1>22, TeardownMoves DEF TeardownForces
  <2>2. job' \in [Jobs -> JobRecord] /\ settling' \in [Jobs -> SettleRecord]
    <3>1. Settle(teardown[t].on)  BY <1>22 DEF TeardownForces
    <3>2. teardown[t].on \in Jobs  BY <1>22 DEF TeardownForces, TeardownInv, TeardownShape, Known
    <3> QED  BY <3>1, <3>2, SettleType
  <2> QED  BY <1>0, <1>2, <1>3, <1>22, <2>1, <2>2 DEF TeardownForces
<1>23. ASSUME NEW t \in Teardowns, TeardownForced(t)  PROVE TypeOK'
  <2>1. teardown' \in [Teardowns -> TeardownRecord]
    BY <1>0, <1>1, <1>23, TeardownMoves DEF TeardownForced
  <2> QED  BY <1>0, <1>2, <1>3, <1>23, <2>1 DEF TeardownForced
<1>24. ASSUME NEW t \in Teardowns, TeardownMarks(t)  PROVE TypeOK'
  <2>1. teardown' \in [Teardowns -> TeardownRecord]
    BY <1>0, <1>1, <1>24, TeardownMoves DEF TeardownMarks
  <2>2. job' \in [Jobs -> JobRecord]
    <3>1. teardown[t].on \in Jobs  BY <1>24 DEF TeardownMarks, TeardownInv, TeardownShape, Known
    <3> QED  BY <1>0, <1>1, <1>24, <3>1, StatusMoves DEF TeardownMarks
  <2> QED  BY <1>0, <1>2, <1>3, <1>24, <2>1, <2>2 DEF TeardownMarks
<1>25. ASSUME NEW t \in Teardowns, TeardownEnds(t)  PROVE TypeOK'
  <2>1. teardown' \in [Teardowns -> TeardownRecord]
    BY <1>0, <1>1, <1>25, TeardownMoves DEF TeardownEnds
  <2>2. store' \in SUBSET Jobs  BY <1>3, <1>25 DEF TeardownEnds
  <2> QED  BY <1>0, <1>2, <1>3, <1>25, <2>1, <2>2 DEF TeardownEnds
<1>26. CASE UNCHANGED vars  BY <1>0, <1>2, <1>3, <1>26 DEF vars
<1> QED
  BY <1>4, <1>5, <1>6, <1>7, <1>8, <1>9, <1>10, <1>11, <1>12, <1>13, <1>14, <1>15, <1>16,
     <1>17, <1>18, <1>19, <1>20, <1>21, <1>22, <1>23, <1>24, <1>25, <1>26
     DEF Next, SettleStep, KillStep, TeardownStep

-----------------------------------------------------------------------------
(* The waits, and what is known of a job.                                  *)

\* No step forgets a registered job, or takes back what was told, abandoned or closed.
LEMMA NothingForgotten ==
    ASSUME TypeOK, TeardownInv, [Next]_vars
    PROVE  /\ Known \subseteq Known' /\ told \subseteq told' /\ abandoned \subseteq abandoned'
           /\ listenersClosed => listenersClosed'
<1>1. told \subseteq told' /\ abandoned \subseteq abandoned'
      /\ (listenersClosed => listenersClosed')
  <2> DEFINE Kept == told \subseteq told' /\ abandoned \subseteq abandoned'
                       /\ (listenersClosed => listenersClosed')
  <2>1. ASSUME NEW j \in Jobs, DeliverSends(j) \/ Read(j) \/ KillMarks(j)  PROVE Kept
    BY <2>1 DEF DeliverSends, Read, KillMarks
  <2>2. ASSUME NEW w \in Waiters, WaitReturns(w) \/ WaitAborts(w)  PROVE Kept
    BY <2>2 DEF WaitReturns, WaitAborts
  <2>3. ASSUME NEW t \in Teardowns, TeardownBegins(t) \/ TeardownPicks(t)  PROVE Kept
    <3>1. CASE TeardownBegins(t)  BY <3>1 DEF TeardownBegins, TypeOK, history
    <3>2. CASE TeardownPicks(t)  BY <3>2 DEF TeardownPicks
    <3> QED  BY <2>3, <3>1, <3>2
  <2>4. ASSUME UNCHANGED <<told, abandoned, listenersClosed>>  PROVE Kept  BY <2>4
  <2>5. ASSUME NEW j \in Jobs, StartAdmitted(j) \/ RunFails(j) \/ Register(j) \/ ProducerEnds(j)
        PROVE  Kept
    BY <2>4, <2>5 DEF StartAdmitted, RunFails, Register, ProducerEnds, history
  <2>6. ASSUME NEW j \in Jobs, Observe(j) \/ ResolveListeners(j) \/ DeliverReads(j)  PROVE Kept
    BY <2>4, <2>6 DEF Observe, ResolveListeners, DeliverReads, history
  <2>7. ASSUME NEW j \in Jobs, KillLive(j) \/ KillRefused(j) \/ KillCancels(j)  PROVE Kept
    BY <2>4, <2>7 DEF KillLive, KillRefused, KillCancels, history
  <2>8. ASSUME NEW t \in Teardowns,
               \/ TeardownCancels(t) \/ TeardownForces(t) \/ TeardownForced(t)
               \/ TeardownMarks(t) \/ TeardownEnds(t)
        PROVE  Kept
    BY <2>4, <2>8 DEF TeardownCancels, TeardownForces, TeardownForced, TeardownMarks,
                      TeardownEnds, history
  <2>9. ASSUME NEW w \in Waiters, NEW j \in Jobs, WaitBegins(w, j)  PROVE Kept
    BY <2>4, <2>9 DEF WaitBegins, history
  <2>10. CASE HumanClaims \/ UNCHANGED vars  BY <2>4, <2>10 DEF HumanClaims, vars, history
  <2> QED
    BY <2>1, <2>2, <2>3, <2>5, <2>6, <2>7, <2>8, <2>9, <2>10
       DEF Next, SettleStep, KillStep, TeardownStep
<1>2. SUFFICES ASSUME NEW k \in Jobs, job[k].status \notin {"none", "starting"}
               PROVE  job'[k].status \notin {"none", "starting"}
  BY <1>1 DEF Known
<1> USE DEF TypeOK
<1>3. ASSUME job' = job  PROVE job'[k].status \notin {"none", "starting"}  BY <1>2, <1>3
<1>4. ASSUME NEW j \in Jobs, StartAdmitted(j) \/ RunFails(j)
      PROVE  job'[k].status \notin {"none", "starting"}
  BY <1>2, <1>4 DEF StartAdmitted, RunFails
<1>5. ASSUME NEW j \in Jobs, Register(j) \/ Read(j)
      PROVE  job'[k].status \notin {"none", "starting"}
  <2>1. CASE Register(j)  BY <1>2, <2>1 DEF Register
  <2>2. CASE Read(j)  BY <1>2, <2>2 DEF Read
  <2> QED  BY <1>5, <2>1, <2>2
<1>6. ASSUME NEW j \in Jobs, Settle(j)  PROVE job'[k].status \notin {"none", "starting"}
  BY <1>2, <1>6 DEF Settle
<1>7. ASSUME NEW j \in Jobs, KillMarks(j)  PROVE job'[k].status \notin {"none", "starting"}
  BY <1>2, <1>7 DEF KillMarks
<1>8. ASSUME NEW w \in Waiters, NEW j \in Jobs, WaitBegins(w, j)
      PROVE  job'[k].status \notin {"none", "starting"}
  BY <1>2, <1>8 DEF WaitBegins
<1>9. ASSUME NEW w \in Waiters, WaitReturns(w) \/ WaitAborts(w)
      PROVE  job'[k].status \notin {"none", "starting"}
  <2>1. CASE WaitReturns(w)  BY <1>2, <2>1 DEF WaitReturns
  <2>2. CASE WaitAborts(w)  BY <1>2, <2>2 DEF WaitAborts
  <2> QED  BY <1>9, <2>1, <2>2
<1>10. ASSUME NEW t \in Teardowns, TeardownPicks(t) \/ TeardownMarks(t)
       PROVE  job'[k].status \notin {"none", "starting"}
  <2>1. CASE TeardownPicks(t)  BY <1>2, <2>1 DEF TeardownPicks
  <2>2. CASE TeardownMarks(t)  BY <1>2, <2>2 DEF TeardownMarks
  <2> QED  BY <1>10, <2>1, <2>2
<1>11. ASSUME NEW t \in Teardowns, TeardownForces(t)
       PROVE  job'[k].status \notin {"none", "starting"}
  <2>1. teardown[t].on \in Jobs  BY <1>11 DEF TeardownForces, TeardownInv, TeardownShape, Known
  <2> QED  BY <1>6, <1>11, <2>1 DEF TeardownForces
<1> QED
  BY <1>3, <1>4, <1>5, <1>6, <1>7, <1>8, <1>9, <1>10, <1>11
     DEF Next, vars, ProducerEnds, SettleStep, Observe, ResolveListeners, DeliverReads,
         DeliverSends, KillStep, KillLive, KillRefused, KillCancels, TeardownBegins,
         TeardownStep, TeardownCancels, TeardownForced, TeardownEnds, HumanClaims

\* A wait joins or leaves one job's count.
LEMMA WaitCounts ==
    ASSUME TypeOK, WaitInv, NEW w \in Waiters, NEW j \in Jobs,
           \A v \in Waiters : v # w => waiter'[v] = waiter[v]
    PROVE  /\ waiter[w].on = NoJob /\ waiter'[w].on = j =>
                 /\ Cardinality(On(j)') = Cardinality(On(j)) + 1
                 /\ \A k \in Jobs \ {j} : On(k)' = On(k)
           /\ waiter[w].on = j /\ waiter'[w].on = NoJob =>
                 /\ Cardinality(On(j)') = Cardinality(On(j)) - 1
                 /\ \A k \in Jobs \ {j} : On(k)' = On(k)
<1>0. IsFiniteSet(On(j)) /\ NoJob \notin Jobs  BY JobsAssumption, FS_Subset DEF On
<1>1. ASSUME waiter[w].on = NoJob, waiter'[w].on = j
      PROVE  /\ Cardinality(On(j)') = Cardinality(On(j)) + 1
             /\ \A k \in Jobs \ {j} : On(k)' = On(k)
  <2>1. On(j)' = On(j) \cup {w} /\ w \notin On(j)  BY <1>0, <1>1 DEF On
  <2>2. \A k \in Jobs \ {j} : On(k)' = On(k)  BY <1>0, <1>1 DEF On
  <2> QED  BY <1>0, <2>1, <2>2, FS_AddElement
<1>2. ASSUME waiter[w].on = j, waiter'[w].on = NoJob
      PROVE  /\ Cardinality(On(j)') = Cardinality(On(j)) - 1
             /\ \A k \in Jobs \ {j} : On(k)' = On(k)
  <2>1. On(j)' = On(j) \ {w} /\ w \in On(j)  BY <1>0, <1>2 DEF On
  <2>2. \A k \in Jobs \ {j} : On(k)' = On(k)  BY <1>0, <1>2 DEF On
  <2> QED  BY <1>0, <2>1, <2>2, FS_RemoveElement
<1> QED  BY <1>1, <1>2

\* Every step counts every wait once.
LEMMA WaitStep == TypeOK /\ WaitInv /\ TeardownInv /\ [Next]_vars => WaitInv'
<1> SUFFICES ASSUME TypeOK, WaitInv, TeardownInv, [Next]_vars  PROVE WaitInv'  OBVIOUS
<1>0. Known \subseteq Known'  BY NothingForgotten
<1>1. store' \subseteq Known' /\ killing' \subseteq Known'
  <2>1. ASSUME NEW j \in Jobs, Register(j)  PROVE store' \subseteq Known' /\ killing' = killing
    BY <1>0, <2>1 DEF Register, Known, TypeOK, WaitInv
  <2>2. ASSUME NEW j \in Jobs, KillStep(j)  PROVE store' = store /\ killing' \subseteq Known
    BY <2>2 DEF KillStep, KillLive, KillRefused, KillCancels, KillMarks, WaitInv
  <2>3. ASSUME NEW t \in Teardowns, TeardownEnds(t)
        PROVE  store' \subseteq store /\ killing' = killing
    BY <2>3 DEF TeardownEnds
  <2>4. ASSUME NEW j \in Jobs, StartAdmitted(j) \/ RunFails(j) \/ ProducerEnds(j) \/ Read(j)
        PROVE  store' = store /\ killing' = killing
    BY <2>4 DEF StartAdmitted, RunFails, ProducerEnds, Read
  <2>5. ASSUME NEW j \in Jobs, SettleStep(j)  PROVE store' = store /\ killing' = killing
    BY <2>5 DEF SettleStep, Observe, ResolveListeners, DeliverReads, DeliverSends
  <2>6. ASSUME NEW w \in Waiters,
               WaitReturns(w) \/ WaitAborts(w) \/ \E j \in Jobs : WaitBegins(w, j)
        PROVE  store' = store /\ killing' = killing
    BY <2>6 DEF WaitReturns, WaitAborts, WaitBegins
  <2>7. ASSUME NEW t \in Teardowns,
               \/ TeardownBegins(t) \/ TeardownPicks(t) \/ TeardownCancels(t)
               \/ TeardownForces(t) \/ TeardownForced(t) \/ TeardownMarks(t)
        PROVE  store' = store /\ killing' = killing
    BY <2>7 DEF TeardownBegins, TeardownPicks, TeardownCancels, TeardownForces,
                TeardownForced, TeardownMarks
  <2>8. ASSUME HumanClaims \/ UNCHANGED vars  PROVE store' = store /\ killing' = killing
    BY <2>8 DEF HumanClaims, vars
  <2>9. \/ \E j \in Jobs : Register(j) \/ KillStep(j)
        \/ \E t \in Teardowns : TeardownEnds(t)
        \/ store' = store /\ killing' = killing
    BY <2>4, <2>5, <2>6, <2>7, <2>8 DEF Next, TeardownStep
  <2> QED  BY <1>0, <2>1, <2>2, <2>3, <2>9 DEF WaitInv
<1>2. ASSUME waiter' = waiter, \A k \in Jobs : job'[k].waiters = job[k].waiters  PROVE WaitInv'
  <2>1. \A k \in Jobs : On(k)' = On(k)  BY <1>2 DEF On
  <2> QED  BY <1>0, <1>1, <1>2, <2>1 DEF WaitInv
<1>3. ASSUME NEW w \in Waiters, NEW j \in Jobs, WaitBegins(w, j)  PROVE WaitInv'
  <2>1. /\ waiter[w].on = NoJob /\ waiter'[w] = [pc |-> "waiting", on |-> j]
        /\ \A v \in Waiters : v # w => waiter'[v] = waiter[v]
    BY <1>3 DEF WaitBegins, WaitInv, TypeOK
  <2>2. /\ job'[j].waiters = job[j].waiters + 1 /\ j \in Known
        /\ \A k \in Jobs \ {j} : job'[k].waiters = job[k].waiters
    BY <1>3 DEF WaitBegins, TypeOK, WaitInv
  <2>3. /\ Cardinality(On(j)') = Cardinality(On(j)) + 1
        /\ \A k \in Jobs \ {j} : On(k)' = On(k)
    BY <2>1, WaitCounts
  <2>4. \A k \in Jobs : job'[k].waiters = Cardinality(On(k)')
    BY <2>2, <2>3 DEF WaitInv
  <2>5. \A v \in Waiters : /\ waiter'[v].pc = "waiting" <=> waiter'[v].on # NoJob
                           /\ waiter'[v].on # NoJob => waiter'[v].on \in Known
    BY <2>1, <2>2, JobsAssumption DEF WaitInv
  <2> QED  BY <1>0, <1>1, <2>4, <2>5 DEF WaitInv
<1>4. ASSUME NEW w \in Waiters, WaitReturns(w) \/ WaitAborts(w)  PROVE WaitInv'
  <2>0. PICK j \in Jobs : j = waiter[w].on
    BY <1>4 DEF WaitReturns, WaitAborts, WaitInv, Known
  <2>1. /\ waiter'[w] = NoWait
        /\ \A v \in Waiters : v # w => waiter'[v] = waiter[v]
    BY <1>4 DEF WaitReturns, WaitAborts, TypeOK
  <2>2. /\ job'[j].waiters = job[j].waiters - 1
        /\ \A k \in Jobs \ {j} : job'[k].waiters = job[k].waiters
    <3>1. CASE WaitReturns(w)  BY <2>0, <3>1 DEF WaitReturns, TypeOK, CountOut
    <3>2. CASE WaitAborts(w)  BY <2>0, <3>2 DEF WaitAborts, TypeOK, CountOut
    <3> QED  BY <1>4, <3>1, <3>2
  <2>3. /\ Cardinality(On(j)') = Cardinality(On(j)) - 1
        /\ \A k \in Jobs \ {j} : On(k)' = On(k)
    BY <2>0, <2>1, WaitCounts DEF NoWait
  <2>4. \A k \in Jobs : job'[k].waiters = Cardinality(On(k)')
    BY <2>2, <2>3 DEF WaitInv
  <2>5. \A v \in Waiters : /\ waiter'[v].pc = "waiting" <=> waiter'[v].on # NoJob
                           /\ waiter'[v].on # NoJob => waiter'[v].on \in Known
    BY <2>1 DEF WaitInv, NoWait
  <2> QED  BY <1>0, <1>1, <2>4, <2>5 DEF WaitInv
<1>5. ASSUME NEW j \in Jobs, RunFails(j)  PROVE WaitInv'
  <2>1. On(j) = {}  BY <1>5, JobsAssumption DEF RunFails, WaitInv, On, Known
  <2>2. job[j].waiters = 0  BY <2>1, FS_EmptySet DEF WaitInv
  <2>3. waiter' = waiter /\ \A k \in Jobs : job'[k].waiters = job[k].waiters
    BY <1>5, <2>2 DEF RunFails, NewJob, TypeOK
  <2> QED  BY <1>2, <2>3
<1> USE DEF TypeOK
<1>6. ASSUME NEW j \in Jobs, StartAdmitted(j) \/ Register(j) \/ Read(j) \/ KillMarks(j)
      PROVE  WaitInv'
  <2>1. waiter' = waiter  BY <1>6 DEF StartAdmitted, Register, Read, KillMarks
  <2>2. CASE StartAdmitted(j)  BY <1>2, <2>1, <2>2 DEF StartAdmitted
  <2>3. CASE Register(j)  BY <1>2, <2>1, <2>3 DEF Register
  <2>4. CASE Read(j)  BY <1>2, <2>1, <2>4 DEF Read
  <2>5. CASE KillMarks(j)  BY <1>2, <2>1, <2>5 DEF KillMarks
  <2> QED  BY <1>6, <2>2, <2>3, <2>4, <2>5
<1>7. ASSUME NEW j \in Jobs, Settle(j)  PROVE \A k \in Jobs : job'[k].waiters = job[k].waiters
  BY <1>7 DEF Settle
<1>8. ASSUME NEW t \in Teardowns, TeardownPicks(t)  PROVE WaitInv'
  BY <1>2, <1>8 DEF TeardownPicks
<1>9. ASSUME NEW t \in Teardowns, TeardownMarks(t)  PROVE WaitInv'
  BY <1>2, <1>9 DEF TeardownMarks
<1>10. ASSUME NEW t \in Teardowns, TeardownForces(t)  PROVE WaitInv'
  <2>1. teardown[t].on \in Jobs  BY <1>10 DEF TeardownForces, TeardownInv, TeardownShape, Known
  <2> QED  BY <1>2, <1>7, <1>10, <2>1 DEF TeardownForces
<1>11. ASSUME NEW j \in Jobs, Observe(j)  PROVE WaitInv'  BY <1>2, <1>7, <1>11 DEF Observe
<1>12. CASE job' = job /\ waiter' = waiter  BY <1>2, <1>12
<1> QED
  BY <1>3, <1>4, <1>5, <1>6, <1>8, <1>9, <1>10, <1>11, <1>12
     DEF Next, vars, ProducerEnds, SettleStep, ResolveListeners, DeliverReads,
         DeliverSends, KillStep, KillLive, KillRefused, KillCancels, TeardownBegins,
         TeardownStep, TeardownCancels, TeardownForced, TeardownEnds, HumanClaims

\* Every step of a teardown, and of everybody else meanwhile, keeps its shape.
LEMMA TeardownInvStep == TypeOK /\ WaitInv /\ TeardownInv /\ [Next]_vars => TeardownInv'
<1> SUFFICES ASSUME TypeOK, WaitInv, TeardownInv, [Next]_vars  PROVE TeardownInv'  OBVIOUS
<1>0. Known \subseteq Known' /\ told \subseteq told'  BY NothingForgotten
<1>1. ASSUME teardown' = teardown, store \subseteq store'  PROVE TeardownInv'
  <2>1. \A t \in Teardowns : TeardownShape(t)'
    BY <1>0, <1>1 DEF TeardownInv, TeardownShape
  <2> QED  BY <1>1, <2>1 DEF TeardownInv
<1>2. ASSUME NEW t \in Teardowns, TeardownShape(t)', teardown[t].pc # "idle",
             \A u \in Teardowns : u # t => teardown'[u] = teardown[u]
      PROVE  TeardownInv'
  <2>1. \A u \in Teardowns : u # t => teardown[u].pc = "idle" /\ teardown[u].snap = {}
    BY <1>2 DEF TeardownInv, TeardownShape
  <2>2. \A u \in Teardowns : u # t => TeardownShape(u)'
    BY <1>2, <2>1 DEF TeardownInv, TeardownShape
  <2> QED  BY <1>2, <2>1, <2>2 DEF TeardownInv
<1>3. ASSUME NEW t \in Teardowns, TeardownBegins(t)  PROVE TeardownInv'
  <2>1. /\ teardown'[t] = [pc |-> "cancel", snap |-> store, todo |-> store, on |-> NoJob]
        /\ store' = store /\ \A u \in Teardowns : u # t => teardown'[u] = teardown[u]
        /\ \A u \in Teardowns : teardown[u].pc = "idle"
    BY <1>3 DEF TeardownBegins, TypeOK
  <2>2. TeardownShape(t)'  BY <1>0, <2>1 DEF TeardownShape, WaitInv
  <2>3. \A u \in Teardowns : u # t => TeardownShape(u)'
    BY <1>0, <2>1 DEF TeardownInv, TeardownShape
  <2> QED  BY <2>1, <2>2, <2>3 DEF TeardownInv
<1>4. ASSUME NEW t \in Teardowns, TeardownPicks(t)  PROVE TeardownInv'
  <2>1. PICK j \in teardown[t].todo :
          /\ teardown[t].pc = "cancel"
          /\ teardown' = [teardown EXCEPT ![t].todo = @ \ {j},
                              ![t].on = IF IsTerminal(j) THEN NoJob ELSE j,
                              ![t].pc = IF IsTerminal(j) THEN "cancel" ELSE "cancelling"]
          /\ told' = IF IsTerminal(j) THEN told ELSE told \cup {j}
          /\ store' = store
    BY <1>4 DEF TeardownPicks
  <2>2. /\ teardown'[t].snap = teardown[t].snap /\ teardown'[t].todo = teardown[t].todo \ {j}
        /\ teardown'[t].on = IF IsTerminal(j) THEN NoJob ELSE j
        /\ teardown'[t].pc = IF IsTerminal(j) THEN "cancel" ELSE "cancelling"
        /\ \A u \in Teardowns : u # t => teardown'[u] = teardown[u]
    BY <2>1 DEF TypeOK
  <2>3. j \in Jobs /\ j # NoJob  BY JobsAssumption DEF TypeOK
  <2>4. TeardownShape(t)'
    <3>1. /\ teardown[t].snap \subseteq Known /\ teardown[t].todo \subseteq teardown[t].snap
          /\ teardown[t].snap \subseteq store
      BY <2>1 DEF TeardownInv, TeardownShape
    <3>2. CASE IsTerminal(j)  BY <1>0, <2>1, <2>2, <2>3, <3>1, <3>2 DEF TeardownShape
    <3>3. CASE ~IsTerminal(j)
      <4>1. /\ teardown'[t].on = j /\ teardown'[t].pc = "cancelling"
            /\ j \in told' /\ j \notin teardown'[t].todo /\ j \in teardown'[t].snap
        BY <2>1, <2>2, <3>1, <3>3
      <4> QED  BY <1>0, <2>1, <2>2, <2>3, <3>1, <4>1 DEF TeardownShape
    <3> QED  BY <3>2, <3>3
  <2> QED  BY <1>2, <2>1, <2>2, <2>4
<1>5. ASSUME NEW t \in Teardowns, TeardownCancels(t) \/ TeardownForces(t)  PROVE TeardownInv'
  <2>1. /\ teardown[t].pc = "cancelling" /\ store' = store
        /\ teardown'[t].snap = teardown[t].snap /\ teardown'[t].todo = teardown[t].todo
        /\ teardown'[t].on = teardown[t].on /\ teardown'[t].pc \in {"mark", "settling"}
        /\ \A u \in Teardowns : u # t => teardown'[u] = teardown[u]
    BY <1>5 DEF TeardownCancels, TeardownForces, TypeOK
  <2>2. TeardownShape(t)'  BY <1>0, <2>1 DEF TeardownInv, TeardownShape
  <2> QED  BY <1>2, <2>1, <2>2
<1>6. ASSUME NEW t \in Teardowns, TeardownForced(t) \/ TeardownMarks(t)  PROVE TeardownInv'
  <2>1. /\ teardown[t].pc \in {"settling", "mark"} /\ store' = store
        /\ teardown'[t].snap = teardown[t].snap /\ teardown'[t].todo = teardown[t].todo
        /\ teardown'[t].on = NoJob /\ teardown'[t].pc = "cancel"
        /\ \A u \in Teardowns : u # t => teardown'[u] = teardown[u]
    BY <1>6 DEF TeardownForced, TeardownMarks, TypeOK
  <2>2. TeardownShape(t)'  BY <1>0, <2>1 DEF TeardownInv, TeardownShape
  <2> QED  BY <1>2, <2>1, <2>2
<1>7. ASSUME NEW t \in Teardowns, TeardownEnds(t)  PROVE TeardownInv'
  <2>1. /\ teardown[t].pc = "cancel" /\ teardown[t].todo = {}
        /\ teardown'[t].snap = teardown[t].snap /\ teardown'[t].todo = teardown[t].todo
        /\ teardown'[t].on = teardown[t].on /\ teardown'[t].pc = "done"
        /\ \A u \in Teardowns : u # t => teardown'[u] = teardown[u]
    BY <1>7 DEF TeardownEnds, TypeOK
  <2>2. TeardownShape(t)'  BY <1>0, <2>1 DEF TeardownInv, TeardownShape
  <2> QED  BY <1>2, <2>1, <2>2
<1>8. ASSUME NEW j \in Jobs,
             \/ StartAdmitted(j) \/ RunFails(j) \/ Register(j) \/ ProducerEnds(j)
             \/ SettleStep(j) \/ Read(j)
      PROVE  TeardownInv'
  BY <1>1, <1>8 DEF StartAdmitted, RunFails, Register, ProducerEnds, SettleStep, Observe,
                    ResolveListeners, DeliverReads, DeliverSends, Read
<1>9. ASSUME NEW j \in Jobs, KillStep(j)  PROVE TeardownInv'
  BY <1>1, <1>9 DEF KillStep, KillLive, KillRefused, KillCancels, KillMarks
<1>10. ASSUME NEW w \in Waiters, WaitReturns(w) \/ WaitAborts(w) \/ \E j \in Jobs : WaitBegins(w, j)
       PROVE  TeardownInv'
  BY <1>1, <1>10 DEF WaitReturns, WaitAborts, WaitBegins
<1>11. CASE HumanClaims \/ UNCHANGED vars  BY <1>1, <1>11 DEF HumanClaims, vars
<1> QED
  BY <1>3, <1>4, <1>5, <1>6, <1>7, <1>8, <1>9, <1>10, <1>11 DEF Next, TeardownStep

\* Nobody waits and nothing is torn down at first.
LEMMA WaitsInit == Init => WaitInv /\ TeardownInv
<1> SUFFICES ASSUME Init  PROVE WaitInv /\ TeardownInv  OBVIOUS
<1>1. WaitInv
  <2>1. \A j \in Jobs : On(j) = {}  BY JobsAssumption DEF Init, On, NoWait
  <2>2. \A j \in Jobs : job[j].waiters = 0  BY DEF Init, NewJob
  <2>3. \A w \in Waiters : waiter[w] = NoWait  BY DEF Init
  <2> QED  BY <2>1, <2>2, <2>3, FS_EmptySet DEF WaitInv, NoWait, Init
<1>2. \A t \in Teardowns : TeardownShape(t) /\ teardown[t].pc = "idle"
  BY DEF Init, TeardownShape
<1> QED  BY <1>1, <1>2 DEF TeardownInv

\* The types, the wait counts and the teardown's shape, together inductive.
LEMMA WaitsHold == Spec => [](TypeOK /\ WaitInv /\ TeardownInv)
<1> DEFINE I == TypeOK /\ WaitInv /\ TeardownInv
<1>1. Init => I  BY TypeInit, WaitsInit
<1>2. I /\ [Next]_vars => I'  BY TypeStep, WaitStep, TeardownInvStep
<1> QED  BY <1>1, <1>2, PTL DEF Spec

\* The registry's state keeps its types: no wait is counted out of a job that does not
\* count it (Wait, settle), so the counts stay natural numbers.
THEOREM RegistryTyping == Spec => []TypeOK
BY WaitsHold, PTL

-----------------------------------------------------------------------------
(* The wake budget.                                                        *)

\* One delivery runs at a time, and the wakes since the human spoke are within what it
\* has read, whether or not a refill came in between.
WakeInv ==
    /\ wakes <= spent /\ wakes <= WakeBudget
    /\ \A j \in Jobs : settling[j].pc = "deliver" => wakes <= seen
    /\ \A j, k \in Jobs : settling[j].pc = "deliver" /\ settling[k].pc = "deliver" => j = k

\* Every step stays within the wake budget.
LEMMA WakeStep == TypeOK /\ TeardownInv /\ WakeInv /\ [Next]_vars => WakeInv'
<1> SUFFICES ASSUME TypeOK, TeardownInv, WakeInv, [Next]_vars  PROVE WakeInv'  OBVIOUS
<1> USE DEF TypeOK
<1>1. ASSUME deliveryVars' = deliveryVars,
             \A k \in Jobs : settling'[k].pc = "deliver" => settling[k].pc = "deliver"
      PROVE  WakeInv'
  BY <1>1 DEF WakeInv, deliveryVars
<1>2. ASSUME NEW j \in Jobs, DeliverReads(j)  PROVE WakeInv'
  <2>1. CASE settling[j].reported
    <3>1. settling' = [settling EXCEPT ![j] = NoSettle] /\ deliveryVars' = deliveryVars
      BY <1>2, <2>1 DEF DeliverReads, deliveryVars
    <3> QED  BY <1>1, <3>1 DEF NoSettle
  <2>2. CASE ~settling[j].reported
    <3>1. /\ \A k \in Jobs : settling[k].pc # "deliver"
          /\ settling' = [settling EXCEPT ![j].pc = "deliver"]
          /\ seen' = spent /\ spent' = spent /\ wakes' = wakes
      BY <1>2, <2>2 DEF DeliverReads
    <3>2. \A k \in Jobs : settling'[k].pc = "deliver" => k = j  BY <3>1
    <3> QED  BY <3>1, <3>2 DEF WakeInv
  <2> QED  BY <2>1, <2>2
<1>3. ASSUME NEW j \in Jobs, DeliverSends(j)  PROVE WakeInv'
  <2>1. /\ settling[j].pc = "deliver" /\ settling' = [settling EXCEPT ![j] = NoSettle]
        /\ IF seen < WakeBudget THEN spent' = seen + 1 /\ wakes' = wakes + 1
                                ELSE spent' = spent /\ wakes' = wakes
    BY <1>3 DEF DeliverSends, Charge
  <2>2. wakes <= seen /\ \A k \in Jobs : settling[k].pc = "deliver" => k = j
    BY <2>1 DEF WakeInv
  <2>3. \A k \in Jobs : settling'[k].pc # "deliver"  BY <2>1, <2>2 DEF NoSettle
  <2>4. wakes' <= spent' /\ wakes' <= WakeBudget
    BY <2>1, <2>2, JobsAssumption DEF WakeInv
  <2> QED  BY <2>3, <2>4 DEF WakeInv
<1>4. CASE HumanClaims  BY <1>4, JobsAssumption DEF HumanClaims, WakeInv
<1>5. ASSUME NEW j \in Jobs, Settle(j), deliveryVars' = deliveryVars  PROVE WakeInv'
  <2>1. \A k \in Jobs : settling'[k].pc = "deliver" => settling[k].pc = "deliver"
    <3>1. CASE IsTerminal(j)  BY <1>5, <3>1 DEF Settle
    <3>2. CASE ~IsTerminal(j)
      <4>1. settling' = [settling EXCEPT ![j] = [pc |-> "committed",
                                                 reported |-> ReportsAtSettle(j)]]
        BY <1>5, <3>2 DEF Settle
      <4> QED  BY <4>1
    <3> QED  BY <3>1, <3>2
  <2> QED  BY <1>1, <1>5, <2>1
<1>6. ASSUME NEW j \in Jobs, Observe(j)  PROVE WakeInv'  BY <1>5, <1>6 DEF Observe
<1>7. ASSUME NEW j \in Jobs, ResolveListeners(j)  PROVE WakeInv'
  BY <1>1, <1>7 DEF ResolveListeners, NoSettle
<1>8. ASSUME NEW t \in Teardowns, TeardownForces(t)  PROVE WakeInv'
  <2>1. teardown[t].on \in Jobs  BY <1>8 DEF TeardownForces, TeardownInv, TeardownShape, Known
  <2> QED  BY <1>5, <1>8, <2>1 DEF TeardownForces
<1>9. ASSUME settling' = settling, deliveryVars' = deliveryVars  PROVE WakeInv'  BY <1>1, <1>9
<1>10. ASSUME NEW j \in Jobs,
              StartAdmitted(j) \/ RunFails(j) \/ Register(j) \/ ProducerEnds(j) \/ Read(j)
       PROVE  WakeInv'
  BY <1>9, <1>10 DEF StartAdmitted, RunFails, Register, ProducerEnds, Read
<1>11. ASSUME NEW j \in Jobs, KillStep(j)  PROVE WakeInv'
  BY <1>9, <1>11 DEF KillStep, KillLive, KillRefused, KillCancels, KillMarks
<1>12. ASSUME NEW w \in Waiters,
              WaitReturns(w) \/ WaitAborts(w) \/ \E j \in Jobs : WaitBegins(w, j)
       PROVE  WakeInv'
  BY <1>9, <1>12 DEF WaitReturns, WaitAborts, WaitBegins
<1>13. ASSUME NEW t \in Teardowns,
              \/ TeardownBegins(t) \/ TeardownPicks(t) \/ TeardownCancels(t)
              \/ TeardownForced(t) \/ TeardownMarks(t) \/ TeardownEnds(t)
       PROVE  WakeInv'
  BY <1>9, <1>13 DEF TeardownBegins, TeardownPicks, TeardownCancels, TeardownForced,
                     TeardownMarks, TeardownEnds
<1>14. CASE UNCHANGED vars  BY <1>9, <1>14 DEF vars
<1> QED
  BY <1>2, <1>3, <1>4, <1>6, <1>7, <1>8, <1>10, <1>11, <1>12, <1>13, <1>14
     DEF Next, SettleStep, TeardownStep

\* Between two human messages the completion notices open at most WakeBudget turns,
\* although deliver reads and charges its budget in two critical sections and the
\* human's refill may fall between them.
THEOREM WakesStayWithinBudget == Spec => []WakesBounded
<1>1. Init => WakeInv
  BY JobsAssumption DEF Init, WakeInv, NoSettle
<1>2. WakeInv => WakesBounded  BY DEF WakeInv, WakesBounded
<1> QED  BY <1>1, <1>2, WakeStep, WaitsHold, PTL DEF Spec

-----------------------------------------------------------------------------
(* What became of a job that has ended.                                    *)

\* A forced or a marked job of the teardown t: teardown has passed it, so nothing of it
\* settles the job again, and a marked one was told before.
Passed(j, t) ==
    /\ j \in teardown[t].snap \ teardown[t].todo
    /\ \/ IsTerminal(j) /\ (teardown[t].on = j => teardown[t].pc = "settling")
       \/ producer[j].state = "observed" /\ j \in told /\ teardown[t].on # j

\* A job that has ended was observed and still says so, or a teardown has passed it.
EndOf(j) ==
    /\ IsTerminal(j) => job[j].settled
    /\ job[j].settled =>
          /\ j \in Known
          /\ \/ IsTerminal(j) /\ producer[j].state = "observed"
             \/ \E t \in Teardowns : Passed(j, t)

EndInv == \A j \in Jobs : EndOf(j)

\* A job that is about to settle has not ended yet: the first outcome wins, and the
\* status a teardown overwrites is not settled a second time.
LEMMA SettlesOnce ==
    ASSUME TypeOK, TeardownInv, EndInv, NEW j \in Jobs, ~IsTerminal(j), job[j].settled
    PROVE  /\ producer[j].state = "observed" /\ j \in told
           /\ \A t \in Teardowns : teardown[t].on # j /\ j \notin teardown[t].todo
<1>1. PICK t \in Teardowns : Passed(j, t)  BY DEF EndInv, EndOf
<1>2. teardown[t].pc # "idle"  BY <1>1 DEF Passed, TeardownInv, TeardownShape
<1>3. ASSUME NEW u \in Teardowns, u # t  PROVE teardown[u].on # j /\ j \notin teardown[u].todo
  <2>1. teardown[u].pc = "idle"  BY <1>2, <1>3 DEF TeardownInv
  <2>2. /\ teardown[u].snap = {} /\ teardown[u].todo \subseteq teardown[u].snap
        /\ teardown[u].on # NoJob => teardown[u].on \in teardown[u].snap
    BY <2>1 DEF TeardownInv, TeardownShape
  <2> QED  BY <2>2, JobsAssumption
<1> QED  BY <1>1, <1>3 DEF Passed

\* A job whose own state, and whose teardown, a step leaves alone.
LEMMA EndKept ==
    ASSUME TypeOK, EndInv, NEW k \in Jobs, Known \subseteq Known', told \subseteq told',
           job'[k].settled = job[k].settled, IsTerminal(k)' <=> IsTerminal(k),
           producer[k].state = "observed" => producer'[k].state = "observed",
           \A t \in Teardowns :
              Passed(k, t) =>
                 /\ k \in teardown'[t].snap \ teardown'[t].todo
                 /\ teardown'[t].on = k => teardown[t].on = k /\ teardown'[t].pc = "settling"
    PROVE  EndOf(k)'
<1> SUFFICES ASSUME job[k].settled  PROVE EndOf(k)'  BY DEF EndInv, EndOf
<1>1. k \in Known'  BY DEF EndInv, EndOf
<1>2. CASE IsTerminal(k) /\ producer[k].state = "observed"  BY <1>1, <1>2 DEF EndOf, EndInv
<1>3. ASSUME NEW t \in Teardowns, Passed(k, t)  PROVE EndOf(k)'
  <2>1. Passed(k, t)'
    <3>1. CASE IsTerminal(k)  BY <1>3, <3>1 DEF Passed
    <3>2. CASE producer[k].state = "observed" /\ k \in told /\ teardown[t].on # k
      BY <1>3, <3>2 DEF Passed
    <3> QED  BY <1>3, <3>1, <3>2 DEF Passed
  <2> QED  BY <1>1, <2>1 DEF EndOf, EndInv
<1> QED  BY <1>2, <1>3 DEF EndInv, EndOf

\* settle ends a job that had not ended, and leaves one that had.
LEMMA SettleEnds ==
    ASSUME TypeOK, NEW j \in Jobs, Settle(j)
    PROVE  /\ IsTerminal(j)' /\ \A k \in Jobs \ {j} : job'[k] = job[k] /\ settling'[k] = settling[k]
           /\ IsTerminal(j) => job' = job /\ settling' = settling
           /\ ~IsTerminal(j) =>
                 /\ job'[j].settled = TRUE
                 /\ settling'[j] = [pc |-> "committed", reported |-> ReportsAtSettle(j)]
<1>1. CASE IsTerminal(j)  BY <1>1 DEF Settle, IsTerminal
<1>2. CASE ~IsTerminal(j)
  <2>1. /\ job' = [job EXCEPT ![j].status = "ended", ![j].settled = TRUE,
                              ![j].reported = ReportsAtSettle(j)]
        /\ settling' = [settling EXCEPT ![j] = [pc |-> "committed",
                                                reported |-> ReportsAtSettle(j)]]
    BY <1>2 DEF Settle
  <2>2. job'[j].status = "ended" /\ job'[j].settled = TRUE  BY <2>1 DEF TypeOK
  <2> QED  BY <1>2, <2>1, <2>2 DEF IsTerminal, TypeOK
<1> QED  BY <1>1, <1>2

\* Every step keeps what is known of the jobs that have ended.
LEMMA EndStep == TypeOK /\ WaitInv /\ TeardownInv /\ EndInv /\ [Next]_vars => EndInv'
<1> SUFFICES ASSUME TypeOK, WaitInv, TeardownInv, EndInv, [Next]_vars  PROVE EndInv'  OBVIOUS
<1>0. Known \subseteq Known' /\ told \subseteq told'  BY NothingForgotten
<1>1. ASSUME teardown' = teardown, producer' = producer,
             \A k \in Jobs : job'[k].settled = job[k].settled /\ (IsTerminal(k)' <=> IsTerminal(k))
      PROVE  EndInv'
  BY <1>0, <1>1, EndKept DEF EndInv, Passed
<1> USE DEF TypeOK
<1>2. ASSUME NEW j \in Jobs, StartAdmitted(j)  PROVE EndInv'
  BY <1>1, <1>2 DEF StartAdmitted, IsTerminal
<1>3. ASSUME NEW j \in Jobs, RunFails(j)  PROVE EndInv'
  <2>1. ~job[j].settled  BY <1>3 DEF RunFails, EndInv, EndOf, Known
  <2> QED  BY <1>1, <1>3, <2>1 DEF RunFails, IsTerminal, NewJob
<1>4. ASSUME NEW j \in Jobs, Register(j)  PROVE EndInv'
  <2>1. \A k \in Jobs : job'[k].settled = job[k].settled /\ (IsTerminal(k)' <=> IsTerminal(k))
    BY <1>4 DEF Register, IsTerminal
  <2>2. ~job[j].settled  BY <1>4 DEF Register, EndInv, EndOf, Known
  <2>3. teardown' = teardown /\ \A k \in Jobs \ {j} : producer'[k] = producer[k]
    BY <1>4 DEF Register
  <2>4. \A k \in Jobs \ {j} : EndOf(k)'  BY <1>0, <2>1, <2>3, EndKept DEF Passed
  <2>5. EndOf(j)'  BY <2>1, <2>2 DEF EndOf, EndInv
  <2> QED  BY <2>4, <2>5 DEF EndInv
<1>5. ASSUME NEW j \in Jobs, ProducerEnds(j) \/ KillCancels(j)  PROVE EndInv'
  <2>1. /\ teardown' = teardown /\ job' = job
        /\ \A k \in Jobs : producer[k].state = "observed" => producer'[k].state = "observed"
    <3>1. CASE ProducerEnds(j)  BY <3>1 DEF ProducerEnds
    <3>2. CASE KillCancels(j)  BY <3>2 DEF KillCancels
    <3> QED  BY <1>5, <3>1, <3>2
  <2>2. \A k \in Jobs : EndOf(k)'  BY <1>0, <2>1, EndKept DEF Passed, IsTerminal
  <2> QED  BY <2>2 DEF EndInv
<1>6. ASSUME NEW j \in Jobs, Observe(j)  PROVE EndInv'
  <2>1. /\ teardown' = teardown /\ producer'[j].state = "observed"
        /\ \A k \in Jobs \ {j} : producer'[k] = producer[k]
    BY <1>6 DEF Observe
  <2>2. /\ IsTerminal(j)' /\ \A k \in Jobs \ {j} : job'[k] = job[k]
        /\ IsTerminal(j) => job' = job
        /\ ~IsTerminal(j) => job'[j].settled = TRUE
    BY <1>6, SettleEnds DEF Observe
  <2>3. \A k \in Jobs \ {j} : EndOf(k)'  BY <1>0, <2>1, <2>2, EndKept DEF Passed, IsTerminal
  <2>4. job'[j].settled  BY <2>2 DEF EndInv, EndOf
  <2>5. j \in Known'  BY <2>2 DEF Known, IsTerminal
  <2>6. EndOf(j)'  BY <2>1, <2>2, <2>4, <2>5 DEF EndOf
  <2> QED  BY <2>3, <2>6 DEF EndInv
<1>7. ASSUME NEW j \in Jobs, ResolveListeners(j) \/ DeliverReads(j) \/ DeliverSends(j)
      PROVE  EndInv'
  BY <1>1, <1>7 DEF ResolveListeners, DeliverReads, DeliverSends, IsTerminal
<1>8. ASSUME NEW j \in Jobs, Read(j)  PROVE EndInv'  BY <1>1, <1>8 DEF Read, IsTerminal
<1>9. ASSUME NEW j \in Jobs, KillLive(j) \/ KillRefused(j)  PROVE EndInv'
  BY <1>1, <1>9 DEF KillLive, KillRefused, IsTerminal
<1>10. ASSUME NEW j \in Jobs, KillMarks(j)  PROVE EndInv'
  BY <1>1, <1>10 DEF KillMarks, IsTerminal
<1>11. ASSUME NEW w \in Waiters, NEW j \in Jobs, WaitBegins(w, j)  PROVE EndInv'
  BY <1>1, <1>11 DEF WaitBegins, IsTerminal
<1>12. ASSUME NEW w \in Waiters, WaitReturns(w)  PROVE EndInv'
  BY <1>1, <1>12 DEF WaitReturns, IsTerminal
<1>13. ASSUME NEW w \in Waiters, WaitAborts(w)  PROVE EndInv'
  BY <1>1, <1>13 DEF WaitAborts, IsTerminal
<1>14. CASE HumanClaims \/ UNCHANGED vars  BY <1>1, <1>14 DEF HumanClaims, vars, IsTerminal
<1>15. ASSUME NEW t \in Teardowns, TeardownBegins(t)  PROVE EndInv'
  <2>1. /\ job' = job /\ producer' = producer
        /\ \A u \in Teardowns : teardown[u].pc = "idle"
    BY <1>15 DEF TeardownBegins
  <2>2. \A k \in Jobs, u \in Teardowns : ~Passed(k, u)
    BY <2>1 DEF Passed, TeardownInv, TeardownShape
  <2>3. \A k \in Jobs : EndOf(k)'  BY <1>0, <2>1, <2>2, EndKept DEF IsTerminal
  <2> QED  BY <2>3 DEF EndInv
<1>16. ASSUME NEW t \in Teardowns, TeardownPicks(t)  PROVE EndInv'
  <2>1. PICK j \in teardown[t].todo :
          /\ teardown[t].pc = "cancel" /\ producer' = producer
          /\ teardown' = [teardown EXCEPT ![t].todo = @ \ {j},
                              ![t].on = IF IsTerminal(j) THEN NoJob ELSE j,
                              ![t].pc = IF IsTerminal(j) THEN "cancel" ELSE "cancelling"]
          /\ job' = [job EXCEPT ![j].reported = @ \/ ~IsTerminal(j)]
    BY <1>16 DEF TeardownPicks
  <2>2. /\ teardown'[t].snap = teardown[t].snap /\ teardown'[t].todo = teardown[t].todo \ {j}
        /\ teardown'[t].on = IF IsTerminal(j) THEN NoJob ELSE j
        /\ \A u \in Teardowns : u # t => teardown'[u] = teardown[u]
    BY <2>1
  <2>3. j \in Jobs  OBVIOUS
  <2>4. \A k \in Jobs : job'[k].settled = job[k].settled /\ (IsTerminal(k)' <=> IsTerminal(k))
    BY <2>1 DEF IsTerminal
  <2>5. CASE job[j].settled /\ ~IsTerminal(j)  BY <2>3, <2>5, SettlesOnce
  <2>6. CASE ~job[j].settled
    <3>1. \A k \in Jobs \ {j} : EndOf(k)'
      <4>1. \A k \in Jobs \ {j}, u \in Teardowns : Passed(k, u) =>
                 /\ k \in teardown'[u].snap \ teardown'[u].todo
                 /\ teardown'[u].on = k => teardown[u].on = k /\ teardown'[u].pc = "settling"
        <5> SUFFICES ASSUME NEW k \in Jobs \ {j}, NEW u \in Teardowns, Passed(k, u)
                     PROVE  /\ k \in teardown'[u].snap \ teardown'[u].todo
                            /\ teardown'[u].on = k =>
                                  teardown[u].on = k /\ teardown'[u].pc = "settling"
          OBVIOUS
        <5>1. CASE u = t  BY <2>2, <5>1, JobsAssumption DEF Passed
        <5>2. CASE u # t
          <6>1. teardown[u].pc = "idle"  BY <2>1, <5>2 DEF TeardownInv
          <6> QED  BY <6>1 DEF Passed, TeardownInv, TeardownShape
        <5> QED  BY <5>1, <5>2
      <4> QED  BY <1>0, <2>1, <2>4, <4>1, EndKept
    <3>2. EndOf(j)'  BY <2>3, <2>4, <2>6 DEF EndOf, EndInv
    <3> QED  BY <3>1, <3>2 DEF EndInv
  <2>7. CASE IsTerminal(j)
    <3>1. \A k \in Jobs, u \in Teardowns : Passed(k, u) =>
                 /\ k \in teardown'[u].snap \ teardown'[u].todo
                 /\ teardown'[u].on = k => teardown[u].on = k /\ teardown'[u].pc = "settling"
      <4> SUFFICES ASSUME NEW k \in Jobs, NEW u \in Teardowns, Passed(k, u)
                   PROVE  /\ k \in teardown'[u].snap \ teardown'[u].todo
                          /\ teardown'[u].on = k =>
                                teardown[u].on = k /\ teardown'[u].pc = "settling"
        OBVIOUS
      <4>1. CASE u = t  BY <2>2, <2>7, <4>1, JobsAssumption DEF Passed
      <4>2. CASE u # t
        <5>1. teardown[u].pc = "idle"  BY <2>1, <4>2 DEF TeardownInv
        <5> QED  BY <5>1 DEF Passed, TeardownInv, TeardownShape
      <4> QED  BY <4>1, <4>2
    <3>2. \A k \in Jobs : EndOf(k)'  BY <1>0, <2>1, <2>4, <3>1, EndKept
    <3> QED  BY <3>2 DEF EndInv
  <2> QED  BY <2>5, <2>6, <2>7
<1>17. ASSUME NEW t \in Teardowns, teardown[t].pc # "idle",
              teardown'[t].snap = teardown[t].snap, teardown'[t].todo = teardown[t].todo
       PROVE  \A k \in Jobs, u \in Teardowns : Passed(k, u) =>
                 u = t /\ k \in teardown'[u].snap \ teardown'[u].todo
  <2> SUFFICES ASSUME NEW k \in Jobs, NEW u \in Teardowns, Passed(k, u)
               PROVE  u = t /\ k \in teardown'[u].snap \ teardown'[u].todo
    OBVIOUS
  <2>1. teardown[u].pc # "idle"  BY DEF Passed, TeardownInv, TeardownShape
  <2>2. u = t  BY <1>17, <2>1 DEF TeardownInv
  <2> QED  BY <1>17, <2>2 DEF Passed
<1>18. ASSUME NEW t \in Teardowns, TeardownCancels(t)  PROVE EndInv'
  <2>1. /\ teardown[t].pc = "cancelling" /\ job' = job
        /\ teardown'[t].snap = teardown[t].snap /\ teardown'[t].todo = teardown[t].todo
        /\ teardown'[t].on = teardown[t].on
        /\ \A k \in Jobs : producer'[k].state = producer[k].state
    BY <1>18 DEF TeardownCancels
  <2>2. \A k \in Jobs, u \in Teardowns : Passed(k, u) =>
                 /\ k \in teardown'[u].snap \ teardown'[u].todo
                 /\ teardown'[u].on # k
    <3>1. \A k \in Jobs, u \in Teardowns : Passed(k, u) =>
             u = t /\ k \in teardown'[u].snap \ teardown'[u].todo
      BY <1>17, <2>1
    <3>2. \A k \in Jobs : Passed(k, t) => teardown[t].on # k  BY <2>1 DEF Passed
    <3> QED  BY <2>1, <3>1, <3>2
  <2>3. \A k \in Jobs : EndOf(k)'  BY <1>0, <2>1, <2>2, EndKept DEF IsTerminal
  <2> QED  BY <2>3 DEF EndInv
<1>19. ASSUME NEW t \in Teardowns, TeardownForced(t) \/ TeardownEnds(t)  PROVE EndInv'
  <2>1. /\ teardown[t].pc \in {"settling", "cancel"} /\ job' = job /\ producer' = producer
        /\ teardown'[t].snap = teardown[t].snap /\ teardown'[t].todo = teardown[t].todo
        /\ teardown[t].pc = "settling" => teardown'[t].on = NoJob
        /\ teardown[t].pc = "cancel" => teardown'[t].on = teardown[t].on
    BY <1>19 DEF TeardownForced, TeardownEnds
  <2>2. teardown'[t].on = NoJob  BY <2>1 DEF TeardownInv, TeardownShape
  <2>3. \A k \in Jobs, u \in Teardowns : Passed(k, u) =>
                 /\ k \in teardown'[u].snap \ teardown'[u].todo
                 /\ teardown'[u].on # k
    BY <1>17, <2>1, <2>2, JobsAssumption
  <2>4. \A k \in Jobs : EndOf(k)'  BY <1>0, <2>1, <2>3, EndKept DEF IsTerminal
  <2> QED  BY <2>4 DEF EndInv
<1>20. ASSUME NEW t \in Teardowns, TeardownMarks(t)  PROVE EndInv'
  <2>1. /\ teardown[t].pc = "mark" /\ producer' = producer /\ teardown'[t].on = NoJob
        /\ teardown'[t].snap = teardown[t].snap /\ teardown'[t].todo = teardown[t].todo
    BY <1>20 DEF TeardownMarks
  <2>2. PICK j \in Jobs : /\ j = teardown[t].on /\ j \in told
                          /\ j \in teardown[t].snap \ teardown[t].todo
    BY <2>1 DEF TeardownInv, TeardownShape, Known
  <2>3. /\ \A k \in Jobs \ {j} : job'[k] = job[k]
        /\ job'[j].settled = job[j].settled /\ job'[j].status = "stopping"
    BY <1>20, <2>2 DEF TeardownMarks
  <2>4. \A k \in Jobs, u \in Teardowns : Passed(k, u) =>
                 /\ k \in teardown'[u].snap \ teardown'[u].todo
                 /\ teardown'[u].on # k
    BY <1>17, <2>1, JobsAssumption
  <2>5. \A k \in Jobs \ {j} : EndOf(k)'
    <3> SUFFICES ASSUME NEW k \in Jobs \ {j}  PROVE EndOf(k)'  OBVIOUS
    <3>1. job'[k].settled = job[k].settled /\ (IsTerminal(k)' <=> IsTerminal(k))
      BY <2>3 DEF IsTerminal
    <3> QED  BY <1>0, <2>1, <2>4, <3>1, EndKept
  <2>6. EndOf(j)'
    <3>1. ~IsTerminal(j)' /\ j \in Known'  BY <2>3 DEF IsTerminal, Known
    <3>2. CASE ~job[j].settled  BY <2>3, <3>1, <3>2 DEF EndOf
    <3>3. CASE job[j].settled
      <4>1. \A u \in Teardowns : ~Passed(j, u)
        <5> SUFFICES ASSUME NEW u \in Teardowns, Passed(j, u)  PROVE FALSE  OBVIOUS
        <5>1. u = t  BY <1>17, <2>1
        <5> QED  BY <2>1, <2>2, <5>1 DEF Passed
      <4>2. producer[j].state = "observed"  BY <3>3, <4>1 DEF EndInv, EndOf
      <4>3. Passed(j, t)'  BY <1>0, <2>1, <2>2, <4>2, JobsAssumption DEF Passed
      <4> QED  BY <3>1, <4>3 DEF EndOf
    <3> QED  BY <3>2, <3>3
  <2> QED  BY <2>5, <2>6 DEF EndInv
<1>21. ASSUME NEW t \in Teardowns, TeardownForces(t)  PROVE EndInv'
  <2>1. /\ teardown[t].pc = "cancelling" /\ producer' = producer
        /\ teardown'[t].on = teardown[t].on /\ teardown'[t].pc = "settling"
        /\ teardown'[t].snap = teardown[t].snap /\ teardown'[t].todo = teardown[t].todo
    BY <1>21 DEF TeardownForces
  <2>2. PICK j \in Jobs : j = teardown[t].on /\ j \in teardown[t].snap \ teardown[t].todo
    BY <2>1 DEF TeardownInv, TeardownShape, Known
  <2>3. /\ IsTerminal(j)' /\ \A k \in Jobs \ {j} : job'[k] = job[k]
        /\ IsTerminal(j) => job' = job
        /\ ~IsTerminal(j) => job'[j].settled = TRUE
    BY <1>21, <2>2, SettleEnds DEF TeardownForces
  <2>4. \A k \in Jobs, u \in Teardowns : Passed(k, u) =>
                 /\ k \in teardown'[u].snap \ teardown'[u].todo
                 /\ teardown'[u].on = k => teardown[u].on = k /\ teardown'[u].pc = "settling"
    <3>1. \A k \in Jobs, u \in Teardowns : Passed(k, u) =>
             u = t /\ k \in teardown'[u].snap \ teardown'[u].todo
      BY <1>17, <2>1
    <3> QED  BY <2>1, <3>1
  <2>5. \A k \in Jobs \ {j} : EndOf(k)'
    <3> SUFFICES ASSUME NEW k \in Jobs \ {j}  PROVE EndOf(k)'  OBVIOUS
    <3>1. job'[k].settled = job[k].settled /\ (IsTerminal(k)' <=> IsTerminal(k))
      BY <2>3 DEF IsTerminal
    <3> QED  BY <1>0, <2>1, <2>4, <3>1, EndKept
  <2>6. EndOf(j)'
    <3>1. job'[j].settled  BY <2>3 DEF EndInv, EndOf
    <3>2. j \in Known'  BY <2>3 DEF Known, IsTerminal
    <3>3. Passed(j, t)'  BY <2>1, <2>2, <2>3 DEF Passed
    <3> QED  BY <3>1, <3>2, <3>3 DEF EndOf
  <2> QED  BY <2>5, <2>6 DEF EndInv
<1> QED
  BY <1>2, <1>3, <1>4, <1>5, <1>6, <1>7, <1>8, <1>9, <1>10, <1>11, <1>12, <1>13, <1>14,
     <1>15, <1>16, <1>18, <1>19, <1>20, <1>21
     DEF Next, SettleStep, KillStep, TeardownStep

-----------------------------------------------------------------------------
(* Who learns of it.                                                       *)

\* The end of a job is known to somebody, or was given up, or is announced to nobody.
Heard(j) == j \in told \cup abandoned \/ listenersClosed

\* A report is claimed by somebody who was told; and the end of a job that nobody
\* announces, because it is announced already or a wait has taken the report over, is
\* heard or waited for.
ReportOf(j) ==
    /\ job[j].reported /\ ~job[j].settled => j \in told
    /\ job[j].settled /\ (settling[j].pc = "none" \/ settling[j].reported) =>
          Heard(j) \/ On(j) # {}

ReportInv == \A j \in Jobs : ReportOf(j)

\* A job that a step leaves alone, but for what is heard.
LEMMA ReportKept ==
    ASSUME TypeOK, ReportInv, NEW k \in Jobs, told \subseteq told',
           Heard(k) => Heard(k)', On(k)' = On(k),
           job'[k].settled = job[k].settled, job'[k].reported = job[k].reported,
           settling'[k] = settling[k]
    PROVE  ReportOf(k)'
BY DEF ReportInv, ReportOf

\* A settlement takes the report only from somebody who was told or waits.
LEMMA SettleReports ==
    ASSUME TypeOK, WaitInv, ReportInv, NEW j \in Jobs, Settle(j), ~IsTerminal(j),
           ~job[j].settled, told' = told, waiter' = waiter
    PROVE  ReportOf(j)'
<1>1. /\ job'[j].settled = TRUE
      /\ settling'[j] = [pc |-> "committed", reported |-> ReportsAtSettle(j)]
  BY SettleEnds
<1>2. ASSUME ReportsAtSettle(j)  PROVE j \in told \/ On(j) # {}
  <2>1. CASE job[j].reported  BY <2>1 DEF ReportInv, ReportOf
  <2>2. CASE job[j].waiters > 0
    <3>1. Cardinality(On(j)) # 0  BY <2>2 DEF WaitInv
    <3> QED  BY <3>1, FS_EmptySet
  <2> QED  BY <1>2, <2>1, <2>2 DEF ReportsAtSettle
<1>3. On(j)' = On(j)  BY DEF On
<1>4. settling'[j].pc # "none" /\ (settling'[j].reported => ReportsAtSettle(j))  BY <1>1
<1> QED  BY <1>1, <1>2, <1>3, <1>4 DEF ReportOf, Heard

\* Every step keeps every end known to somebody.
LEMMA ReportStep ==
    TypeOK /\ WaitInv /\ TeardownInv /\ EndInv /\ ReportInv /\ [Next]_vars => ReportInv'
<1> SUFFICES ASSUME TypeOK, WaitInv, TeardownInv, EndInv, ReportInv, [Next]_vars
             PROVE  ReportInv'
  OBVIOUS
<1>0. /\ Known \subseteq Known' /\ told \subseteq told' /\ \A k \in Jobs : Heard(k) => Heard(k)'
  BY NothingForgotten DEF Heard
<1>1. ASSUME waiter' = waiter, settling' = settling,
             \A k \in Jobs : job'[k].settled = job[k].settled /\ job'[k].reported = job[k].reported
      PROVE  ReportInv'
  <2>1. \A k \in Jobs : On(k)' = On(k)  BY <1>1 DEF On
  <2> QED  BY <1>0, <1>1, <2>1, ReportKept DEF ReportInv
<1> USE DEF TypeOK
<1>2. ASSUME NEW j \in Jobs, StartAdmitted(j) \/ Register(j)  PROVE ReportInv'
  <2>1. CASE StartAdmitted(j)  BY <1>1, <2>1 DEF StartAdmitted
  <2>2. CASE Register(j)  BY <1>1, <2>2 DEF Register
  <2> QED  BY <1>2, <2>1, <2>2
<1>3. ASSUME NEW j \in Jobs, RunFails(j)  PROVE ReportInv'
  <2>1. waiter' = waiter /\ settling' = settling  BY <1>3 DEF RunFails
  <2>2. job'[j] = NewJob /\ \A k \in Jobs \ {j} : job'[k] = job[k]  BY <1>3 DEF RunFails
  <2>3. \A k \in Jobs : On(k)' = On(k)  BY <2>1 DEF On
  <2>4. \A k \in Jobs \ {j} : ReportOf(k)'  BY <1>0, <2>1, <2>2, <2>3, ReportKept
  <2>5. ReportOf(j)'  BY <2>2 DEF ReportOf, NewJob
  <2> QED  BY <2>4, <2>5 DEF ReportInv
<1>4. ASSUME NEW j \in Jobs, ProducerEnds(j) \/ KillLive(j) \/ KillRefused(j) \/ KillCancels(j)
      PROVE  ReportInv'
  BY <1>1, <1>4 DEF ProducerEnds, KillLive, KillRefused, KillCancels
<1>5. ASSUME NEW j \in Jobs, Settle(j), told' = told, waiter' = waiter,
             ~IsTerminal(j) => ~job[j].settled
      PROVE  ReportInv'
  <2>1. CASE IsTerminal(j)
    <3>1. job' = job /\ settling' = settling  BY <1>5, <2>1, SettleEnds
    <3> QED  BY <1>1, <1>5, <3>1
  <2>2. CASE ~IsTerminal(j)
    <3>1. \A k \in Jobs \ {j} : job'[k] = job[k] /\ settling'[k] = settling[k]
      BY <1>5, SettleEnds
    <3>2. \A k \in Jobs : On(k)' = On(k)  BY <1>5 DEF On
    <3>3. \A k \in Jobs \ {j} : ReportOf(k)'  BY <1>0, <3>1, <3>2, ReportKept
    <3>4. ReportOf(j)'  BY <1>5, <2>2, SettleReports
    <3> QED  BY <3>3, <3>4 DEF ReportInv
  <2> QED  BY <2>1, <2>2
<1>6. ASSUME NEW j \in Jobs, Observe(j)  PROVE ReportInv'
  <2>1. ~IsTerminal(j) => ~job[j].settled  BY <1>6, SettlesOnce DEF Observe
  <2>2. told' = told /\ waiter' = waiter /\ Settle(j)  BY <1>6 DEF Observe, history
  <2> QED  BY <1>5, <2>1, <2>2
<1>7. ASSUME NEW t \in Teardowns, TeardownForces(t)  PROVE ReportInv'
  <2>1. PICK j \in Jobs : j = teardown[t].on
    BY <1>7 DEF TeardownForces, TeardownInv, TeardownShape, Known
  <2>2. ~IsTerminal(j) => ~job[j].settled  BY <2>1, SettlesOnce
  <2>3. told' = told /\ waiter' = waiter /\ Settle(j)
    BY <1>7, <2>1 DEF TeardownForces, history
  <2> QED  BY <1>5, <2>2, <2>3
<1>8. ASSUME NEW j \in Jobs, waiter' = waiter, job' = job,
             \A k \in Jobs \ {j} : settling'[k] = settling[k],
             job[j].settled /\ (settling'[j].pc = "none" \/ settling'[j].reported)
                 => Heard(j)' \/ On(j) # {}
      PROVE  ReportInv'
  <2>1. \A k \in Jobs : On(k)' = On(k)  BY <1>8 DEF On
  <2>2. \A k \in Jobs \ {j} : ReportOf(k)'  BY <1>0, <1>8, <2>1, ReportKept
  <2>3. ReportOf(j)'  BY <1>0, <1>8, <2>1 DEF ReportInv, ReportOf
  <2> QED  BY <2>2, <2>3 DEF ReportInv
<1>9. ASSUME NEW j \in Jobs, ResolveListeners(j)  PROVE ReportInv'
  <2>1. /\ waiter' = waiter /\ job' = job /\ listenersClosed' = listenersClosed
        /\ \A k \in Jobs \ {j} : settling'[k] = settling[k]
        /\ ~listenersClosed => /\ settling'[j].pc = "listeners"
                               /\ settling'[j].reported = settling[j].reported
    BY <1>9 DEF ResolveListeners
  <2>2. job[j].settled /\ (settling'[j].pc = "none" \/ settling'[j].reported)
           => Heard(j)' \/ On(j) # {}
    <3>1. CASE listenersClosed  BY <2>1, <3>1 DEF Heard
    <3>2. CASE ~listenersClosed  BY <1>0, <2>1, <3>2 DEF ReportInv, ReportOf
    <3> QED  BY <3>1, <3>2
  <2> QED  BY <1>8, <2>1, <2>2
<1>10. ASSUME NEW j \in Jobs, DeliverReads(j)  PROVE ReportInv'
  <2>1. /\ waiter' = waiter /\ job' = job
        /\ \A k \in Jobs \ {j} : settling'[k] = settling[k]
        /\ ~settling[j].reported => /\ settling'[j].pc = "deliver"
                                    /\ settling'[j].reported = settling[j].reported
    BY <1>10 DEF DeliverReads
  <2>2. job[j].settled /\ (settling'[j].pc = "none" \/ settling'[j].reported)
           => Heard(j)' \/ On(j) # {}
    <3>1. CASE settling[j].reported  BY <1>0, <3>1 DEF ReportInv, ReportOf
    <3>2. CASE ~settling[j].reported  BY <2>1, <3>2
    <3> QED  BY <3>1, <3>2
  <2> QED  BY <1>8, <2>1, <2>2
<1>11. ASSUME NEW j \in Jobs, DeliverSends(j)  PROVE ReportInv'
  <2>1. /\ waiter' = waiter /\ job' = job /\ j \in told'
        /\ \A k \in Jobs \ {j} : settling'[k] = settling[k]
    BY <1>11 DEF DeliverSends
  <2> QED  BY <1>8, <2>1 DEF Heard
<1>12. ASSUME NEW j \in Jobs, settling' = settling, waiter' = waiter, j \in told',
              \A k \in Jobs \ {j} : job'[k] = job[k]
       PROVE  ReportInv'
  <2>1. \A k \in Jobs : On(k)' = On(k)  BY <1>12 DEF On
  <2>2. \A k \in Jobs \ {j} : ReportOf(k)'  BY <1>0, <1>12, <2>1, ReportKept
  <2>3. ReportOf(j)'  BY <1>12 DEF ReportOf, Heard
  <2> QED  BY <2>2, <2>3 DEF ReportInv
<1>13. ASSUME NEW j \in Jobs, Read(j) \/ KillMarks(j)  PROVE ReportInv'
  BY <1>12, <1>13 DEF Read, KillMarks
<1>14. ASSUME NEW w \in Waiters, NEW j \in Jobs, WaitBegins(w, j)  PROVE ReportInv'
  <2>1. /\ settling' = settling
        /\ \A k \in Jobs : job'[k].settled = job[k].settled /\ job'[k].reported = job[k].reported
    BY <1>14 DEF WaitBegins
  <2>2. \A k \in Jobs : On(k) \subseteq On(k)'
    BY <1>14, JobsAssumption DEF WaitBegins, WaitInv, On
  <2>3. \A k \in Jobs : ReportOf(k)'  BY <1>0, <2>1, <2>2 DEF ReportInv, ReportOf
  <2> QED  BY <2>3 DEF ReportInv
<1>15. ASSUME NEW w \in Waiters, NEW j \in Jobs, j = waiter[w].on, settling' = settling,
              waiter' = [waiter EXCEPT ![w] = NoWait],
              \A k \in Jobs \ {j} : job'[k] = job[k], job'[j].settled = job[j].settled,
              job'[j].reported /\ ~job[j].settled => j \in told',
              job[j].settled => Heard(j)'
       PROVE  ReportInv'
  <2>1. \A k \in Jobs \ {j} : On(k)' = On(k)  BY <1>15, JobsAssumption DEF On, NoWait
  <2>2. \A k \in Jobs \ {j} : ReportOf(k)'  BY <1>0, <1>15, <2>1, ReportKept
  <2>3. ReportOf(j)'  BY <1>15 DEF ReportOf
  <2> QED  BY <2>2, <2>3 DEF ReportInv
<1>16. ASSUME NEW w \in Waiters, WaitReturns(w)  PROVE ReportInv'
  <2>1. PICK j \in Jobs : j = waiter[w].on  BY <1>16 DEF WaitReturns, WaitInv, Known
  <2>2. /\ settling' = settling /\ waiter' = [waiter EXCEPT ![w] = NoWait]
        /\ \A k \in Jobs \ {j} : job'[k] = job[k]
        /\ job'[j].settled = job[j].settled
        /\ job'[j].reported => job[j].reported \/ IsTerminal(j)
        /\ IsTerminal(j) => j \in told'
    BY <1>16, <2>1 DEF WaitReturns
  <2>3. job[j].settled => j \in told'  BY <1>0, <2>2, SettlesOnce
  <2>4. job'[j].reported /\ ~job[j].settled => j \in told'
    BY <1>0, <2>2 DEF ReportInv, ReportOf
  <2> QED  BY <1>15, <2>1, <2>2, <2>3, <2>4 DEF Heard
<1>17. ASSUME NEW w \in Waiters, WaitAborts(w)  PROVE ReportInv'
  <2>1. PICK j \in Jobs : j = waiter[w].on  BY <1>17 DEF WaitAborts, WaitInv, Known
  <2>2. /\ settling' = settling /\ waiter' = [waiter EXCEPT ![w] = NoWait]
        /\ \A k \in Jobs \ {j} : job'[k] = job[k]
        /\ job'[j].settled = job[j].settled /\ job'[j].reported = job[j].reported
        /\ job[j].settled => j \in abandoned'
    BY <1>17, <2>1 DEF WaitAborts
  <2>3. job'[j].reported /\ ~job[j].settled => j \in told'
    BY <1>0, <2>2 DEF ReportInv, ReportOf
  <2> QED  BY <1>15, <2>1, <2>2, <2>3 DEF Heard
<1>18. ASSUME NEW t \in Teardowns, TeardownPicks(t)  PROVE ReportInv'
  <2>1. PICK j \in teardown[t].todo :
          /\ settling' = settling /\ waiter' = waiter
          /\ job' = [job EXCEPT ![j].reported = @ \/ ~IsTerminal(j)]
          /\ told' = IF IsTerminal(j) THEN told ELSE told \cup {j}
    BY <1>18 DEF TeardownPicks
  <2>2. j \in Jobs /\ \A k \in Jobs \ {j} : job'[k] = job[k]  BY <2>1
  <2>3. CASE ~IsTerminal(j)  BY <1>12, <2>1, <2>2, <2>3
  <2>4. CASE IsTerminal(j)
    <3>1. job'[j].settled = job[j].settled /\ job'[j].reported = job[j].reported
      BY <2>1, <2>2, <2>4
    <3> QED  BY <1>1, <2>1, <2>2, <3>1
  <2> QED  BY <2>3, <2>4
<1>19. ASSUME NEW t \in Teardowns, TeardownMarks(t)  PROVE ReportInv'
  BY <1>1, <1>19 DEF TeardownMarks
<1>20. ASSUME NEW t \in Teardowns,
              \/ TeardownBegins(t) \/ TeardownCancels(t) \/ TeardownForced(t)
              \/ TeardownEnds(t)
       PROVE  ReportInv'
  BY <1>1, <1>20 DEF TeardownBegins, TeardownCancels, TeardownForced, TeardownEnds
<1>21. CASE HumanClaims \/ UNCHANGED vars  BY <1>1, <1>21 DEF HumanClaims, vars
<1> QED
  BY <1>2, <1>3, <1>4, <1>6, <1>7, <1>9, <1>10, <1>11, <1>13, <1>14, <1>16, <1>17, <1>18,
     <1>19, <1>20, <1>21
     DEF Next, SettleStep, KillStep, TeardownStep

\* What is known of ended jobs, and who heard of them, in every reachable state.
LEMMA EndsHold == Spec => [](TypeOK /\ WaitInv /\ TeardownInv /\ EndInv /\ ReportInv)
<1>1. Init => EndInv /\ ReportInv
  <2> SUFFICES ASSUME Init  PROVE EndInv /\ ReportInv  OBVIOUS
  <2>1. \A j \in Jobs : job[j] = NewJob  BY DEF Init
  <2> QED  BY <2>1 DEF EndInv, EndOf, ReportInv, ReportOf, NewJob, IsTerminal
<1> QED  BY <1>1, WaitsHold, EndStep, ReportStep, PTL DEF Spec

\* A completion is never lost between the registry and the delivery: whichever of settle,
\* a reader, a wait and a killer comes first, somebody is handed the end of the job,
\* unless the wait that took over the report was given up or the service was disposed.
THEOREM CompletionIsKnown == Spec => []CompletionKnown
<1>1. ReportInv => CompletionKnown
  <2> SUFFICES ASSUME ReportInv, NEW j \in Jobs, job[j].settled, settling[j].pc = "none",
                      \A w \in Waiters : waiter[w].on # j
               PROVE  j \in told \cup abandoned \/ listenersClosed
    BY DEF CompletionKnown
  <2>1. On(j) = {}  BY DEF On
  <2> QED  BY <2>1 DEF ReportInv, ReportOf, Heard
<1> QED  BY <1>1, EndsHold, PTL

-----------------------------------------------------------------------------
(* The quota and the store.                                                *)

\* How a job moves: it does not come back once it has ended, it starts by admission, and
\* it is registered from its start.
JobMoves(k) ==
    /\ job[k].settled => job'[k].settled
    /\ job'[k].status = "starting" => job[k].status = "starting" \/ StartAdmitted(k)
    /\ k \in store' => k \in store \/ job[k].status = "starting"
    /\ k \in Known' => k \in Known \/ k \in store' \/ job'[k].settled

\* Every step moves every job this way.
LEMMA EveryJobMoves ==
    ASSUME TypeOK, WaitInv, TeardownInv, EndInv, [Next]_vars, NEW k \in Jobs
    PROVE  JobMoves(k)
<1> USE DEF TypeOK
<1>1. ASSUME job'[k].status = job[k].status, job'[k].settled = job[k].settled,
             store' \subseteq store
      PROVE  JobMoves(k)
  BY <1>1 DEF JobMoves, Known
<1>2. ASSUME NEW j \in Jobs, StartAdmitted(j)  PROVE JobMoves(k)
  <2>1. /\ store' = store /\ job[j].status = "none" /\ job'[j].status = "starting"
        /\ job'[j].settled = job[j].settled /\ \A i \in Jobs \ {j} : job'[i] = job[i]
    BY <1>2 DEF StartAdmitted
  <2>2. CASE k = j  BY <1>2, <2>1, <2>2 DEF JobMoves, Known
  <2>3. CASE k # j  BY <2>1, <2>3 DEF JobMoves, Known
  <2> QED  BY <2>2, <2>3
<1>3. ASSUME NEW j \in Jobs, RunFails(j)  PROVE JobMoves(k)
  <2>1. ~job[j].settled  BY <1>3 DEF RunFails, EndInv, EndOf, Known
  <2> QED  BY <1>3, <2>1 DEF RunFails, JobMoves, Known, NewJob
<1>4. ASSUME NEW j \in Jobs, Register(j)  PROVE JobMoves(k)
  BY <1>4 DEF Register, JobMoves, Known
<1>5. ASSUME NEW j \in Jobs, Settle(j), store' = store  PROVE JobMoves(k)
  <2>1. CASE k = j
    <3>1. CASE IsTerminal(j)
      <4>1. job' = job  BY <1>5, <3>1, SettleEnds
      <4> QED  BY <1>1, <1>5, <4>1
    <3>2. CASE ~IsTerminal(j)
      <4>1. IsTerminal(j)' /\ job'[j].settled  BY <1>5, <3>2, SettleEnds
      <4> QED  BY <1>5, <2>1, <4>1 DEF JobMoves, IsTerminal
    <3> QED  BY <3>1, <3>2
  <2>2. CASE k # j
    <3>1. job'[k] = job[k]  BY <1>5, <2>2, SettleEnds
    <3> QED  BY <1>1, <1>5, <3>1
  <2> QED  BY <2>1, <2>2
<1>6. ASSUME NEW j \in Jobs, Observe(j)  PROVE JobMoves(k)  BY <1>5, <1>6 DEF Observe
<1>7. ASSUME NEW t \in Teardowns, TeardownForces(t)  PROVE JobMoves(k)
  <2>1. teardown[t].on \in Jobs  BY <1>7 DEF TeardownForces, TeardownInv, TeardownShape, Known
  <2> QED  BY <1>5, <1>7, <2>1 DEF TeardownForces
<1>8. ASSUME NEW j \in Jobs, KillMarks(j)  PROVE JobMoves(k)
  <2>1. j \in Known  BY <1>8 DEF KillMarks, WaitInv
  <2> QED  BY <1>8, <2>1 DEF KillMarks, JobMoves, Known
<1>9. ASSUME NEW t \in Teardowns, TeardownMarks(t)  PROVE JobMoves(k)
  <2>1. teardown[t].on \in Known  BY <1>9 DEF TeardownMarks, TeardownInv, TeardownShape
  <2> QED  BY <1>9, <2>1 DEF TeardownMarks, JobMoves, Known
<1>10. ASSUME NEW t \in Teardowns, TeardownPicks(t)  PROVE JobMoves(k)
  BY <1>1, <1>10 DEF TeardownPicks
<1>11. ASSUME NEW t \in Teardowns,
              \/ TeardownBegins(t) \/ TeardownCancels(t) \/ TeardownForced(t)
              \/ TeardownEnds(t)
       PROVE  JobMoves(k)
  BY <1>1, <1>11 DEF TeardownBegins, TeardownCancels, TeardownForced, TeardownEnds
<1>12. ASSUME NEW j \in Jobs,
              ProducerEnds(j) \/ ResolveListeners(j) \/ DeliverReads(j) \/ DeliverSends(j)
       PROVE  JobMoves(k)
  BY <1>1, <1>12 DEF ProducerEnds, ResolveListeners, DeliverReads, DeliverSends
<1>13. ASSUME NEW j \in Jobs, Read(j)  PROVE JobMoves(k)  BY <1>1, <1>13 DEF Read
<1>14. ASSUME NEW j \in Jobs, KillLive(j) \/ KillRefused(j) \/ KillCancels(j)
       PROVE  JobMoves(k)
  BY <1>1, <1>14 DEF KillLive, KillRefused, KillCancels
<1>15. ASSUME NEW w \in Waiters, NEW j \in Jobs, WaitBegins(w, j)  PROVE JobMoves(k)
  BY <1>1, <1>15 DEF WaitBegins
<1>16. ASSUME NEW w \in Waiters, WaitReturns(w)  PROVE JobMoves(k)
  BY <1>1, <1>16 DEF WaitReturns
<1>17. ASSUME NEW w \in Waiters, WaitAborts(w)  PROVE JobMoves(k)
  BY <1>1, <1>17 DEF WaitAborts
<1>18. CASE HumanClaims \/ UNCHANGED vars  BY <1>1, <1>18 DEF HumanClaims, vars
<1> QED
  BY <1>2, <1>3, <1>4, <1>6, <1>7, <1>8, <1>9, <1>10, <1>11, <1>12, <1>13, <1>14, <1>15,
     <1>16, <1>17, <1>18
     DEF Next, SettleStep, KillStep, TeardownStep

\* The work the quota counts.
Counted == (Live \cap store) \cup Starting

\* A start is admitted only below the limit, and no other step adds work to be counted.
LEMMA QuotaStep ==
    TypeOK /\ WaitInv /\ TeardownInv /\ EndInv /\ QuotaKept /\ [Next]_vars => QuotaKept'
<1> SUFFICES ASSUME TypeOK, WaitInv, TeardownInv, EndInv, QuotaKept, [Next]_vars
             PROVE  QuotaKept'
  OBVIOUS
<1>0. Limit \in Nat /\ \A S \in SUBSET Jobs : IsFiniteSet(S) /\ Cardinality(S) \in Nat
  BY JobsAssumption, FS_Subset, FS_CardinalityType
<1>1. Counted \subseteq Jobs /\ Counted' \subseteq Jobs  BY DEF Counted, Live, Starting
<1>2. \A k \in Jobs : JobMoves(k)  BY EveryJobMoves
<1>3. CASE \E j \in Jobs : StartAdmitted(j)
  <2>1. PICK j \in Jobs : StartAdmitted(j)  BY <1>3
  <2>2. Counted' \subseteq Counted \cup {j}
    BY <2>1 DEF StartAdmitted, Counted, Live, Starting, TypeOK
  <2>3. Counted \subseteq Active \cup Starting
    BY DEF Counted, Live, Active, EndInv, EndOf, IsTerminal, TypeOK, Statuses
  <2>4. Active \subseteq Jobs /\ Starting \subseteq Jobs  BY DEF Active, Starting, TypeOK
  <2>5. Cardinality(Active \cup Starting) <= Cardinality(Active) + Cardinality(Starting)
    <3>1. Cardinality(Active \cup Starting) =
             Cardinality(Active) + Cardinality(Starting) - Cardinality(Active \cap Starting)
      BY <1>0, <2>4, FS_Union
    <3>2. Active \cap Starting \subseteq Jobs  BY <2>4
    <3> QED  BY <1>0, <2>4, <3>1, <3>2
  <2>6. Cardinality(Counted \cup {j}) <= Cardinality(Counted) + 1
    <3>1. Cardinality(Counted \cup {j}) =
             IF j \in Counted THEN Cardinality(Counted) ELSE Cardinality(Counted) + 1
      BY <1>0, <1>1, FS_AddElement
    <3> QED  BY <1>0, <1>1, <3>1
  <2>7. /\ Cardinality(Counted') <= Cardinality(Counted \cup {j})
        /\ Cardinality(Counted) <= Cardinality(Active \cup Starting)
    <3>1. Counted \cup {j} \subseteq Jobs /\ Active \cup Starting \subseteq Jobs
      BY <1>1, <2>4
    <3> QED  BY <1>0, <2>2, <2>3, <3>1, FS_Subset
  <2>8. Cardinality(Active) + Cardinality(Starting) < Limit
    BY <2>1 DEF StartAdmitted, Admits
  <2>9. /\ Cardinality(Counted') \in Nat /\ Cardinality(Counted) \in Nat
        /\ Cardinality(Counted \cup {j}) \in Nat /\ Cardinality(Active \cup Starting) \in Nat
        /\ Cardinality(Active) \in Nat /\ Cardinality(Starting) \in Nat
    <3>1. Counted \cup {j} \in SUBSET Jobs /\ Active \cup Starting \in SUBSET Jobs
      BY <1>1, <2>4
    <3> QED  BY <1>0, <1>1, <2>4, <3>1
  <2>10. Cardinality(Counted') <= Limit
    BY ONLY <1>0, <2>5, <2>6, <2>7, <2>8, <2>9
  <2> QED  BY <2>10 DEF QuotaKept, Counted
<1>4. CASE ~\E j \in Jobs : StartAdmitted(j)
  <2>1. Counted' \subseteq Counted
    BY <1>2, <1>4 DEF JobMoves, Counted, Live, Starting, WaitInv, Known
  <2>2. Cardinality(Counted') <= Cardinality(Counted)  BY <1>0, <1>1, <2>1, FS_Subset
  <2>3. Cardinality(Counted') \in Nat /\ Cardinality(Counted) \in Nat  BY <1>0, <1>1
  <2>4. Cardinality(Counted) <= Limit  BY DEF QuotaKept, Counted
  <2>5. Cardinality(Counted') <= Limit  BY ONLY <1>0, <2>2, <2>3, <2>4
  <2> QED  BY <2>5 DEF QuotaKept, Counted
<1> QED  BY <1>3, <1>4

\* Concurrent starts cannot exceed the quota: the reservation Start makes before it lets
\* go of the lock keeps its place until the job is registered or Run fails.
THEOREM QuotaIsKept == Spec => []QuotaKept
<1>1. Init => QuotaKept
  <2> SUFFICES ASSUME Init  PROVE QuotaKept  OBVIOUS
  <2>1. Live \cap store = {} /\ Starting = {}  BY DEF Init, NewJob, Starting
  <2> QED  BY <2>1, FS_EmptySet, JobsAssumption DEF QuotaKept
<1> QED  BY <1>1, EndsHold, QuotaStep, PTL DEF Spec

\* A step that leaves a job out of the store leaves it ended, or unregistered, or dropped
\* by Dispose behind its snapshot.
LEMMA DrainStep ==
    TypeOK /\ WaitInv /\ TeardownInv /\ EndInv /\ DrainedStore /\ [Next]_vars => DrainedStore'
<1> SUFFICES ASSUME TypeOK, WaitInv, TeardownInv, EndInv, DrainedStore, [Next]_vars,
                    NEW j \in Jobs, j \notin store'
             PROVE  \/ j \notin Known' \/ job'[j].settled
                    \/ "service" \in Teardowns /\ teardown'["service"].pc = "done"
                          /\ j \notin teardown'["service"].snap
  BY DEF DrainedStore, Known
<1> DEFINE Dropped == "service" \in Teardowns /\ teardown["service"].pc = "done"
                         /\ j \notin teardown["service"].snap
<1>1. JobMoves(j)  BY EveryJobMoves
<1>2. CASE j \notin store
  <2>1. j \notin Known \/ job[j].settled \/ Dropped  BY <1>2 DEF DrainedStore, Known
  <2>2. "service" \in Teardowns /\ teardown["service"].pc = "done"
           => teardown'["service"] = teardown["service"]
    <3> SUFFICES ASSUME "service" \in Teardowns, teardown["service"].pc = "done"
                 PROVE  teardown'["service"] = teardown["service"]
      OBVIOUS
    <3>1. ASSUME NEW t \in Teardowns, TeardownBegins(t) \/ TeardownStep(t)  PROVE FALSE
      <4>1. teardown[t].pc # "idle" => t = "service"  BY DEF TeardownInv
      <4> QED
        BY <3>1, <4>1 DEF TeardownBegins, TeardownStep, TeardownPicks, TeardownCancels,
                 TeardownForces, TeardownForced, TeardownMarks, TeardownEnds
    <3>2. \/ \E t \in Teardowns : TeardownBegins(t) \/ TeardownStep(t)
          \/ teardown' = teardown
      BY DEF Next, vars, StartAdmitted, RunFails, Register, ProducerEnds, SettleStep, Observe,
             ResolveListeners, DeliverReads, DeliverSends, Read, KillStep, KillLive,
             KillRefused, KillCancels, KillMarks, WaitReturns, WaitAborts, WaitBegins,
             HumanClaims
    <3> QED  BY <3>1, <3>2
  <2> QED  BY <1>1, <2>1, <2>2 DEF JobMoves
<1>3. CASE j \in store
  <2>1. PICK t \in Teardowns : TeardownEnds(t)
    BY <1>3 DEF Next, vars, StartAdmitted, RunFails, Register, ProducerEnds, SettleStep, Observe,
           ResolveListeners, DeliverReads, DeliverSends, Read, KillStep, KillLive,
           KillRefused, KillCancels, KillMarks, WaitReturns, WaitAborts, WaitBegins,
           TeardownBegins, TeardownStep, TeardownPicks, TeardownCancels, TeardownForces,
           TeardownForced, TeardownMarks, HumanClaims
  <2>2. CASE j \in teardown[t].snap
    BY <1>1, <2>1, <2>2 DEF TeardownEnds, AllSettled, JobMoves
  <2>3. CASE j \notin teardown[t].snap
    <3>1. t = "service"  BY <1>3, <2>1, <2>3 DEF TeardownEnds
    <3>2. teardown'[t].pc = "done" /\ teardown'[t].snap = teardown[t].snap
      BY <2>1 DEF TeardownEnds, TypeOK
    <3> QED  BY <2>3, <3>1, <3>2
  <2> QED  BY <2>2, <2>3
<1> QED  BY <1>2, <1>3

\* When a teardown takes a job out of the store its work has ended or its record was
\* forced to failed; only a job that registers while Dispose awaits the others is
\* dropped alive.
THEOREM StoreIsDrained == Spec => []DrainedStore
<1>1. Init => DrainedStore  BY DEF Init, DrainedStore, NewJob
<1> QED  BY <1>1, EndsHold, DrainStep, PTL DEF Spec
=============================================================================
