------------------------- MODULE TurnRecovery_proofs --------------------------
(***************************************************************************)
(* Machine-checked proofs about TurnRecovery, for logs of any length and   *)
(* any number of crashes.                                                  *)
(***************************************************************************)
EXTENDS TurnRecovery, FiniteSetTheorems, SequenceTheorems, TLAPS

-----------------------------------------------------------------------------
(* The inductive invariant.                                                *)

\* Events, logs and registered calls as far as the proofs read them.
EventRec == [type : EventTypes, turn : Nat, step : Nat,
             blocks : Seq([ID : Nat, ToolCallID : Nat]), call : Nat]
Logs  == Seq(EventRec)
Calls == Seq([call : Nat, step : Nat, started : BOOLEAN])

Nested(s) == \A i \in 1 .. Len(s) : Placed(s, i)

\* The first i - 1 events leave a turn, and a step in it, open or closed.
Stands(s, i, turn, step) ==
    /\ TurnsOpen(s, i) = IF turn THEN 1 ELSE 0
    /\ StepsOpen(s, i) = IF step THEN 1 ELSE 0
    /\ step => turn

\* The driver's place agrees with the log it has written.
LiveInv ==
    proc = "live" =>
        /\ log \in Logs /\ Nested(log)
        /\ at \in [turn : Nat, open : BOOLEAN, step : Nat, inStep : BOOLEAN, messages : Nat,
                   calls : Nat, started : Nat, committed : Nat]
        /\ at.turn = Count(log, Len(log) + 1, "turn/start")
        /\ Stands(log, Len(log) + 1, at.open, at.inStep)

\* Whatever storage holds nests.
StoredInv == stored \in Logs /\ Nested(stored)

\* The scan has understood what it has read: its turn and step are the open ones, and
\* calls wait only in an open step.
ScanInv ==
    /\ read \in 0 .. Len(stored)
    /\ scan = [turn |-> scan.turn, step |-> scan.step, pending |-> scan.pending,
               index |-> scan.index]
    /\ scan.turn \in Nat \cup {NoTurn} /\ scan.step \in Nat \cup {NoStep}
    /\ scan.pending \in Calls
    /\ Stands(stored, read + 1, scan.turn # NoTurn, scan.step # NoStep)
    /\ scan.turn # NoTurn => scan.turn = Count(stored, read + 1, "turn/start")
    /\ scan.pending # <<>> => scan.step # NoStep
    /\ proc # "scanning" => scan = Unscanned /\ read = 0

\* The closers of a prepared source close the log.
PreparedInv ==
    proc = "prepared" =>
        /\ closers \in Logs /\ Nested(stored \o closers)
        /\ Stands(stored \o closers, Len(stored \o closers) + 1, FALSE, FALSE)

\* A log whose repair was committed is closed, and has nothing to repair.
CommitInv ==
    /\ commits \in {0, 1}
    /\ commits = 1 /\ proc \in {"down", "scanning", "prepared"} =>
          Stands(stored, Len(stored) + 1, FALSE, FALSE)
    /\ commits = 1 /\ proc = "prepared" => closers = <<>>

RecoveryInv == LiveInv /\ StoredInv /\ ScanInv /\ PreparedInv /\ CommitInv

-----------------------------------------------------------------------------
(* Counting the events of a type.                                          *)

\* Counts are natural numbers, nothing is counted before the first event, and an
\* event counts once, for its own type.
LEMMA CountStep ==
    ASSUME NEW s, NEW i \in Nat \ {0}, NEW t
    PROVE  /\ Count(s, i, t) \in Nat
           /\ Count(s, 1, t) = 0
           /\ Count(s, i + 1, t) = IF s[i].type = t THEN Count(s, i, t) + 1
                                                    ELSE Count(s, i, t)
<1> DEFINE C(n) == {j \in 1 .. n - 1 : s[j].type = t}
<1>1. \A n \in Nat \ {0} : IsFiniteSet(C(n))
  <2> TAKE n \in Nat \ {0}
  <2>1. IsFiniteSet(1 .. n - 1)
    BY FS_Interval
  <2>2. C(n) \subseteq 1 .. n - 1
    OBVIOUS
  <2> QED
    BY <2>1, <2>2, FS_Subset
<1>2. Count(s, i, t) = Cardinality(C(i)) /\ Count(s, i + 1, t) = Cardinality(C(i + 1))
    /\ Count(s, 1, t) = Cardinality(C(1))
  BY DEF Count
<1>3. Cardinality(C(i)) \in Nat
  BY <1>1, FS_CardinalityType
<1>4. Cardinality(C(1)) = 0
  <2>1. C(1) = {}
    OBVIOUS
  <2> QED
    BY <2>1, FS_EmptySet
<1>5. ASSUME s[i].type = t PROVE Cardinality(C(i + 1)) = Cardinality(C(i)) + 1
  <2>1. C(i + 1) = C(i) \cup {i}
    BY <1>5
  <2>2. i \notin C(i)
    OBVIOUS
  <2>3. IsFiniteSet(C(i))
    BY <1>1
  <2> HIDE DEF C
  <2> QED
    BY <2>1, <2>2, <2>3, FS_AddElement
<1>6. ASSUME s[i].type # t PROVE C(i + 1) = C(i)
  BY <1>6
<1> HIDE DEF C
<1> QED
  BY <1>2, <1>3, <1>4, <1>5, <1>6

\* A count reads only the events before its position.
LEMMA CountAgree ==
    ASSUME NEW r, NEW s, NEW i \in Nat, NEW t, \A j \in 1 .. i - 1 : r[j] = s[j]
    PROVE  Count(r, i, t) = Count(s, i, t)
<1>1. {j \in 1 .. i - 1 : r[j].type = t} = {j \in 1 .. i - 1 : s[j].type = t}
  OBVIOUS
<1> QED
  BY <1>1 DEF Count

\* A stretch without events of a type does not change the type's count.
LEMMA CountStill ==
    ASSUME NEW s, NEW i \in Nat \ {0}, NEW k \in Nat, i <= k, NEW t,
           \A j \in i .. k - 1 : s[j].type # t
    PROVE  Count(s, k, t) = Count(s, i, t)
<1>1. {j \in 1 .. k - 1 : s[j].type = t} = {j \in 1 .. i - 1 : s[j].type = t}
  OBVIOUS
<1> QED
  BY <1>1 DEF Count

\* What is open after one more event.
LEMMA OpenStep ==
    ASSUME NEW s, NEW i \in Nat \ {0}
    PROVE  /\ TurnsOpen(s, i) \in Int /\ StepsOpen(s, i) \in Int
           /\ Count(s, i, "turn/start") \in Nat
           /\ TurnsOpen(s, i + 1) = CASE s[i].type = "turn/start" -> TurnsOpen(s, i) + 1
                                      [] s[i].type = "turn/end"   -> TurnsOpen(s, i) - 1
                                      [] OTHER                    -> TurnsOpen(s, i)
           /\ StepsOpen(s, i + 1) = CASE s[i].type = "step/start" -> StepsOpen(s, i) + 1
                                      [] s[i].type = "step/end"   -> StepsOpen(s, i) - 1
                                      [] OTHER                    -> StepsOpen(s, i)
           /\ Count(s, i + 1, "turn/start") = IF s[i].type = "turn/start"
                                                THEN Count(s, i, "turn/start") + 1
                                                ELSE Count(s, i, "turn/start")
           /\ TurnsOpen(s, 1) = 0 /\ StepsOpen(s, 1) = 0 /\ Count(s, 1, "turn/start") = 0
<1>1. \A t : /\ Count(s, i, t) \in Nat
             /\ Count(s, 1, t) = 0
             /\ Count(s, i + 1, t) = IF s[i].type = t THEN Count(s, i, t) + 1
                                                      ELSE Count(s, i, t)
  BY CountStep
<1> QED
  BY <1>1 DEF TurnsOpen, StepsOpen

\* What is open reads only the events before the position.
LEMMA OpenAgree ==
    ASSUME NEW r, NEW s, NEW i \in Nat, \A j \in 1 .. i - 1 : r[j] = s[j]
    PROVE  /\ TurnsOpen(r, i) = TurnsOpen(s, i) /\ StepsOpen(r, i) = StepsOpen(s, i)
           /\ Count(r, i, "turn/start") = Count(s, i, "turn/start")
           /\ \A turn, step : Stands(r, i, turn, step) <=> Stands(s, i, turn, step)
<1>1. \A t : Count(r, i, t) = Count(s, i, t)
  BY CountAgree
<1> QED
  BY <1>1 DEF TurnsOpen, StepsOpen, Stands

\* Events inside a step leave what is open as it is.
LEMMA OpenStill ==
    ASSUME NEW s, NEW i \in Nat \ {0}, NEW k \in Nat, i <= k,
           \A j \in i .. k - 1 : s[j].type \notin {"turn/start", "turn/end",
                                                  "step/start", "step/end"}
    PROVE  /\ TurnsOpen(s, k) = TurnsOpen(s, i) /\ StepsOpen(s, k) = StepsOpen(s, i)
           /\ Count(s, k, "turn/start") = Count(s, i, "turn/start")
<1>1. \A t \in {"turn/start", "turn/end", "step/start", "step/end"} :
         Count(s, k, t) = Count(s, i, t)
  BY CountStill
<1> QED
  BY <1>1 DEF TurnsOpen, StepsOpen

-----------------------------------------------------------------------------
(* Nested logs.                                                            *)

\* Where an event stands depends on it and on what comes before it.
LEMMA PlacedAgree ==
    ASSUME NEW r, NEW s, NEW i \in Nat, \A j \in 1 .. i : r[j] = s[j], i > 0
    PROVE  Placed(r, i) <=> Placed(s, i)
<1>1. r[i] = s[i]
  OBVIOUS
<1>2. /\ TurnsOpen(r, i) = TurnsOpen(s, i) /\ StepsOpen(r, i) = StepsOpen(s, i)
      /\ Count(r, i, "turn/start") = Count(s, i, "turn/start")
  BY OpenAgree
<1> QED
  BY <1>1, <1>2 DEF Placed

\* A log that nests up to a shorter one's length makes the shorter one nest.
LEMMA NestedPrefix ==
    ASSUME NEW r, NEW s, Len(r) \in Nat, Len(s) \in Nat, Len(r) <= Len(s),
           \A j \in 1 .. Len(r) : r[j] = s[j], Nested(s)
    PROVE  Nested(r)
<1> SUFFICES ASSUME NEW i \in 1 .. Len(r) PROVE Placed(r, i)
  BY DEF Nested
<1>1. Placed(s, i)
  BY DEF Nested
<1>2. i \in Nat /\ i > 0 /\ \A j \in 1 .. i : r[j] = s[j]
  OBVIOUS
<1> QED
  BY <1>1, <1>2, PlacedAgree

\* One more event in its place: the log still nests, and what is open moves by it.
LEMMA NestedAppend ==
    ASSUME NEW s \in Logs, NEW e \in EventRec, Nested(s), Placed(Append(s, e), Len(s) + 1)
    PROVE  Append(s, e) \in Logs /\ Nested(Append(s, e))
<1> DEFINE r == Append(s, e)
<1>1. r \in Logs /\ Len(r) = Len(s) + 1 /\ Len(s) \in Nat /\ \A j \in 1 .. Len(s) : r[j] = s[j]
  BY DEF Logs
<1>2. ASSUME NEW i \in 1 .. Len(s) PROVE Placed(r, i)
  <2>1. Placed(s, i)
    BY DEF Nested
  <2>2. i \in Nat /\ i > 0 /\ \A j \in 1 .. i : r[j] = s[j]
    BY <1>1
  <2> HIDE DEF r
  <2> QED
    BY <2>1, <2>2, PlacedAgree
<1>3. Placed(r, Len(s) + 1)
  OBVIOUS
<1> HIDE DEF r
<1>4. Nested(r)
  BY <1>1, <1>2, <1>3 DEF Nested
<1> QED
  BY <1>1, <1>4 DEF r

\* What is open at the end of a log with one more event.
LEMMA OpenAppend ==
    ASSUME NEW s \in Logs, NEW e \in EventRec
    PROVE  LET r == Append(s, e)  n == Len(s) + 1 IN
           /\ n \in Nat \ {0} /\ Len(r) = n /\ r[n] = e
           /\ TurnsOpen(r, n) = TurnsOpen(s, n) /\ StepsOpen(r, n) = StepsOpen(s, n)
           /\ Count(r, n, "turn/start") = Count(s, n, "turn/start")
<1> DEFINE r == Append(s, e)  n == Len(s) + 1
<1>1. n \in Nat \ {0} /\ Len(r) = n /\ r[n] = e /\ \A j \in 1 .. n - 1 : r[j] = s[j]
  BY DEF Logs
<1> HIDE DEF r, n
<1>2. /\ TurnsOpen(r, n) = TurnsOpen(s, n) /\ StepsOpen(r, n) = StepsOpen(s, n)
      /\ Count(r, n, "turn/start") = Count(s, n, "turn/start")
  BY <1>1, OpenAgree
<1> QED
  BY <1>1, <1>2 DEF r, n

-----------------------------------------------------------------------------
(* The live driver.                                                        *)

\* The fields of an event as the driver and the repair build it.
LEMMA PlainEvent ==
    ASSUME NEW t \in EventTypes, NEW turn \in Nat, NEW step \in Nat
    PROVE  /\ Event(t, turn, step) \in EventRec
           /\ Event(t, turn, step).type = t /\ Event(t, turn, step).turn = turn
<1>1. <<>> \in Seq([ID : Nat, ToolCallID : Nat])
  OBVIOUS
<1> QED
  BY <1>1 DEF Event, EventRec, NoId

\* The same for an event that names a call or carries tool-call blocks.
LEMMA EventShape ==
    ASSUME NEW t \in EventTypes, NEW turn \in Nat, NEW step \in Nat
    PROVE  /\ \A c \in Nat : LET e == [Event(t, turn, step) EXCEPT !.call = c]
                             IN  e \in EventRec /\ e.type = t /\ e.turn = turn
           /\ \A n \in Nat : LET e == [Event(t, turn, step) EXCEPT
                                          !.blocks = [i \in 1 .. n |-> ToolCallBlock(i)]]
                             IN  e \in EventRec /\ e.type = t /\ e.turn = turn
<1> DEFINE B == [ID : Nat, ToolCallID : Nat]
<1>1. <<>> \in Seq(B)
  OBVIOUS
<1>2. ASSUME NEW n \in Nat PROVE [i \in 1 .. n |-> ToolCallBlock(i)] \in Seq(B)
  <2>1. \A i \in 1 .. n : ToolCallBlock(i) \in B
    BY DEF ToolCallBlock, NoId
  <2> HIDE DEF B
  <2>2. [i \in 1 .. n |-> ToolCallBlock(i)] \in [1 .. n -> B]
    BY <2>1
  <2> QED
    BY <2>2, SeqDef
<1> HIDE DEF B
<1>3. ASSUME NEW c \in Nat
      PROVE  LET e == [Event(t, turn, step) EXCEPT !.call = c]
             IN  e \in EventRec /\ e.type = t /\ e.turn = turn
  BY <1>1 DEF Event, EventRec, B
<1>4. ASSUME NEW b \in Seq(B)
      PROVE  LET e == [Event(t, turn, step) EXCEPT !.blocks = b]
             IN  e \in EventRec /\ e.type = t /\ e.turn = turn
  BY DEF Event, EventRec, B, NoId
<1> QED
  BY <1>2, <1>3, <1>4

\* Events that open and close neither a turn nor a step.
Inner == {"user/message", "assistant/message", "tool/call", "tool/result"}

Place == [turn : Nat, open : BOOLEAN, step : Nat, inStep : BOOLEAN, messages : Nat,
          calls : Nat, started : Nat, committed : Nat]

\* The driver writes an event that its place allows, and moves its place by it.
LEMMA WriteKeepsLive ==
    ASSUME LiveInv, proc = "live",
           NEW e \in EventRec, NEW next \in Place, Writes(e, next),
           \/ /\ e.type = "turn/start" /\ ~at.open /\ e.turn = at.turn + 1
              /\ next.turn = at.turn + 1 /\ next.open = TRUE /\ next.inStep = FALSE
           \/ /\ e.type = "turn/end" /\ at.open /\ ~at.inStep /\ e.turn = at.turn
              /\ next.turn = at.turn /\ next.open = FALSE /\ next.inStep = FALSE
           \/ /\ e.type = "step/start" /\ at.open /\ ~at.inStep
              /\ next.turn = at.turn /\ next.open = TRUE /\ next.inStep = TRUE
           \/ /\ e.type = "step/end" /\ at.inStep
              /\ next.turn = at.turn /\ next.open = at.open /\ next.inStep = FALSE
           \/ /\ e.type \in Inner /\ at.inStep
              /\ next.turn = at.turn /\ next.open = at.open /\ next.inStep = at.inStep
    PROVE  LiveInv'
<1> DEFINE r == Append(log, e)  n == Len(log) + 1
<1>1. log \in Logs /\ Nested(log) /\ at \in Place /\ at.turn = Count(log, n, "turn/start")
      /\ Stands(log, n, at.open, at.inStep)
  BY DEF LiveInv, Place
<1>2. log' = r /\ at' = next
  BY DEF Writes
<1>3. /\ n \in Nat \ {0} /\ Len(r) = n /\ r[n] = e
      /\ TurnsOpen(r, n) = TurnsOpen(log, n) /\ StepsOpen(r, n) = StepsOpen(log, n)
      /\ Count(r, n, "turn/start") = Count(log, n, "turn/start")
  BY <1>1, OpenAppend
<1> HIDE DEF r, n
<1>4. /\ TurnsOpen(r, n + 1) = CASE r[n].type = "turn/start" -> TurnsOpen(r, n) + 1
                                 [] r[n].type = "turn/end"   -> TurnsOpen(r, n) - 1
                                 [] OTHER                    -> TurnsOpen(r, n)
      /\ StepsOpen(r, n + 1) = CASE r[n].type = "step/start" -> StepsOpen(r, n) + 1
                                 [] r[n].type = "step/end"   -> StepsOpen(r, n) - 1
                                 [] OTHER                    -> StepsOpen(r, n)
      /\ Count(r, n + 1, "turn/start") = IF r[n].type = "turn/start"
                                           THEN Count(r, n, "turn/start") + 1
                                           ELSE Count(r, n, "turn/start")
  BY <1>3, OpenStep
<1>5. at.open \in BOOLEAN /\ at.inStep \in BOOLEAN /\ (at.inStep => at.open)
      /\ at.turn \in Nat
  BY <1>1 DEF Place, Stands
<1>6. /\ TurnsOpen(log, n) = IF at.open THEN 1 ELSE 0
      /\ StepsOpen(log, n) = IF at.inStep THEN 1 ELSE 0
  BY <1>1 DEF Stands
<1>7. Placed(r, n)
  BY <1>1, <1>3, <1>5, <1>6 DEF Placed, Inner
<1>8. Stands(r, n + 1, next.open, next.inStep) /\ next.turn = Count(r, n + 1, "turn/start")
  BY <1>1, <1>3, <1>4, <1>5, <1>6 DEF Stands, Inner
<1>9. r \in Logs /\ Nested(r)
  BY <1>1, <1>7, NestedAppend DEF r, n
<1> QED
  BY <1>2, <1>3, <1>8, <1>9 DEF LiveInv, Place

\* Every step of the live driver keeps its place in agreement with the log.
LEMMA LiveStepKeepsLive ==
    ASSUME LiveInv, proc = "live", LiveStep
    PROVE  LiveInv'
<1>1. at \in Place
  BY DEF LiveInv, Place
<1>0. /\ at.turn \in Nat /\ at.step \in Nat /\ at.messages \in Nat /\ at.started \in Nat
      /\ at.committed \in Nat /\ at.turn + 1 \in Nat /\ at.step + 1 \in Nat
      /\ at.messages + 1 \in Nat /\ 0 \in Nat
  BY <1>1 DEF Place
<1>2. CASE TurnStart
  <2> DEFINE e == Event("turn/start", at.turn + 1, 0)
             next == [Nowhere EXCEPT !.turn = at.turn + 1, !.open = TRUE]
  <2>1. e \in EventRec /\ e.type = "turn/start" /\ e.turn = at.turn + 1
    <3>1. "turn/start" \in EventTypes
      BY DEF EventTypes
    <3>2. at.turn + 1 \in Nat /\ 0 \in Nat
      BY <1>0
    <3>3. e \in EventRec /\ e.type = "turn/start" /\ e.turn = at.turn + 1
      BY <3>1, <3>2, PlainEvent
    <3> QED
      BY <3>3
  <2>2. next \in Place /\ next.turn = at.turn + 1 /\ next.open = TRUE /\ next.inStep = FALSE
    <3>1. \A k \in Nat : LET x == [Nowhere EXCEPT !.turn = k, !.open = TRUE]
                         IN  x \in Place /\ x.turn = k /\ x.open = TRUE /\ x.inStep = FALSE
      BY DEF Place, Nowhere
    <3> QED
      BY <1>0, <3>1
  <2>3. ~at.open /\ Writes(e, next)
    BY <1>2 DEF TurnStart
  <2> HIDE DEF e, next
  <2> QED
    BY <2>1, <2>2, <2>3, WriteKeepsLive
<1>3. CASE StepStart
  <2> DEFINE e == Event("step/start", at.turn, at.step + 1)
             next == [Nowhere EXCEPT !.turn = at.turn, !.open = TRUE, !.step = at.step + 1,
                                     !.inStep = TRUE]
  <2>1. e \in EventRec /\ e.type = "step/start"
    <3>1. "step/start" \in EventTypes
      BY DEF EventTypes
    <3>2. at.turn \in Nat /\ at.step + 1 \in Nat
      BY <1>0
    <3>3. e \in EventRec /\ e.type = "step/start" /\ e.turn = at.turn
      BY <3>1, <3>2, PlainEvent
    <3> QED
      BY <3>3
  <2>2. next \in Place /\ next.turn = at.turn /\ next.open = TRUE /\ next.inStep = TRUE
    <3>1. \A k, m \in Nat :
             LET x == [Nowhere EXCEPT !.turn = k, !.open = TRUE, !.step = m, !.inStep = TRUE]
             IN  x \in Place /\ x.turn = k /\ x.open = TRUE /\ x.inStep = TRUE
      BY DEF Place, Nowhere
    <3> QED
      BY <1>0, <3>1
  <2>3. at.open /\ ~at.inStep /\ Writes(e, next)
    BY <1>3 DEF StepStart
  <2> HIDE DEF e, next
  <2> QED
    BY <2>1, <2>2, <2>3, WriteKeepsLive
<1>4. CASE UserMessage
  <2> DEFINE e == Event("user/message", at.turn, at.step)
  <2>1. e \in EventRec /\ e.type \in Inner
    <3>1. "user/message" \in EventTypes
      BY DEF EventTypes
    <3>2. at.turn \in Nat /\ at.step \in Nat
      BY <1>0
    <3>3. e \in EventRec /\ e.type = "user/message" /\ e.turn = at.turn
      BY <3>1, <3>2, PlainEvent
    <3> QED
      BY <3>3 DEF Inner
  <2>2. at.inStep /\ Writes(e, at)
    BY <1>4 DEF UserMessage
  <2> HIDE DEF e
  <2> QED
    BY <1>1, <2>1, <2>2, WriteKeepsLive
<1>5. ASSUME NEW n \in 0 .. MaxCalls, AssistantMessage(n) PROVE LiveInv'
  <2> DEFINE e == [Event("assistant/message", at.turn, at.step) EXCEPT
                      !.blocks = [i \in 1 .. n |-> ToolCallBlock(i)]]
             next == [at EXCEPT !.messages = @ + 1, !.calls = n, !.started = 0, !.committed = 0]
  <2>0. n \in Nat
    OBVIOUS
  <2>1. e \in EventRec /\ e.type \in Inner
    <3>1. "assistant/message" \in EventTypes /\ at.turn \in Nat /\ at.step \in Nat
      BY <1>1 DEF Place, EventTypes
    <3>2. \A k \in Nat :
             LET x == [Event("assistant/message", at.turn, at.step) EXCEPT
                          !.blocks = [i \in 1 .. k |-> ToolCallBlock(i)]]
             IN  x \in EventRec /\ x.type = "assistant/message"
      BY <3>1, EventShape, SMTT(30)
    <3>3. e \in EventRec /\ e.type = "assistant/message"
      BY <2>0, <3>2, Zenon
    <3> QED
      BY <3>3 DEF Inner
  <2>2. next \in Place /\ next.turn = at.turn /\ next.open = at.open /\ next.inStep = at.inStep
    <3>1. \A k \in Nat :
             LET x == [at EXCEPT !.messages = k, !.calls = n, !.started = 0, !.committed = 0]
             IN  /\ x \in Place /\ x.turn = at.turn /\ x.open = at.open
                 /\ x.inStep = at.inStep
      BY <1>1, <2>0 DEF Place
    <3> QED
      BY <1>0, <3>1
  <2>3. at.inStep /\ Writes(e, next)
    BY <1>5 DEF AssistantMessage
  <2> HIDE DEF e, next
  <2> QED
    BY <2>1, <2>2, <2>3, WriteKeepsLive
<1>6. CASE ToolCall
  <2> DEFINE e == [Event("tool/call", at.turn, at.step) EXCEPT !.call = at.started + 1]
             next == [at EXCEPT !.started = @ + 1]
  <2>1. e \in EventRec /\ e.type \in Inner
    <3>1. "tool/call" \in EventTypes /\ at.turn \in Nat /\ at.step \in Nat /\ at.started + 1 \in Nat
      BY <1>1 DEF Place, EventTypes
    <3>2. e \in EventRec /\ e.type = "tool/call"
      BY <3>1, EventShape
    <3> QED
      BY <3>2 DEF Inner
  <2>2. next \in Place /\ next.turn = at.turn /\ next.open = at.open /\ next.inStep = at.inStep
    BY <1>1 DEF Place
  <2>3. at.inStep /\ Writes(e, next)
    BY <1>6 DEF ToolCall
  <2> HIDE DEF e, next
  <2> QED
    BY <2>1, <2>2, <2>3, WriteKeepsLive
<1>7. CASE ToolResult
  <2> DEFINE e == [Event("tool/result", at.turn, at.step) EXCEPT !.call = at.committed + 1]
             next == [at EXCEPT !.committed = @ + 1]
  <2>1. e \in EventRec /\ e.type \in Inner
    <3>1. "tool/result" \in EventTypes /\ at.turn \in Nat /\ at.step \in Nat
          /\ at.committed + 1 \in Nat
      BY <1>1 DEF Place, EventTypes
    <3>2. e \in EventRec /\ e.type = "tool/result"
      BY <3>1, EventShape
    <3> QED
      BY <3>2 DEF Inner
  <2>2. next \in Place /\ next.turn = at.turn /\ next.open = at.open /\ next.inStep = at.inStep
    BY <1>1 DEF Place
  <2>3. at.inStep /\ Writes(e, next)
    BY <1>7 DEF ToolResult
  <2> HIDE DEF e, next
  <2> QED
    BY <2>1, <2>2, <2>3, WriteKeepsLive
<1>8. CASE StepEnd
  <2> DEFINE e == Event("step/end", at.turn, at.step)
             next == [at EXCEPT !.inStep = FALSE]
  <2>1. e \in EventRec /\ e.type = "step/end"
    <3>1. "step/end" \in EventTypes
      BY DEF EventTypes
    <3>2. at.turn \in Nat /\ at.step \in Nat
      BY <1>0
    <3>3. e \in EventRec /\ e.type = "step/end" /\ e.turn = at.turn
      BY <3>1, <3>2, PlainEvent
    <3> QED
      BY <3>3
  <2>2. next \in Place /\ next.turn = at.turn /\ next.open = at.open /\ next.inStep = FALSE
    BY <1>1 DEF Place
  <2>3. at.inStep /\ Writes(e, next)
    BY <1>8 DEF StepEnd
  <2> HIDE DEF e, next
  <2> QED
    BY <2>1, <2>2, <2>3, WriteKeepsLive
<1>9. CASE TurnEnd
  <2> DEFINE e == Event("turn/end", at.turn, 0)
             next == [at EXCEPT !.open = FALSE]
  <2>1. e \in EventRec /\ e.type = "turn/end" /\ e.turn = at.turn
    <3>1. "turn/end" \in EventTypes
      BY DEF EventTypes
    <3>2. at.turn \in Nat /\ 0 \in Nat
      BY <1>0
    <3>3. e \in EventRec /\ e.type = "turn/end" /\ e.turn = at.turn
      BY <3>1, <3>2, PlainEvent
    <3> QED
      BY <3>3
  <2>2. at.open /\ ~at.inStep /\ Writes(e, next)
    BY <1>9 DEF TurnEnd
  <2>3. next \in Place /\ next.turn = at.turn /\ next.open = FALSE /\ next.inStep = FALSE
    BY <1>1, <2>2 DEF Place
  <2> HIDE DEF e, next
  <2> QED
    BY <2>1, <2>2, <2>3, WriteKeepsLive
<1> QED
  BY <1>2, <1>3, <1>4, <1>5, <1>6, <1>7, <1>8, <1>9 DEF LiveStep

-----------------------------------------------------------------------------
(* The scan.                                                               *)

\* Starting a pending call leaves a sequence of calls.
LEMMA StartedCalls ==
    ASSUME NEW p \in Calls, NEW x
    PROVE  [p EXCEPT ![x].started = TRUE] \in Calls
<1> DEFINE C == [call : Nat, step : Nat, started : BOOLEAN]
           q == [p EXCEPT ![x].started = TRUE]
<1>0. p \in Seq(C)
  BY DEF Calls
<1>2. \A c \in C : [c EXCEPT !.started = TRUE] \in C
  OBVIOUS
<1> HIDE DEF C
<1>1. Len(p) \in Nat /\ p \in [1 .. Len(p) -> C]
  BY <1>0
<1>3. q \in [1 .. Len(p) -> C]
  BY <1>1, <1>2
<1> HIDE DEF q
<1>4. q \in Seq(C)
  BY <1>1, <1>3, SeqDef
<1> QED
  BY <1>4 DEF q, C, Calls

\* The calls of a message join the pending ones.
LEMMA RegisteredCalls ==
    ASSUME NEW e \in EventRec, scan.pending \in Calls,
           scan = [turn |-> scan.turn, step |-> scan.step, pending |-> scan.pending,
                   index |-> scan.index]
    PROVE  LET new == Registered(e) IN
           /\ new = [turn |-> new.turn, step |-> new.step, pending |-> new.pending,
                     index |-> new.index]
           /\ new.turn = scan.turn /\ new.step = scan.step /\ new.pending \in Calls
<1> DEFINE C == [call : Nat, step : Nat, started : BOOLEAN]
           more == [i \in DOMAIN e.blocks |->
                      [call |-> RegisteredId(e.blocks[i]), step |-> e.step, started |-> FALSE]]
<1>1. more \in Seq(C)
  <2>1. e.blocks \in Seq([ID : Nat, ToolCallID : Nat]) /\ e.step \in Nat
    BY DEF EventRec
  <2>2. DOMAIN e.blocks = 1 .. Len(e.blocks) /\ Len(e.blocks) \in Nat
    BY <2>1
  <2>3. \A i \in DOMAIN e.blocks : e.blocks[i].ToolCallID \in Nat
    <3> DEFINE B == [ID : Nat, ToolCallID : Nat]
    <3>1. \A b \in B : b.ToolCallID \in Nat
      OBVIOUS
    <3>2. e.blocks \in Seq(B)
      BY <2>1
    <3> HIDE DEF B
    <3>3. \A i \in 1 .. Len(e.blocks) : e.blocks[i] \in B
      BY <3>2
    <3> QED
      BY <2>2, <3>1, <3>3
  <2>4. more \in [1 .. Len(e.blocks) -> C]
    BY <2>1, <2>2, <2>3 DEF RegisteredId
  <2> HIDE DEF more, C
  <2> QED
    BY <2>2, <2>4, SeqDef
<1>2. scan.pending \o more \in Calls
  <2> HIDE DEF more
  <2> QED
    BY <1>1 DEF Calls
<1>3. \E index : Registered(e) = [scan EXCEPT !.pending = scan.pending \o more, !.index = index]
  BY DEF Registered
<1> HIDE DEF more
<1>4. PICK index :
         Registered(e) = [scan EXCEPT !.pending = scan.pending \o more, !.index = index]
  BY <1>3
<1> QED
  BY <1>2, <1>4

\* What an event of a nesting log does to the scan: turn and step follow what is open.
LEMMA ScanFollows ==
    ASSUME StoredInv, ScanInv, read < Len(stored), scan' = Scan(stored[read + 1])
    PROVE  /\ scan' = [turn |-> scan'.turn, step |-> scan'.step, pending |-> scan'.pending,
                       index |-> scan'.index]
           /\ scan'.turn \in Nat \cup {NoTurn} /\ scan'.step \in Nat \cup {NoStep}
           /\ scan'.pending \in Calls
           /\ Stands(stored, read + 2, scan'.turn # NoTurn, scan'.step # NoStep)
           /\ scan'.turn # NoTurn => scan'.turn = Count(stored, read + 2, "turn/start")
           /\ scan'.pending # <<>> => scan'.step # NoStep
<1> DEFINE i == read + 1  e == stored[i]
<1>1. i \in Nat \ {0} /\ i + 1 = read + 2 /\ e \in EventRec /\ Placed(stored, i)
      /\ Stands(stored, i, scan.turn # NoTurn, scan.step # NoStep)
      /\ (scan.turn # NoTurn => scan.turn = Count(stored, i, "turn/start"))
  BY DEF StoredInv, ScanInv, Logs, Nested
<1>2. /\ scan = [turn |-> scan.turn, step |-> scan.step, pending |-> scan.pending,
                 index |-> scan.index]
      /\ scan.turn \in Nat \cup {NoTurn} /\ scan.step \in Nat \cup {NoStep}
      /\ scan.pending \in Calls /\ (scan.pending # <<>> => scan.step # NoStep)
  BY DEF ScanInv
<1>3. e.type \in EventTypes /\ e.turn \in Nat /\ e.step \in Nat
  BY <1>1 DEF EventRec
<1>4. scan' = Scan(e)
  OBVIOUS
<1>5. /\ TurnsOpen(stored, i) \in Int /\ StepsOpen(stored, i) \in Int
      /\ Count(stored, i, "turn/start") \in Nat
      /\ TurnsOpen(stored, i + 1) = CASE e.type = "turn/start" -> TurnsOpen(stored, i) + 1
                                      [] e.type = "turn/end"   -> TurnsOpen(stored, i) - 1
                                      [] OTHER                 -> TurnsOpen(stored, i)
      /\ StepsOpen(stored, i + 1) = CASE e.type = "step/start" -> StepsOpen(stored, i) + 1
                                      [] e.type = "step/end"   -> StepsOpen(stored, i) - 1
                                      [] OTHER                 -> StepsOpen(stored, i)
      /\ Count(stored, i + 1, "turn/start") = IF e.type = "turn/start"
                                                THEN Count(stored, i, "turn/start") + 1
                                                ELSE Count(stored, i, "turn/start")
  <2> HIDE DEF i
  <2> QED
    BY <1>1, OpenStep DEF e
<1>6. /\ TurnsOpen(stored, i) = IF scan.turn # NoTurn THEN 1 ELSE 0
      /\ StepsOpen(stored, i) = IF scan.step # NoStep THEN 1 ELSE 0
      /\ (scan.step # NoStep => scan.turn # NoTurn)
  BY <1>1 DEF Stands
<1>7. <<>> \in Calls
  BY DEF Calls
<1> HIDE DEF e, i
<1> SUFFICES
        /\ scan' = [turn |-> scan'.turn, step |-> scan'.step, pending |-> scan'.pending,
                    index |-> scan'.index]
        /\ scan'.turn \in Nat \cup {NoTurn} /\ scan'.step \in Nat \cup {NoStep}
        /\ scan'.pending \in Calls
        /\ TurnsOpen(stored, i + 1) = IF scan'.turn # NoTurn THEN 1 ELSE 0
        /\ StepsOpen(stored, i + 1) = IF scan'.step # NoStep THEN 1 ELSE 0
        /\ (scan'.step # NoStep => scan'.turn # NoTurn)
        /\ (scan'.turn # NoTurn => scan'.turn = Count(stored, i + 1, "turn/start"))
        /\ (scan'.pending # <<>> => scan'.step # NoStep)
  BY <1>1 DEF Stands
<1>8. CASE e.type = "turn/start"
  <2>1. scan' = [Unscanned EXCEPT !.turn = e.turn]
    BY <1>4, <1>8 DEF Scan
  <2>2. /\ scan' = [turn |-> scan'.turn, step |-> scan'.step, pending |-> scan'.pending,
                    index |-> scan'.index]
        /\ scan'.turn = e.turn /\ scan'.step = NoStep /\ scan'.pending = <<>>
    BY <2>1 DEF Unscanned
  <2>3. TurnsOpen(stored, i) = 0 /\ e.turn = Count(stored, i, "turn/start") + 1
    BY <1>1, <1>8 DEF Placed, e
  <2>4. e.turn # NoTurn /\ scan.turn = NoTurn /\ scan.step = NoStep
    BY <1>3, <1>6, <2>3 DEF NoTurn
  <2> QED
    BY <1>3, <1>5, <1>6, <1>7, <1>8, <2>2, <2>3, <2>4
<1>9. CASE e.type = "turn/end"
  <2>1. scan' = Unscanned
    BY <1>4, <1>9 DEF Scan
  <2>2. /\ scan' = [turn |-> scan'.turn, step |-> scan'.step, pending |-> scan'.pending,
                    index |-> scan'.index]
        /\ scan'.turn = NoTurn /\ scan'.step = NoStep /\ scan'.pending = <<>>
    BY <2>1 DEF Unscanned
  <2>3. TurnsOpen(stored, i) = 1 /\ StepsOpen(stored, i) = 0
    BY <1>1, <1>9 DEF Placed, e
  <2> QED
    BY <1>5, <1>7, <1>9, <2>2, <2>3
<1>10. CASE e.type = "step/start"
  <2>1. scan' = [scan EXCEPT !.step = e.step]
    BY <1>4, <1>10 DEF Scan
  <2>2. /\ scan' = [turn |-> scan'.turn, step |-> scan'.step, pending |-> scan'.pending,
                    index |-> scan'.index]
        /\ scan'.turn = scan.turn /\ scan'.step = e.step /\ scan'.pending = scan.pending
    BY <1>2, <2>1
  <2>3. TurnsOpen(stored, i) = 1 /\ StepsOpen(stored, i) = 0
    BY <1>1, <1>10 DEF Placed, e
  <2>4. e.step # NoStep /\ scan.turn # NoTurn
    BY <1>3, <1>6, <2>3 DEF NoStep
  <2> QED
    BY <1>2, <1>3, <1>1, <1>5, <1>6, <1>10, <2>2, <2>3, <2>4
<1>11. CASE e.type = "step/end"
  <2>1. scan' = [Unscanned EXCEPT !.turn = scan.turn]
    BY <1>4, <1>11 DEF Scan
  <2>2. /\ scan' = [turn |-> scan'.turn, step |-> scan'.step, pending |-> scan'.pending,
                    index |-> scan'.index]
        /\ scan'.turn = scan.turn /\ scan'.step = NoStep /\ scan'.pending = <<>>
    BY <2>1 DEF Unscanned
  <2>3. StepsOpen(stored, i) = 1
    BY <1>1, <1>11 DEF Placed, e
  <2> QED
    BY <1>2, <1>1, <1>5, <1>6, <1>7, <1>11, <2>2, <2>3
<1>12. CASE e.type \in Inner
  <2>1. /\ scan' = [turn |-> scan'.turn, step |-> scan'.step, pending |-> scan'.pending,
                    index |-> scan'.index]
        /\ scan'.turn = scan.turn /\ scan'.step = scan.step /\ scan'.pending \in Calls
    <3>1. CASE e.type = "assistant/message"
      <4>1. scan' = Registered(e)
        BY <1>4, <3>1 DEF Scan
      <4> QED
        BY <1>1, <1>2, <4>1, RegisteredCalls DEF e
    <3>2. CASE e.type = "tool/call" /\ e.call \in DOMAIN scan.index
      <4>1. scan' = [scan EXCEPT !.pending[scan.index[e.call]].started = TRUE]
        BY <1>4, <3>2 DEF Scan
      <4>2. scan' = [scan EXCEPT !.pending =
                        [scan.pending EXCEPT ![scan.index[e.call]].started = TRUE]]
        BY <1>2, <4>1
      <4>3. [scan.pending EXCEPT ![scan.index[e.call]].started = TRUE] \in Calls
        BY <1>2, StartedCalls
      <4> QED
        BY <1>2, <4>2, <4>3
    <3>3. CASE e.type = "tool/result"
      <4>1. \E index : scan' = [scan EXCEPT !.index = index]
        BY <1>4, <3>3 DEF Scan
      <4> QED
        BY <1>2, <4>1
    <3>4. CASE e.type = "user/message" \/ (e.type = "tool/call" /\ e.call \notin DOMAIN scan.index)
      <4>1. scan' = scan
        BY <1>4, <3>4 DEF Scan
      <4> QED
        BY <1>2, <4>1
    <3> QED
      BY <1>12, <3>1, <3>2, <3>3, <3>4 DEF Inner
  <2>2. StepsOpen(stored, i) = 1
    BY <1>1, <1>12 DEF Placed, e, Inner
  <2>3. TurnsOpen(stored, i + 1) = TurnsOpen(stored, i)
        /\ StepsOpen(stored, i + 1) = StepsOpen(stored, i)
        /\ Count(stored, i + 1, "turn/start") = Count(stored, i, "turn/start")
    BY <1>5, <1>12 DEF Inner
  <2>4. scan.step # NoStep
    BY <1>6, <2>2
  <2> QED
    BY <1>1, <1>2, <1>6, <2>1, <2>3, <2>4
<1> QED
  BY <1>3, <1>8, <1>9, <1>10, <1>11, <1>12 DEF EventTypes, Inner

-----------------------------------------------------------------------------
(* The repair.                                                             *)

\* Logs put one after the other.
LEMMA Concatenated ==
    ASSUME NEW a \in Logs, NEW b \in Logs
    PROVE  /\ a \o b \in Logs /\ Len(a \o b) = Len(a) + Len(b)
           /\ Len(a) \in Nat /\ Len(b) \in Nat
           /\ \A i \in 1 .. Len(a) : (a \o b)[i] = a[i]
           /\ \A i \in 1 .. Len(b) : (a \o b)[Len(a) + i] = b[i]
BY DEF Logs

\* The results the repair gives the pending calls.
Results == [i \in DOMAIN scan.pending |->
              [Event("tool/result", scan.turn, scan.pending[i].step) EXCEPT
                  !.call = scan.pending[i].call]]

\* Every pending call gets one result.
LEMMA ResultsShape ==
    ASSUME scan.turn \in Nat, scan.pending \in Calls
    PROVE  /\ Results \in Logs /\ Len(Results) = Len(scan.pending)
           /\ \A i \in 1 .. Len(Results) : Results[i].type = "tool/result"
<1> DEFINE C == [call : Nat, step : Nat, started : BOOLEAN]  n == Len(scan.pending)
<1>1. scan.pending \in Seq(C)
  BY DEF Calls
<1>2. \A c \in C : c.call \in Nat /\ c.step \in Nat
  OBVIOUS
<1> HIDE DEF C
<1>3. n \in Nat /\ DOMAIN scan.pending = 1 .. n
      /\ \A i \in 1 .. n : scan.pending[i].call \in Nat /\ scan.pending[i].step \in Nat
  BY <1>1, <1>2
<1>4. "tool/result" \in EventTypes
  BY DEF EventTypes
<1>5. ASSUME NEW step \in Nat, NEW c \in Nat
      PROVE  LET e == [Event("tool/result", scan.turn, step) EXCEPT !.call = c]
             IN  e \in EventRec /\ e.type = "tool/result"
  BY <1>4, EventShape
<1>6. /\ DOMAIN Results = 1 .. n
      /\ \A i \in 1 .. n : Results[i] \in EventRec /\ Results[i].type = "tool/result"
  BY <1>3, <1>5 DEF Results
<1>7. Results = [i \in 1 .. n |-> Results[i]]
  BY <1>6 DEF Results
<1>8. Results \in [1 .. n -> EventRec]
  BY <1>6, <1>7
<1> HIDE DEF n
<1>9. Results \in Seq(EventRec) /\ Len(Results) = n
  BY <1>3, <1>8, SeqDef
<1> QED
  BY <1>6, <1>9 DEF Logs, n

\* The closers nest after the log that was scanned and leave it closed, and a log
\* that is closed gets none.
LEMMA ClosersClose ==
    ASSUME StoredInv, ScanInv, read = Len(stored)
    PROVE  LET c == InterruptedTurnClosers  r == stored \o c IN
           /\ c \in Logs /\ Nested(r) /\ Stands(r, Len(r) + 1, FALSE, FALSE)
           /\ Stands(stored, Len(stored) + 1, FALSE, FALSE) => c = <<>>
<1> DEFINE m == Len(stored)  c == InterruptedTurnClosers  r == stored \o c
<1>1. m \in Nat /\ stored \in Logs /\ Nested(stored)
      /\ Stands(stored, m + 1, scan.turn # NoTurn, scan.step # NoStep)
      /\ scan.turn \in Nat \cup {NoTurn} /\ scan.step \in Nat \cup {NoStep}
      /\ scan.pending \in Calls /\ (scan.pending # <<>> => scan.step # NoStep)
      /\ (scan.turn # NoTurn => scan.turn = Count(stored, m + 1, "turn/start"))
  BY DEF StoredInv, ScanInv, Logs
<1>2. CASE scan.turn = NoTurn
  <2>1. c = <<>>
    BY <1>2 DEF InterruptedTurnClosers
  <2>2. c \in Logs /\ r = stored
    BY <1>1, <2>1 DEF Logs
  <2>3. scan.step = NoStep
    BY <1>1, <1>2 DEF Stands
  <2>4. Stands(stored, m + 1, FALSE, FALSE)
    BY <1>1, <1>2, <2>3 DEF Stands
  <2> QED
    BY <1>1, <2>1, <2>2, <2>4
<1>3. CASE scan.turn # NoTurn
  <2> DEFINE p == Len(Results)  q == Len(StepCloser)
  <2>1. Results \in Logs /\ p = Len(scan.pending) /\ p \in Nat
        /\ \A i \in 1 .. p : Results[i].type = "tool/result"
    <3>1. Results \in Logs /\ p = Len(scan.pending)
          /\ \A i \in 1 .. p : Results[i].type = "tool/result"
      BY <1>1, <1>3, ResultsShape
    <3> QED
      BY <3>1 DEF Logs
  <2>2. \A t \in EventTypes, k, l \in Nat :
           Event(t, k, l) \in EventRec /\ Event(t, k, l).type = t /\ Event(t, k, l).turn = k
    BY PlainEvent
  <2>3. /\ StepCloser \in Logs /\ q = IF scan.step = NoStep THEN 0 ELSE 1
        /\ scan.step # NoStep => StepCloser[1].type = "step/end"
    <3>1. "step/end" \in EventTypes
      BY DEF EventTypes
    <3>2. scan.step # NoStep => Event("step/end", scan.turn, scan.step) \in EventRec
                                /\ Event("step/end", scan.turn, scan.step).type = "step/end"
      BY <1>1, <1>3, <2>2, <3>1
    <3> QED
      BY <3>2 DEF StepCloser, Logs
  <2>4. TurnCloser \in Logs /\ Len(TurnCloser) = 1 /\ TurnCloser[1].type = "turn/end"
        /\ TurnCloser[1].turn = scan.turn
    <3>1. "turn/end" \in EventTypes
      BY DEF EventTypes
    <3>2. Event("turn/end", scan.turn, 0) \in EventRec
          /\ Event("turn/end", scan.turn, 0).type = "turn/end"
          /\ Event("turn/end", scan.turn, 0).turn = scan.turn
      BY <1>1, <1>3, <2>2, <3>1
    <3> QED
      BY <3>2 DEF TurnCloser, Logs
  <2>5. c = Results \o StepCloser \o TurnCloser
    BY <1>3 DEF InterruptedTurnClosers, Results
  <2> DEFINE n == m + p + q + 1
  <2>6. /\ c \in Logs /\ r \in Logs /\ Len(r) = n /\ n \in Nat /\ q \in {0, 1}
        /\ \A i \in 1 .. m : r[i] = stored[i]
        /\ \A i \in m + 1 .. m + p : r[i].type = "tool/result"
        /\ q = 1 => r[m + p + 1].type = "step/end"
        /\ r[n].type = "turn/end" /\ r[n].turn = scan.turn
    <3> HIDE DEF c
    <3>0. q \in {0, 1}
      BY <2>3
    <3>1. c \in Logs /\ Len(c) = p + q + 1
          /\ (\A i \in 1 .. p : c[i] = Results[i])
          /\ (q = 1 => c[p + 1] = StepCloser[1])
          /\ c[p + q + 1] = TurnCloser[1]
      <4> DEFINE d == Results \o StepCloser
      <4>1. d \in Logs /\ Len(d) = p + q /\ (\A i \in 1 .. p : d[i] = Results[i])
            /\ (q = 1 => d[p + 1] = StepCloser[1])
        <5>1. /\ d \in Logs /\ Len(d) = p + q /\ (\A i \in 1 .. p : d[i] = Results[i])
              /\ \A i \in 1 .. q : d[p + i] = StepCloser[i]
          BY <2>1, <2>3, Concatenated
        <5>2. q = 1 => 1 \in 1 .. q
          OBVIOUS
        <5> HIDE DEF d, p, q
        <5> QED
          BY <5>1, <5>2
      <4>2. c = d \o TurnCloser
        BY <2>5
      <4> HIDE DEF d
      <4>3. /\ c \in Logs /\ Len(c) = Len(d) + 1 /\ (\A i \in 1 .. Len(d) : c[i] = d[i])
            /\ \A i \in 1 .. 1 : c[Len(d) + i] = TurnCloser[i]
        <5>1. d \in Logs /\ TurnCloser \in Logs /\ Len(TurnCloser) = 1
          BY <2>4, <4>1
        <5>2. \A b \in Logs :
                 /\ d \o b \in Logs /\ Len(d \o b) = Len(d) + Len(b)
                 /\ \A i \in 1 .. Len(d) : (d \o b)[i] = d[i]
                 /\ \A i \in 1 .. Len(b) : (d \o b)[Len(d) + i] = b[i]
          BY <5>1, Concatenated
        <5>3. /\ c \in Logs /\ Len(c) = Len(d) + Len(TurnCloser)
              /\ \A i \in 1 .. Len(d) : c[i] = d[i]
              /\ \A i \in 1 .. Len(TurnCloser) : c[Len(d) + i] = TurnCloser[i]
          BY <4>2, <5>1, <5>2, Zenon
        <5> QED
          BY <5>1, <5>3
      <4> HIDE DEF p, q
      <4>4. ASSUME NEW i \in 1 .. p PROVE i \in 1 .. Len(d)
        BY <2>1, <3>0, <4>1
      <4>5. q = 1 => p + 1 \in 1 .. Len(d)
        BY <2>1, <4>1
      <4>6. c[p + q + 1] = TurnCloser[1]
        BY <4>1, <4>3
      <4> QED
        BY <4>1, <4>3, <4>4, <4>5, <4>6
    <3>2. /\ r \in Logs /\ Len(r) = m + Len(c)
          /\ \A i \in 1 .. m : r[i] = stored[i]
          /\ \A i \in 1 .. Len(c) : r[m + i] = c[i]
      BY <1>1, <3>1, Concatenated
    <3> HIDE DEF p, q, r, m
    <3>3. ASSUME NEW i \in m + 1 .. m + p PROVE r[i].type = "tool/result"
      <4>1. i - m \in 1 .. p /\ i - m \in 1 .. Len(c) /\ m + (i - m) = i
        BY <1>1, <2>1, <3>0, <3>1
      <4> QED
        <5>1. r[m + (i - m)] = c[i - m]
          BY <3>2, <4>1
        <5>2. c[i - m] = Results[i - m] /\ Results[i - m].type = "tool/result"
          BY <2>1, <3>1, <4>1
        <5> QED
          BY <4>1, <5>1, <5>2
    <3>4. q = 1 => r[m + p + 1].type = "step/end"
      <4>0. Len(c) = p + q + 1 /\ m \in Nat /\ p \in Nat
        BY <1>1, <2>1, <3>1
      <4>1. q = 1 => p + 1 \in 1 .. Len(c) /\ m + (p + 1) = m + p + 1
        BY <4>0
      <4> QED
        BY <2>3, <3>1, <3>2, <4>1
    <3>5. r[n] = TurnCloser[1]
      <4>1. p + q + 1 \in 1 .. Len(c) /\ m + (p + q + 1) = n
        BY <1>1, <2>1, <3>0, <3>1
      <4> QED
        BY <3>1, <3>2, <4>1
    <3> QED
      BY <1>1, <2>1, <2>4, <3>0, <3>1, <3>2, <3>3, <3>4, <3>5
  <2>7. p > 0 => q = 1
    BY <1>1, <2>1, <2>3 DEF Calls
  <2>8. /\ TurnsOpen(stored, m + 1) = 1
        /\ StepsOpen(stored, m + 1) = q
        /\ Count(stored, m + 1, "turn/start") = scan.turn
    BY <1>1, <1>3, <2>3 DEF Stands
  <2> HIDE DEF r, c, p, q, m
  \* Up to the results what is open is what the log left open.
  <2>9. ASSUME NEW i \in m + 1 .. m + p + 1
        PROVE  /\ TurnsOpen(r, i) = 1 /\ StepsOpen(r, i) = q
               /\ Count(r, i, "turn/start") = scan.turn
    <3>1. /\ TurnsOpen(r, m + 1) = 1 /\ StepsOpen(r, m + 1) = q
          /\ Count(r, m + 1, "turn/start") = scan.turn
      <4>1. m + 1 \in Nat /\ \A j \in 1 .. (m + 1) - 1 : r[j] = stored[j]
        BY <1>1, <2>6
      <4> QED
        BY <2>8, <4>1, OpenAgree
    <3>2. m + 1 \in Nat \ {0} /\ i \in Nat /\ m + 1 <= i
      BY <1>1, <2>1
    <3>3. \A j \in m + 1 .. i - 1 : r[j].type \notin {"turn/start", "turn/end",
                                                     "step/start", "step/end"}
      <4>1. \A j \in m + 1 .. i - 1 : j \in m + 1 .. m + p
        BY <1>1, <2>1
      <4> QED
        BY <2>6, <4>1
    <3> QED
      BY <3>1, <3>2, <3>3, OpenStill
  <2>10. /\ TurnsOpen(r, n) = 1 /\ StepsOpen(r, n) = 0
         /\ Count(r, n, "turn/start") = scan.turn
    <3>1. m + p + 1 \in m + 1 .. m + p + 1 /\ m + p + 1 \in Nat \ {0}
      BY <1>1, <2>1
    <3>2. /\ TurnsOpen(r, m + p + 1) = 1 /\ StepsOpen(r, m + p + 1) = q
          /\ Count(r, m + p + 1, "turn/start") = scan.turn
      BY <2>9, <3>1
    <3>3. CASE q = 0
      <4>1. n = m + p + 1
        BY <1>1, <2>1, <3>3
      <4> HIDE DEF n
      <4> QED
        BY <3>2, <3>3, <4>1
    <3>4. CASE q = 1
      <4>1. n = (m + p + 1) + 1 /\ r[m + p + 1].type = "step/end"
        BY <1>1, <2>1, <2>6, <3>4
      <4>2. /\ TurnsOpen(r, (m + p + 1) + 1) = 1 /\ StepsOpen(r, (m + p + 1) + 1) = 0
            /\ Count(r, (m + p + 1) + 1, "turn/start") = scan.turn
        BY <3>1, <3>2, <3>4, <4>1, OpenStep
      <4> HIDE DEF n
      <4> QED
        BY <4>1, <4>2
    <3> QED
      BY <2>6, <3>3, <3>4
  <2>11. ASSUME NEW i \in 1 .. Len(r) PROVE Placed(r, i)
    <3>1. CASE i <= m
      <4>1. i \in 1 .. m /\ i \in Nat /\ i > 0
        BY <1>1, <2>6, <3>1
      <4>2. Placed(stored, i)
        BY <1>1, <4>1 DEF Nested, m
      <4>3. \A j \in 1 .. i : r[j] = stored[j]
        BY <1>1, <2>6, <4>1
      <4> QED
        BY <4>1, <4>2, <4>3, PlacedAgree
    <3>2. CASE i \in m + 1 .. m + p
      <4>1. q = 1 /\ i \in m + 1 .. m + p + 1
        BY <1>1, <2>1, <2>7, <3>2
      <4>2. StepsOpen(r, i) = 1 /\ r[i].type = "tool/result"
        BY <2>6, <2>9, <3>2, <4>1
      <4> QED
        BY <4>2 DEF Placed
    <3>3. CASE q = 1 /\ i = m + p + 1
      <4>1. i \in m + 1 .. m + p + 1
        BY <1>1, <2>1, <3>3
      <4>2. StepsOpen(r, i) = 1 /\ r[i].type = "step/end"
        BY <2>6, <2>9, <3>3, <4>1
      <4> QED
        BY <4>2 DEF Placed
    <3>4. CASE i = n
      BY <2>6, <2>10, <3>4 DEF Placed
    <3> QED
      BY <1>1, <2>1, <2>6, <3>1, <3>2, <3>3, <3>4
  <2>12. Stands(r, Len(r) + 1, FALSE, FALSE)
    <3>1. n \in Nat \ {0}
      BY <1>1, <2>1, <2>6
    <3> HIDE DEF n
    <3>2. TurnsOpen(r, n + 1) = 0 /\ StepsOpen(r, n + 1) = 0
      BY <2>6, <2>10, <3>1, OpenStep
    <3> QED
      BY <2>6, <3>2 DEF Stands
  <2>13. ~Stands(stored, m + 1, FALSE, FALSE)
    BY <2>8 DEF Stands
  <2> QED
    BY <2>6, <2>11, <2>12, <2>13 DEF Nested, r, c, m
<1> QED
  BY <1>2, <1>3

\* The driver resumes at the number of turns the log has started.
LEMMA LastTurnCounts ==
    ASSUME NEW s \in Logs, Nested(s), NEW turn, LastTurn(s, turn)
    PROVE  turn = Count(s, Len(s) + 1, "turn/start")
<1> DEFINE n == Len(s)
<1>1. n \in Nat /\ DOMAIN s = 1 .. n
  BY DEF Logs
<1>2. CASE turn = 0 /\ \A i \in DOMAIN s : ~StartsTurn(s, i)
  <2>1. \A j \in 1 .. (n + 1) - 1 : s[j].type # "turn/start"
    BY <1>1, <1>2 DEF StartsTurn
  <2>2. 1 \in Nat \ {0} /\ n + 1 \in Nat /\ 1 <= n + 1
    BY <1>1
  <2> HIDE DEF n
  <2>3. Count(s, n + 1, "turn/start") = Count(s, 1, "turn/start")
    BY <2>1, <2>2, CountStill
  <2>4. Count(s, 1, "turn/start") = 0
    BY <2>2, CountStep
  <2> QED
    BY <1>2, <2>3, <2>4 DEF n
<1>3. ASSUME NEW i \in DOMAIN s, StartsTurn(s, i), turn = s[i].turn,
             \A j \in i + 1 .. n : ~StartsTurn(s, j)
      PROVE  turn = Count(s, n + 1, "turn/start")
  <2>1. i \in Nat \ {0} /\ i + 1 \in Nat \ {0} /\ n + 1 \in Nat /\ i + 1 <= n + 1
        /\ i \in 1 .. n
    BY <1>1
  <2>2. Placed(s, i) /\ s[i].type = "turn/start"
    BY <1>3, <2>1 DEF Nested, StartsTurn
  <2>3. turn = Count(s, i, "turn/start") + 1
    BY <1>3, <2>2 DEF Placed
  <2>4. Count(s, i + 1, "turn/start") = Count(s, i, "turn/start") + 1
    BY <2>1, <2>2, CountStep
  <2>5. \A j \in i + 1 .. (n + 1) - 1 : s[j].type # "turn/start"
    BY <1>1, <1>3 DEF StartsTurn
  <2> HIDE DEF n
  <2>6. Count(s, n + 1, "turn/start") = Count(s, i + 1, "turn/start")
    BY <2>1, <2>5, CountStill
  <2> QED
    BY <2>3, <2>4, <2>6
<1> QED
  BY <1>2, <1>3 DEF LastTurn

-----------------------------------------------------------------------------
(* Every step keeps the invariant.                                         *)

\* A new session's log is empty.
LEMMA InitRecovery == ASSUME Init PROVE RecoveryInv
<1>1. log = <<>> /\ stored = <<>> /\ closers = <<>> /\ proc = "live" /\ at = Nowhere
      /\ scan = Unscanned /\ read = 0 /\ commits = 0
  BY DEF Init
<1>2. <<>> \in Logs /\ Len(<<>>) = 0 /\ <<>> \in Calls
  BY DEF Logs, Calls
<1>3. Nested(<<>>)
  BY <1>2 DEF Nested
<1>4. TurnsOpen(<<>>, 1) = 0 /\ StepsOpen(<<>>, 1) = 0 /\ Count(<<>>, 1, "turn/start") = 0
  BY OpenStep
<1>5. Stands(<<>>, 1, FALSE, FALSE)
  BY <1>4 DEF Stands
<1>6. LiveInv
  <2>1. /\ Nowhere \in [turn : Nat, open : BOOLEAN, step : Nat, inStep : BOOLEAN, messages : Nat,
                        calls : Nat, started : Nat, committed : Nat]
        /\ Nowhere.turn = 0 /\ Nowhere.open = FALSE /\ Nowhere.inStep = FALSE
    BY DEF Nowhere
  <2>2. Len(<<>>) + 1 = 1
    BY <1>2
  <2> QED
    BY <1>1, <1>2, <1>3, <1>4, <1>5, <2>1, <2>2 DEF LiveInv
<1>7. StoredInv
  BY <1>1, <1>2, <1>3 DEF StoredInv
<1>8. ScanInv
  <2>1. /\ scan = [turn |-> scan.turn, step |-> scan.step, pending |-> scan.pending,
                   index |-> scan.index]
        /\ scan.turn = NoTurn /\ scan.step = NoStep /\ scan.pending = <<>>
    BY <1>1 DEF Unscanned
  <2>2. Stands(stored, read + 1, scan.turn # NoTurn, scan.step # NoStep)
    BY <1>1, <1>4, <2>1 DEF Stands
  <2> QED
    BY <1>1, <1>2, <2>1, <2>2 DEF ScanInv
<1>9. PreparedInv /\ CommitInv
  BY <1>1 DEF PreparedInv, CommitInv
<1> QED
  BY <1>6, <1>7, <1>8, <1>9 DEF RecoveryInv

\* The live driver leaves what a load reads alone.
LEMMA LiveStepKeeps == ASSUME RecoveryInv, LiveStep PROVE RecoveryInv'
<1>1. proc = "live" /\ UNCHANGED <<stored, proc, scan, read, closers, commits>>
  BY DEF LiveStep, TurnStart, StepStart, UserMessage, AssistantMessage, ToolCall, ToolResult,
         StepEnd, TurnEnd, Writes
<1>2. LiveInv'
  BY <1>1, LiveStepKeepsLive DEF RecoveryInv
<1>3. StoredInv' /\ ScanInv' /\ PreparedInv' /\ CommitInv'
  BY <1>1 DEF RecoveryInv, StoredInv, ScanInv, PreparedInv, CommitInv
<1> QED
  BY <1>2, <1>3 DEF RecoveryInv

\* Nothing of the scan survives, and what was read is read again from the start.
LEMMA FreshScan ==
    ASSUME StoredInv', scan' = Unscanned, read' = 0
    PROVE  ScanInv'
<1>1. TurnsOpen(stored', 1) = 0 /\ StepsOpen(stored', 1) = 0
  BY OpenStep
<1>3. Len(stored') \in Nat /\ <<>> \in Calls
  BY DEF StoredInv, Logs, Calls
<1>4. /\ scan' = [turn |-> scan'.turn, step |-> scan'.step, pending |-> scan'.pending,
                  index |-> scan'.index]
      /\ scan'.turn = NoTurn /\ scan'.step = NoStep /\ scan'.pending = <<>>
  BY DEF Unscanned
<1>5. Stands(stored', read' + 1, scan'.turn # NoTurn, scan'.step # NoStep)
  BY <1>1, <1>4 DEF Stands
<1> QED
  BY <1>3, <1>4, <1>5 DEF ScanInv

\* A crash loses the end of the live log: what is left nests.
LEMMA CrashKeeps == ASSUME RecoveryInv, Crash PROVE RecoveryInv'
<1>1. PICK n \in Len(stored) .. Len(log) : stored' = SubSeq(log, 1, n)
  BY DEF Crash
<1>2. proc = "live" /\ proc' = "down" /\ commits' = 0 /\ UNCHANGED <<scan, read, closers>>
  BY DEF Crash
<1>3. log \in Logs /\ Nested(log) /\ Len(stored) \in Nat
  BY <1>2 DEF RecoveryInv, LiveInv, StoredInv, Logs
<1>4. stored' \in Logs /\ Len(stored') = n /\ n \in Nat /\ Len(log) \in Nat /\ n <= Len(log)
      /\ \A j \in 1 .. n : stored'[j] = log[j]
  BY <1>1, <1>3 DEF Logs
<1>5. Nested(stored')
  BY <1>3, <1>4, NestedPrefix
<1>6. StoredInv'
  BY <1>4, <1>5 DEF StoredInv
<1>7. ScanInv'
  BY <1>2, <1>6, FreshScan DEF RecoveryInv, ScanInv
<1>8. LiveInv' /\ PreparedInv' /\ CommitInv'
  BY <1>2 DEF LiveInv, PreparedInv, CommitInv
<1> QED
  BY <1>6, <1>7, <1>8 DEF RecoveryInv

\* A load begins with nothing read.
LEMMA LoadKeeps == ASSUME RecoveryInv, Load PROVE RecoveryInv'
<1>1. proc = "down" /\ proc' = "scanning"
      /\ UNCHANGED <<log, stored, at, scan, read, closers, commits>>
  BY DEF Load
<1>2. LiveInv' /\ PreparedInv'
  BY <1>1 DEF LiveInv, PreparedInv
<1>3. StoredInv' /\ ScanInv' /\ CommitInv'
  BY <1>1 DEF RecoveryInv, StoredInv, ScanInv, CommitInv
<1> QED
  BY <1>2, <1>3 DEF RecoveryInv

\* A pass of the loop.
LEMMA ScanEventKeeps == ASSUME RecoveryInv, ScanEvent PROVE RecoveryInv'
<1>1. proc = "scanning" /\ read < Len(stored) /\ scan' = Scan(stored[read + 1])
      /\ read' = read + 1 /\ UNCHANGED <<log, stored, proc, at, closers, commits>>
  BY DEF ScanEvent
<1>2. /\ scan' = [turn |-> scan'.turn, step |-> scan'.step, pending |-> scan'.pending,
                  index |-> scan'.index]
      /\ scan'.turn \in Nat \cup {NoTurn} /\ scan'.step \in Nat \cup {NoStep}
      /\ scan'.pending \in Calls
      /\ Stands(stored, read + 2, scan'.turn # NoTurn, scan'.step # NoStep)
      /\ scan'.turn # NoTurn => scan'.turn = Count(stored, read + 2, "turn/start")
      /\ scan'.pending # <<>> => scan'.step # NoStep
  BY <1>1, ScanFollows DEF RecoveryInv
<1>3. read \in 0 .. Len(stored) /\ Len(stored) \in Nat
  BY DEF RecoveryInv, ScanInv, StoredInv, Logs
<1>4. read' \in 0 .. Len(stored') /\ read' + 1 = read + 2
  BY <1>1, <1>3
<1>5. ScanInv'
  BY <1>1, <1>2, <1>4 DEF ScanInv
<1>6. StoredInv' /\ CommitInv'
  BY <1>1 DEF RecoveryInv, StoredInv, CommitInv
<1>7. LiveInv' /\ PreparedInv'
  BY <1>1 DEF LiveInv, PreparedInv
<1> QED
  BY <1>5, <1>6, <1>7 DEF RecoveryInv

\* The prepared log nests and is closed, and a repaired log gets no closers.
LEMMA PrepareKeeps == ASSUME RecoveryInv, Prepare PROVE RecoveryInv'
<1>1. /\ proc = "scanning" /\ read = Len(stored) /\ closers' = InterruptedTurnClosers
      /\ proc' \in {"prepared", "refused"}
      /\ scan' = Unscanned /\ read' = 0 /\ UNCHANGED <<log, stored, at, commits>>
  BY DEF Prepare
<1>2. /\ closers' \in Logs /\ Nested(stored \o closers')
      /\ Stands(stored \o closers', Len(stored \o closers') + 1, FALSE, FALSE)
      /\ Stands(stored, Len(stored) + 1, FALSE, FALSE) => closers' = <<>>
  BY <1>1, ClosersClose DEF RecoveryInv
<1>3. LiveInv'
  BY <1>1 DEF LiveInv
<1>4. StoredInv'
  BY <1>1 DEF RecoveryInv, StoredInv
<1>5. ScanInv'
  BY <1>1, <1>4, FreshScan
<1>6. PreparedInv'
  BY <1>1, <1>2 DEF PreparedInv
<1>7. CommitInv'
  BY <1>1, <1>2 DEF RecoveryInv, CommitInv
<1> QED
  BY <1>3, <1>4, <1>5, <1>6, <1>7 DEF RecoveryInv

\* A committed repair leaves a closed log; a log repaired before had nothing to commit.
LEMMA CommitRepairKeeps == ASSUME RecoveryInv, CommitRepair PROVE RecoveryInv'
<1>1. /\ proc = "prepared" /\ closers # <<>> /\ stored' = stored \o closers
      /\ commits' = commits + 1 /\ proc' = "down" /\ UNCHANGED <<scan, read>>
  BY DEF CommitRepair
<1>2. /\ closers \in Logs /\ Nested(stored') /\ stored \in Logs
      /\ Stands(stored', Len(stored') + 1, FALSE, FALSE)
  BY <1>1 DEF RecoveryInv, PreparedInv, StoredInv
<1>3. StoredInv'
  BY <1>1, <1>2, Concatenated DEF StoredInv
<1>4. ScanInv'
  BY <1>1, <1>3, FreshScan DEF RecoveryInv, ScanInv
<1>5. commits = 0
  BY <1>1 DEF RecoveryInv, CommitInv
<1>6. LiveInv' /\ PreparedInv'
  BY <1>1 DEF LiveInv, PreparedInv
<1>7. CommitInv'
  <2>1. commits' = 1 /\ proc' # "prepared"
    BY <1>1, <1>5
  <2> QED
    BY <1>2, <2>1 DEF CommitInv
<1> QED
  BY <1>3, <1>4, <1>6, <1>7 DEF RecoveryInv

\* A crash while the repair is written leaves the log with some of its closers.
LEMMA CommitCrashesKeeps == ASSUME RecoveryInv, CommitCrashes PROVE RecoveryInv'
<1>1. PICK n \in 0 .. Len(closers) : stored' = stored \o SubSeq(closers, 1, n)
  BY DEF CommitCrashes
<1>2. proc = "prepared" /\ proc' = "down" /\ commits' = 0 /\ UNCHANGED <<scan, read>>
  BY DEF CommitCrashes
<1> DEFINE r == stored \o closers  part == SubSeq(closers, 1, n)  m == Len(stored)
<1>3. closers \in Logs /\ Nested(r) /\ stored \in Logs
  BY <1>2 DEF RecoveryInv, PreparedInv, StoredInv
<1>4. part \in Logs /\ Len(part) = n /\ n \in Nat /\ n <= Len(closers)
      /\ \A j \in 1 .. n : part[j] = closers[j]
  BY <1>3 DEF Logs
<1>5. /\ stored' \in Logs /\ Len(stored') = m + n
      /\ \A i \in 1 .. m : stored'[i] = stored[i]
      /\ \A i \in 1 .. n : stored'[m + i] = part[i]
  <2>1. stored' = stored \o part
    BY <1>1
  <2>2. \A b \in Logs : /\ stored \o b \in Logs /\ Len(stored \o b) = Len(stored) + Len(b)
                        /\ \A i \in 1 .. Len(stored) : (stored \o b)[i] = stored[i]
                        /\ \A i \in 1 .. Len(b) : (stored \o b)[Len(stored) + i] = b[i]
    BY <1>3, Concatenated
  <2> HIDE DEF part
  <2> QED
    BY <1>4, <2>1, <2>2
<1>6. /\ Len(r) = m + Len(closers) /\ m \in Nat /\ Len(closers) \in Nat
      /\ \A i \in 1 .. m : r[i] = stored[i]
      /\ \A i \in 1 .. Len(closers) : r[m + i] = closers[i]
  BY <1>3, Concatenated
<1> HIDE DEF r, m, part
<1>7. ASSUME NEW j \in 1 .. Len(stored') PROVE stored'[j] = r[j]
  <2>1. CASE j <= m
    BY <1>5, <1>6, <2>1
  <2>2. CASE j > m
    <3>1. j - m \in 1 .. n /\ j - m \in 1 .. Len(closers) /\ m + (j - m) = j
      BY <1>4, <1>5, <1>6, <2>2
    <3> QED
      <4>1. stored'[m + (j - m)] = part[j - m] /\ part[j - m] = closers[j - m]
        BY <1>4, <1>5, <3>1
      <4>2. r[m + (j - m)] = closers[j - m]
        BY <1>6, <3>1
      <4> QED
        BY <3>1, <4>1, <4>2
  <2> QED
    BY <1>6, <2>1, <2>2
<1>8. Len(stored') \in Nat /\ Len(r) \in Nat /\ Len(stored') <= Len(r)
  BY <1>4, <1>5, <1>6
<1>9. Nested(stored')
  BY <1>3, <1>7, <1>8, NestedPrefix
<1>10. StoredInv'
  BY <1>5, <1>9 DEF StoredInv
<1>11. ScanInv'
  BY <1>2, <1>10, FreshScan DEF RecoveryInv, ScanInv
<1>12. LiveInv' /\ PreparedInv' /\ CommitInv'
  BY <1>2 DEF LiveInv, PreparedInv, CommitInv
<1> QED
  BY <1>10, <1>11, <1>12 DEF RecoveryInv

\* A log that needs no closers is closed, and the driver counts on from its last turn.
LEMMA ResumeKeeps == ASSUME RecoveryInv, Resume PROVE RecoveryInv'
<1>1. PICK turn \in 0 .. MaxTurns :
         LastTurn(stored, turn) /\ at' = [Nowhere EXCEPT !.turn = turn]
  BY DEF Resume
<1>2. /\ proc = "prepared" /\ closers = <<>> /\ proc' = "live" /\ log' = stored
      /\ UNCHANGED <<stored, scan, read, closers, commits>>
  BY DEF Resume
<1>3. stored \in Logs /\ Nested(stored) /\ stored \o closers = stored
  BY <1>2 DEF RecoveryInv, StoredInv, Logs
<1>4. Stands(stored, Len(stored) + 1, FALSE, FALSE)
  BY <1>2, <1>3 DEF RecoveryInv, PreparedInv
<1>5. turn = Count(stored, Len(stored) + 1, "turn/start") /\ turn \in Nat
  <2>1. turn \in Nat
    OBVIOUS
  <2> QED
    BY <1>1, <1>3, <2>1, LastTurnCounts
<1>6. /\ at' \in Place
      /\ at'.turn = turn /\ at'.open = FALSE /\ at'.inStep = FALSE
  BY <1>1, <1>5 DEF Nowhere, Place
<1>7. LiveInv'
  BY <1>2, <1>3, <1>4, <1>5, <1>6 DEF LiveInv, Place
<1>8. StoredInv' /\ ScanInv' /\ PreparedInv' /\ CommitInv'
  BY <1>2 DEF RecoveryInv, StoredInv, ScanInv, PreparedInv, CommitInv
<1> QED
  BY <1>7, <1>8 DEF RecoveryInv

\* The invariant is inductive.
LEMMA StepKeeps == ASSUME RecoveryInv, [Next]_vars PROVE RecoveryInv'
<1>1. CASE LiveStep
  BY <1>1, LiveStepKeeps
<1>2. CASE LoadStep
  BY <1>2, LoadKeeps, ScanEventKeeps, PrepareKeeps, CommitRepairKeeps, ResumeKeeps DEF LoadStep
<1>3. CASE Crash
  BY <1>3, CrashKeeps
<1>4. CASE CommitCrashes
  BY <1>4, CommitCrashesKeeps
<1>5. CASE UNCHANGED vars
  <2>1. UNCHANGED <<log, stored, proc, at, scan, read, closers, commits>>
    BY <1>5 DEF vars
  <2>2. LiveInv' /\ StoredInv'
    BY <2>1 DEF RecoveryInv, LiveInv, StoredInv
  <2>3. ScanInv'
    BY <2>1 DEF RecoveryInv, ScanInv
  <2>4. PreparedInv' /\ CommitInv'
    BY <2>1 DEF RecoveryInv, PreparedInv, CommitInv
  <2> QED
    BY <2>2, <2>3, <2>4 DEF RecoveryInv
<1> QED
  BY <1>1, <1>2, <1>3, <1>4, <1>5 DEF Next

\* The invariant holds in every state of the recovery.
LEMMA RecoveryHolds == Spec => []RecoveryInv
<1>1. Init => RecoveryInv
  BY InitRecovery
<1>2. RecoveryInv /\ [Next]_vars => RecoveryInv'
  BY StepKeeps
<1> QED
  BY <1>1, <1>2, PTL DEF Spec

-----------------------------------------------------------------------------
(* Theorems.                                                               *)

\* However many turns, steps, calls and crashes there are, and wherever a crash cuts the
\* log or the repair that agentloop's driver and InterruptedTurnClosers write, the log of
\* a live session nests and its turns are numbered in order.
THEOREM LiveLogsNest == Spec => []LiveLogNests
<1>1. RecoveryInv => LiveLogNests
  <2> SUFFICES ASSUME RecoveryInv, proc = "live" PROVE \A i \in DOMAIN log : Placed(log, i)
    BY DEF LiveLogNests
  <2>1. log \in Logs /\ Nested(log)
    BY DEF RecoveryInv, LiveInv
  <2>2. DOMAIN log = 1 .. Len(log)
    BY <2>1 DEF Logs
  <2> QED
    BY <2>1, <2>2 DEF Nested
<1> QED
  BY <1>1, RecoveryHolds, PTL

\* What commitPrepared has repaired once, buildPreparedSource finds whole when the caller
\* reads the log again: loading ends after one repair.
THEOREM OneRepairIsEnough == Spec => []RepairsOnce
<1>1. RecoveryInv => RepairsOnce
  BY DEF RecoveryInv, CommitInv, RepairsOnce
<1> QED
  BY <1>1, RecoveryHolds, PTL
=============================================================================
