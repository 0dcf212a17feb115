-------------------------- MODULE GoalRounds_proofs ---------------------------
(***************************************************************************)
(* Machine-checked proofs about GoalRounds, for every set of budgets and   *)
(* any number of goal changes, prompts and mishaps.                        *)
(***************************************************************************)
EXTENDS GoalRounds, FiniteSetTheorems, FunctionTheorems, SequenceTheorems,
        WellFoundedInduction, TLAPS

-----------------------------------------------------------------------------
(* Identities of messages.                                                 *)

\* A nonempty set of natural numbers has its Min among its members.
LEMMA MinIsMember ==
    ASSUME NEW S \in SUBSET Nat, S # {}
    PROVE  Min(S) \in S
<1> DEFINE Below == {1 .. y : y \in S}
<1>1. Below \subseteq FiniteSubsetsOf(Nat)
  <2>1. \A y \in S : IsFiniteSet(1 .. y) /\ 1 .. y \subseteq Nat  BY FS_Interval
  <2> QED  BY <2>1 DEF FiniteSubsetsOf
<1>2. PICK B \in Below : \A C \in Below : <<C, B>> \notin StrictSubsetOrdering(Nat)
  <2>1. Below # {}  OBVIOUS
  <2> HIDE DEF Below
  <2> QED  BY <1>1, <2>1, FS_StrictSubsetOrderingWellFounded, WFMin
<1>3. PICK x \in S : B = 1 .. x  OBVIOUS
<1>4. ASSUME NEW y \in S, y < x  PROVE FALSE
  <2>1. 1 .. y \in Below /\ 1 .. x \in Below  OBVIOUS
  <2>2. 1 .. y \subseteq 1 .. x /\ 1 .. y # 1 .. x
    <3>1. x \in 1 .. x /\ x \notin 1 .. y /\ 1 .. y \subseteq 1 .. x  BY <1>4
    <3> QED  BY <3>1
  <2>3. <<1 .. y, 1 .. x>> \in StrictSubsetOrdering(Nat)
    BY <2>2 DEF StrictSubsetOrdering
  <2> QED  BY <1>2, <1>3, <2>1, <2>3
<1>5. \A y \in S : x <= y  BY <1>4
<1> QED  BY <1>5 DEF Min

\* Among one more number than a finite set has members, one is not a member.
LEMMA SomeNumberIsUnused ==
    ASSUME NEW U, IsFiniteSet(U)
    PROVE  /\ (1 .. Cardinality(U) + 1) \ U # {}
           /\ (1 .. Cardinality(U) + 1) \ U \in SUBSET Nat
<1>1. Cardinality(U) \in Nat  BY FS_CardinalityType
<1>2. Cardinality(1 .. Cardinality(U) + 1) = Cardinality(U) + 1
  BY <1>1, FS_Interval
<1>3. ~(1 .. Cardinality(U) + 1 \subseteq U)
  <2>1. SUFFICES ASSUME 1 .. Cardinality(U) + 1 \in SUBSET U  PROVE FALSE  OBVIOUS
  <2>2. Cardinality(1 .. Cardinality(U) + 1) <= Cardinality(U)  BY <2>1, FS_Subset
  <2> QED  BY <1>1, <1>2, <2>2
<1> QED  BY <1>1, <1>3

\* The identity drive gives a round it reserves is a number, however many
\* messages are outstanding.
LEMMA FreshIdType == ASSUME inbox \in Seq(Messages)  PROVE FreshId \in Nat
<1> DEFINE queued == {inbox[i].id : i \in DOMAIN inbox}
           others == {m.id : m \in {x \in {cur, attempt, held} : "id" \in DOMAIN x}}
           used == queued \cup others
<1>1. IsFiniteSet(queued)
  <2> DEFINE f == [i \in DOMAIN inbox |-> inbox[i].id]
  <2>1. f \in Surjection(DOMAIN inbox, queued)  BY DEF Surjection
  <2>2. DOMAIN inbox = 1 .. Len(inbox) /\ Len(inbox) \in Nat  OBVIOUS
  <2>3. IsFiniteSet(DOMAIN inbox)  BY <2>2, FS_Interval
  <2> QED  BY <2>1, <2>3, FS_Surjection
<1>2. IsFiniteSet(others)
  <2>1. others \subseteq {cur.id, attempt.id, held.id}  OBVIOUS
  <2>2. IsFiniteSet({cur.id, attempt.id, held.id})
    <3>1. IsFiniteSet({cur.id})  BY FS_Singleton
    <3>2. IsFiniteSet({cur.id} \cup {attempt.id})  BY <3>1, FS_AddElement
    <3>3. IsFiniteSet(({cur.id} \cup {attempt.id}) \cup {held.id})  BY <3>2, FS_AddElement
    <3>4. {cur.id, attempt.id, held.id} = ({cur.id} \cup {attempt.id}) \cup {held.id}  OBVIOUS
    <3> QED  BY <3>3, <3>4
  <2> QED  BY <2>1, <2>2, FS_Subset
<1>3. IsFiniteSet(used)  BY <1>1, <1>2, FS_Union
<1> HIDE DEF queued, others, used
<1>4. Min((1 .. Cardinality(used) + 1) \ used) \in Nat
  BY <1>3, SomeNumberIsUnused, MinIsMember
<1>5. FreshId = Min((1 .. Cardinality(used) + 1) \ used)
  BY DEF FreshId, used, queued, others
<1> QED  BY <1>4, <1>5

-----------------------------------------------------------------------------
(* Type correctness.                                                       *)

Snap == [phase : Phases, rev : Nat, rounds : Nat, max : Nat]

Mutation == [op : Operations, by : {"client", "drive"}, next : Snap, moved : BOOLEAN]

Attempts == [phase : {"queued", "claimed", "admitted"}, rev : Nat, round : Nat, id : Nat,
             cancelled : BOOLEAN, stale : BOOLEAN]

\* The goal and the mutation under way.  A mutation between its sync and its
\* Append carries the next revision and leaves no goal only when it clears.
GoalShape ==
    /\ goal \in Snap /\ armed \in BOOLEAN /\ folds \in BOOLEAN
    /\ armed => goal.phase # "none"
    /\ mut = NoMut \/ mut \in Mutation
    /\ mut # NoMut => /\ mut.next.rev = goal.rev + 1
                      /\ mut.next.phase = "none" => mut.op = "clear"

\* The driver.  Between the reservation and the inbox it holds a round.
DriveShape ==
    /\ attempt = NoAttempt \/ attempt \in Attempts
    /\ held \in Messages \cup {NoMessage} \cup [kind : {"ref"}, rev : Nat]
    /\ pc \in {"off", "loop", "exit", "drive", "flush", "followup", "wake", "block", "blocking"}
    /\ pc = "followup" => held \in Messages

\* The agent loop.
LoopShape ==
    /\ inbox \in Seq(Messages) /\ cur \in Messages \cup {NoMessage}
    /\ loop \in {"idle", "claim", "fence", "hooks", "rejecting", "enter", "step", "end"}

FlagShape == {notice, competing, needs, requested, waking, signal} \subseteq BOOLEAN

\* The type invariant, with what it needs beside itself.
ShapeInv == GoalShape /\ DriveShape /\ LoopShape /\ FlagShape

LEMMA ShapeInit == Init => ShapeInv
<1> SUFFICES ASSUME Init  PROVE ShapeInv  OBVIOUS
<1>1. GoalShape  BY DEF Init, GoalShape, Snap, Phases
<1>2. DriveShape  BY DEF Init, DriveShape
<1>3. LoopShape  BY EmptySeq DEF Init, LoopShape
<1>4. FlagShape  BY DEF Init, FlagShape
<1> QED  BY <1>1, <1>2, <1>3, <1>4 DEF ShapeInv

\* A mutation that begins carries the next revision of the goal it saw.
LEMMA BeginShape ==
    ASSUME GoalShape, NEW op \in Operations, NEW b \in Nat, NEW by \in {"client", "drive"},
           Allowed(op), Begin(op, b, by)
    PROVE  mut' \in Mutation /\ mut'.next.rev = goal.rev + 1
           /\ (mut'.next.phase = "none" => mut'.op = "clear")
           /\ (mut'.op \in {"create", "clear"} \/ mut'.next.rounds = goal.rounds)
<1>1. Target(op) \in Phases /\ (Target(op) = "none" => op = "clear")
  BY DEF Target, Operations, Phases, GoalShape, Snap, Allowed
<1>2. Snapshot(op, b) \in Snap
  BY <1>1 DEF Snapshot, Snap, GoalShape
<1>3. Snapshot(op, b).rev = goal.rev + 1 /\ Snapshot(op, b).phase = Target(op)
      /\ (op \in {"create", "clear"} \/ Snapshot(op, b).rounds = goal.rounds)
  BY DEF Snapshot
<1>4. mut' \in Mutation /\ mut'.next = Snapshot(op, b) /\ mut'.op = op
  BY <1>2 DEF Begin, Mutation
<1> QED  BY <1>1, <1>3, <1>4

\* What overtakes a mutation leaves its operation and its snapshot alone.
LEMMA OvertakesShape ==
    ASSUME GoalShape
    PROVE  /\ mut = NoMut => Overtakes = NoMut
           /\ mut # NoMut => Overtakes \in Mutation /\ Overtakes # NoMut
                             /\ Overtakes.op = mut.op /\ Overtakes.by = mut.by
                             /\ Overtakes.next = mut.next
<1>1. ASSUME mut \in Mutation
      PROVE  /\ [mut EXCEPT !.moved = TRUE] \in Mutation
             /\ [mut EXCEPT !.moved = TRUE].op = mut.op
             /\ [mut EXCEPT !.moved = TRUE].by = mut.by
             /\ [mut EXCEPT !.moved = TRUE].next = mut.next
  BY <1>1 DEF Mutation
<1>2. \A m \in Mutation : m # NoMut
  BY DEF Mutation, NoMut, Operations
<1> QED  BY <1>1, <1>2 DEF Overtakes, Free, GoalShape

\* An append that is no goal change keeps the goal's shape.
LEMMA GoalFrame ==
    ASSUME GoalShape, UNCHANGED <<goal, armed, folds>>, mut' = mut \/ mut' = Overtakes
    PROVE  GoalShape'
BY OvertakesShape DEF GoalShape, Free

\* Every step keeps the shape of the goal and of the mutation under way.
LEMMA GoalStep == ASSUME ShapeInv, [Next]_vars  PROVE GoalShape'
<1> USE DEF ShapeInv
<1>1. ASSUME NEW op \in Operations, NEW b \in Budgets, ClientBegins(op, b)  PROVE GoalShape'
  <2>1. b \in Nat  BY BudgetsAssumption
  <2>2. mut' \in Mutation /\ mut'.next.rev = goal.rev + 1
        /\ (mut'.next.phase = "none" => mut'.op = "clear")
    BY <1>1, <2>1, BeginShape DEF ClientBegins
  <2> QED  BY <1>1, <2>2 DEF ClientBegins, GoalShape
<1>2. CASE Commits
  <2>1. mut \in Mutation /\ mut' = NoMut  BY <1>2 DEF Commits, Free, GoalShape
  <2>2. folds' \in BOOLEAN  BY <1>2 DEF Commits
  <2>3. CASE folds'
    <3>1. goal' \in Snap /\ armed' = Settles  BY <1>2, <2>1, <2>3 DEF Commits, Mutation
    <3>2. armed' \in BOOLEAN /\ (armed' => mut.op # "clear")
      BY <3>1, <2>1 DEF Settles, Activation
    <3>3. goal'.phase = "none" => mut.op = "clear"
      BY <1>2, <2>1, <2>3 DEF Commits, GoalShape, Free
    <3> QED  BY <2>1, <2>2, <3>1, <3>2, <3>3 DEF GoalShape
  <2>4. CASE ~folds'  BY <1>2, <2>1, <2>2, <2>4 DEF Commits, GoalShape
  <2> QED  BY <2>3, <2>4
<1>3. CASE DriveFails  BY <1>3 DEF DriveFails, Disarmed, GoalShape
<1>4. CASE DriveBlocks
  <2>1. CASE Shows("active") /\ goal.rev = held.rev
    <3>1. goal.max \in Nat  BY DEF GoalShape, Snap
    <3>2. "block" \in Operations /\ Allowed("block")
      BY <2>1 DEF Operations, Allowed, Shows
    <3>3. mut' \in Mutation /\ mut'.next.rev = goal.rev + 1
          /\ (mut'.next.phase = "none" => mut'.op = "clear")
      BY <1>4, <2>1, <3>1, <3>2, BeginShape DEF DriveBlocks
    <3> QED  BY <1>4, <2>1, <3>3 DEF DriveBlocks, GoalShape
  <2>2. CASE ~(Shows("active") /\ goal.rev = held.rev)
    BY <1>4, <2>2 DEF DriveBlocks, Disarmed, GoalShape
  <2> QED  BY <2>1, <2>2
<1>5. CASE LoopBlocks
  <2>1. CASE goal' = Snapshot("block", goal.max) /\ armed' = FALSE
    <3>1. goal' \in Snap  BY <2>1 DEF Snapshot, Target, Snap, GoalShape, Phases
    <3> QED  BY <1>5, <2>1, <3>1 DEF LoopBlocks, GoalShape, Free
  <2>2. CASE UNCHANGED <<goal, armed>>  BY <1>5, <2>2, GoalFrame DEF LoopBlocks
  <2> QED  BY <1>5, <2>1, <2>2 DEF LoopBlocks
<1>6. CASE Enter
  <2>1. goal' \in Snap /\ goal'.rev = goal.rev /\ goal'.phase = goal.phase
    <3>1. CASE goal' = goal  BY <3>1 DEF GoalShape
    <3>2. CASE cur.kind = "round" /\ goal' = [goal EXCEPT !.rounds = cur.round]
      <4>1. cur.round \in Nat  BY <3>2 DEF LoopShape, Messages, NoMessage
      <4> QED  BY <3>2, <4>1 DEF GoalShape, Snap
    <3> QED  BY <1>6, <3>1, <3>2 DEF Enter
  <2>2. armed' = armed /\ folds' \in BOOLEAN /\ (mut' = mut \/ mut' = Overtakes)
    BY <1>6 DEF Enter, Admits, Shows, GoalShape
  <2> QED  BY <2>1, <2>2, OvertakesShape DEF GoalShape
<1>7. CASE TurnEnds
  <2>1. /\ armed' = armed \/ armed' = Disarmed
        /\ UNCHANGED <<goal, folds>> /\ mut' = Overtakes
    BY <1>7 DEF TurnEnds
  <2> QED  BY <2>1, OvertakesShape DEF Disarmed, GoalShape
<1>8. CASE StopFences  BY <1>8 DEF StopFences, Disarmed, GoalShape
<1>9. CASE \/ Prompt \/ (\E keep \in BOOLEAN : Cancel(keep)) \/ DriveFollowsUp \/ Claim
  <2>1. UNCHANGED <<goal, armed, folds>> /\ (mut' = mut \/ mut' = Overtakes)
    BY <1>9 DEF Prompt, Cancel, Cancels, DriveFollowsUp, Inserts, Claim
  <2> QED  BY <2>1, GoalFrame
<1>10. CASE \/ StopBegins \/ OnChanged \/ DriveNext \/ DriveExits \/ DriveReturns
            \/ DriveCheckpoints \/ DriveGoesOn \/ DriveFlushed \/ DriveWakes \/ Start \/ Fence
            \/ HooksEnter \/ HooksReject \/ StopEnds
            \/ (\E how \in {"done", "maxTokens", "error"} : Step(how)) \/ UNCHANGED vars
  <2>1. UNCHANGED <<goal, armed, folds, mut>>
    BY <1>10 DEF StopBegins, OnChanged, DriveNext, DriveExits, DriveReturns, DriveCheckpoints,
                 DriveGoesOn, DriveFlushed, DriveWakes, Start, Fence, HooksEnter, HooksReject,
                 StopEnds, Step, vars, goalVars
  <2> QED  BY <2>1, GoalFrame
<1> QED  BY <1>1, <1>2, <1>3, <1>4, <1>5, <1>6, <1>7, <1>8, <1>9, <1>10
         DEF Next, Client, Drive, Loop

\* An attempt keeps its shape when one of its marks is set.
LEMMA AttemptMarks ==
    ASSUME NEW a \in Attempts
    PROVE  /\ [a EXCEPT !.stale = TRUE] \in Attempts
           /\ [a EXCEPT !.cancelled = TRUE] \in Attempts
           /\ [a EXCEPT !.phase = "claimed"] \in Attempts
           /\ [a EXCEPT !.phase = "admitted"] \in Attempts
BY DEF Attempts

\* An attempt is never the absence of one.
LEMMA AttemptIsOne == \A a \in Attempts : a # NoAttempt /\ a.phase # "none"
BY DEF Attempts, NoAttempt

\* An attempt with one more mark.
Marked(a, b) ==
    /\ a # NoAttempt
    /\ \/ b = [a EXCEPT !.stale = TRUE] \/ b = [a EXCEPT !.cancelled = TRUE]
       \/ b = [a EXCEPT !.phase = "claimed"] \/ b = [a EXCEPT !.phase = "admitted"]

\* The attempts a step that does not reserve may leave.
LEMMA AttemptFrame ==
    ASSUME attempt = NoAttempt \/ attempt \in Attempts,
           attempt' = attempt \/ attempt' = NoAttempt \/ Marked(attempt, attempt')
    PROVE  attempt' = NoAttempt \/ attempt' \in Attempts
BY AttemptMarks DEF Marked

\* An inserted message marks a queued attempt stale, or leaves the attempt.
LEMMA InsertsMarks ==
    ASSUME DriveShape, NEW m, Inserts(m)
    PROVE  attempt' = attempt \/ Marked(attempt, attempt')
BY DEF Inserts, Marked, NoAttempt

\* A message the driver recognizes as its own is one of an attempt.
LEMMA SameQueuedHasAttempt == ASSUME NEW m, SameQueued(m)  PROVE attempt # NoAttempt
BY DEF SameQueued, SameRound

\* A reservation puts a round in the driver's hand before drive sends it.
LEMMA ReservesShape == ASSUME ShapeInv, Reserves  PROVE DriveShape'
<1> USE DEF ShapeInv
<1>1. CASE attempt # NoAttempt
  BY <1>1 DEF Reserves, DriveShape
<1>2. CASE attempt = NoAttempt /\ ~Live
  BY <1>2 DEF Reserves, DriveShape
<1>3. CASE attempt = NoAttempt /\ Live /\ goal.rounds >= goal.max
  <2>1. /\ pc' = "block" /\ attempt' = attempt
        /\ held' = [kind |-> "ref", rev |-> goal.rev]
    BY <1>3 DEF Reserves
  <2>2. held' \in [kind : {"ref"}, rev : Nat]  BY <2>1 DEF GoalShape, Snap
  <2> QED  BY <2>1, <2>2 DEF DriveShape
<1>4. CASE attempt = NoAttempt /\ Live /\ ~(goal.rounds >= goal.max)
  <2>1. FreshId \in Nat  BY FreshIdType DEF LoopShape
  <2>2. goal.rev \in Nat /\ goal.rounds + 1 \in Nat  BY DEF GoalShape, Snap
  <2>3. /\ pc' = "followup" /\ held' = Round(FreshId)
        /\ attempt' = [phase |-> "queued", rev |-> goal.rev, round |-> goal.rounds + 1,
                       id |-> FreshId, cancelled |-> FALSE, stale |-> FALSE]
    BY <1>4 DEF Reserves
  <2>4. held' \in Messages  BY <2>1, <2>2, <2>3 DEF Round, Messages
  <2>5. attempt' \in Attempts  BY <2>1, <2>2, <2>3 DEF Attempts
  <2> QED  BY <2>3, <2>4, <2>5 DEF DriveShape
<1> QED  BY <1>1, <1>2, <1>3, <1>4

\* Every step keeps the shape of the driver's state.
LEMMA DriveStep == ASSUME ShapeInv, [Next]_vars  PROVE DriveShape'
<1> USE DEF ShapeInv
<1>0. ASSUME attempt' = attempt \/ attempt' = NoAttempt \/ Marked(attempt, attempt'),
             held' = held, pc' = pc \/ pc' \in {"loop", "exit", "drive", "flush", "off"}
      PROVE  DriveShape'
  <2>1. attempt' = NoAttempt \/ attempt' \in Attempts  BY <1>0, AttemptFrame DEF DriveShape
  <2> QED  BY <1>0, <2>1 DEF DriveShape
<1>1. CASE DriveGoesOn \/ DriveFlushed
  <2>1. CASE Reserves  BY <2>1, ReservesShape
  <2>2. CASE UNCHANGED <<attempt, held>> /\ pc' = "loop"  BY <1>0, <2>2
  <2> QED  BY <1>1, <2>1, <2>2 DEF DriveGoesOn, DriveFlushed
<1>2. CASE DriveFails  BY <1>2 DEF DriveFails, DriveShape
<1>3. CASE DriveBlocks
  BY <1>3 DEF DriveBlocks, DriveShape
<1>4. CASE DriveFollowsUp
  <2>1. attempt' = NoAttempt \/ attempt' \in Attempts
    BY <1>4, InsertsMarks, AttemptFrame DEF DriveFollowsUp, DriveShape
  <2> QED  BY <1>4, <2>1 DEF DriveFollowsUp, DriveShape
<1>5. CASE Prompt
  <2>1. attempt' = attempt \/ Marked(attempt, attempt')
    BY <1>5, InsertsMarks DEF Prompt
  <2> QED  BY <1>0, <1>5, <2>1 DEF Prompt
<1>6. ASSUME NEW keep \in BOOLEAN, Cancel(keep)  PROVE DriveShape'
  <2>1. attempt' = attempt \/ Marked(attempt, attempt')
    BY <1>6, SameQueuedHasAttempt DEF Cancel, Cancels, Marked
  <2> QED  BY <1>0, <1>6, <2>1 DEF Cancel
<1>7. CASE Claim
  <2>1. attempt' = attempt \/ Marked(attempt, attempt')
    BY <1>7 DEF Claim, Marked, SameQueued, SameRound
  <2> QED  BY <1>0, <1>7, <2>1 DEF Claim
<1>8. CASE Enter
  <2>1. attempt' = attempt \/ Marked(attempt, attempt')  BY <1>8 DEF Enter, Marked
  <2> QED  BY <1>0, <1>8, <2>1 DEF Enter
<1>9. CASE TurnEnds
  <2>1. attempt' = attempt \/ Marked(attempt, attempt')
    BY <1>9 DEF TurnEnds, CancelsAttempt, Marked, NoAttempt
  <2> QED  BY <1>0, <1>9, <2>1 DEF TurnEnds
<1>10. CASE StopFences
  <2>1. attempt' = attempt \/ Marked(attempt, attempt')  BY <1>10 DEF StopFences, Marked
  <2> QED  BY <1>0, <1>10, <2>1 DEF StopFences
<1>11. CASE Commits \/ OnChanged \/ LoopBlocks
  <2>1. UNCHANGED <<attempt, held>> /\ (pc' = pc \/ pc' = "loop")
    BY <1>11 DEF Commits, OnChanged, LoopBlocks, Request
  <2> QED  BY <1>0, <2>1
<1>12. CASE Fence \/ HooksEnter \/ HooksReject
  <2>1. /\ held' = held /\ (pc' = pc \/ pc' = "loop")
        /\ attempt' = attempt \/ attempt' = NoAttempt
    BY <1>12 DEF Fence, HooksEnter, HooksReject, Request
  <2> QED  BY <1>0, <2>1
<1>13. CASE DriveNext \/ DriveExits \/ DriveReturns \/ DriveCheckpoints \/ DriveWakes \/ StopEnds
  <2>1. /\ held' = held /\ pc' \in {"loop", "exit", "drive", "flush", "off"}
        /\ attempt' = attempt \/ attempt' = NoAttempt
    BY <1>13 DEF DriveNext, DriveExits, DriveReturns, DriveCheckpoints, DriveWakes, StopEnds
  <2> QED  BY <1>0, <2>1
<1>14. CASE \/ \E op \in Operations, b \in Budgets : ClientBegins(op, b)
            \/ StopBegins \/ Start
            \/ (\E how \in {"done", "maxTokens", "error"} : Step(how)) \/ UNCHANGED vars
  <2>1. UNCHANGED <<attempt, held, pc>>
    BY <1>14 DEF ClientBegins, StopBegins, Start, Step, vars, driveVars
  <2> QED  BY <1>0, <2>1
<1> QED  BY <1>1, <1>2, <1>3, <1>4, <1>5, <1>6, <1>7, <1>8, <1>9, <1>10, <1>11, <1>12, <1>13, <1>14
         DEF Next, Client, Drive, Loop

\* Every step keeps the shape of the inbox and of the agent loop.
LEMMA LoopStep == ASSUME ShapeInv, [Next]_vars  PROVE LoopShape'
<1> USE DEF ShapeInv
<1>0. ASSUME inbox' = inbox \/ inbox' = <<>>, cur' = cur \/ cur' = NoMessage,
             loop' = loop \/ loop' \in {"idle", "claim", "fence", "hooks", "rejecting", "enter",
                                        "step", "end"}
      PROVE  LoopShape'
  <2>1. inbox' \in Seq(Messages)  BY <1>0, EmptySeq DEF LoopShape
  <2> QED  BY <1>0, <2>1 DEF LoopShape
<1>1. CASE DriveFollowsUp \/ Prompt
  <2>1. PICK m \in Messages : inbox' = Append(inbox, m)
    BY <1>1 DEF DriveFollowsUp, Prompt, Inserts, DriveShape, Messages
  <2>2. inbox' \in Seq(Messages)  BY <2>1, AppendProperties DEF LoopShape
  <2> QED  BY <1>1, <2>2 DEF DriveFollowsUp, Prompt, LoopShape
<1>2. CASE Claim
  <2>1. CASE inbox' = Tail(inbox) /\ inbox # <<>> /\ cur' = Head(inbox)
    <3>1. inbox' \in Seq(Messages) /\ cur' \in Messages
      BY <2>1, HeadTailProperties DEF LoopShape
    <3> QED  BY <1>2, <3>1 DEF Claim, Rests, LoopShape
  <2>2. CASE inbox' = inbox /\ (cur' = cur \/ cur' = NoMessage)
    BY <1>0, <1>2, <2>2 DEF Claim, Rests
  <2> QED  BY <1>2, <2>1, <2>2 DEF Claim, Rests
<1>3. ASSUME NEW keep \in BOOLEAN, Cancel(keep)  PROVE LoopShape'
  BY <1>0, <1>3 DEF Cancel, Cancels
<1>4. CASE StopFences  BY <1>0, <1>4 DEF StopFences, loopVars
<1>5. CASE TurnEnds  BY <1>0, <1>5 DEF TurnEnds, Rests
<1>6. CASE DriveWakes \/ Start \/ Fence \/ HooksEnter \/ HooksReject \/ LoopBlocks \/ Enter
           \/ (\E how \in {"done", "maxTokens", "error"} : Step(how))
  <2>1. /\ UNCHANGED <<inbox, cur>>
        /\ loop' = loop \/ loop' \in {"idle", "claim", "hooks", "rejecting", "enter", "step",
                                      "end"}
    BY <1>6 DEF DriveWakes, Start, Fence, HooksEnter, HooksReject, LoopBlocks, Enter, Step,
                Rejected
  <2> QED  BY <1>0, <2>1
<1>7. CASE \/ \E op \in Operations, b \in Budgets : ClientBegins(op, b)
           \/ StopBegins \/ Commits \/ OnChanged \/ DriveNext \/ DriveExits \/ DriveReturns
           \/ DriveCheckpoints \/ DriveGoesOn \/ DriveFlushed \/ DriveFails \/ DriveBlocks
           \/ StopEnds \/ UNCHANGED vars
  <2>1. UNCHANGED <<inbox, cur, loop>>
    BY <1>7 DEF ClientBegins, StopBegins, Commits, OnChanged, DriveNext, DriveExits,
                DriveReturns, DriveCheckpoints, DriveGoesOn, DriveFlushed, DriveFails,
                DriveBlocks, StopEnds, vars, loopVars
  <2> QED  BY <1>0, <2>1
<1> QED  BY <1>1, <1>2, <1>3, <1>4, <1>5, <1>6, <1>7 DEF Next, Client, Drive, Loop

\* Every step leaves every flag a flag.
LEMMA FlagStep == ASSUME ShapeInv, [Next]_vars  PROVE FlagShape'
<1> USE DEF ShapeInv
<1>1. ASSUME UNCHANGED <<notice, competing, waking, signal>>,
             needs' \in BOOLEAN, requested' \in BOOLEAN
      PROVE  FlagShape'
  BY <1>1 DEF FlagShape
<1>2. ASSUME Request  PROVE requested' \in BOOLEAN
  BY <1>2 DEF Request, FlagShape
<1>3. CASE Commits
  <2>1. notice' \in BOOLEAN /\ needs' \in BOOLEAN /\ requested' \in BOOLEAN
    BY <1>3 DEF Commits, FlagShape
  <2> QED  BY <1>3, <2>1 DEF Commits, FlagShape, loopVars
<1>4. CASE OnChanged
  <2>1. requested' \in BOOLEAN  BY <1>2, <1>4 DEF OnChanged
  <2> QED  BY <1>4, <2>1 DEF OnChanged, FlagShape, loopVars
<1>5. CASE DriveGoesOn \/ DriveFlushed
  <2>1. needs' \in BOOLEAN /\ requested' \in BOOLEAN
    BY <1>5 DEF DriveGoesOn, DriveFlushed, Reserves, FlagShape
  <2> QED  BY <1>1, <1>5, <2>1 DEF DriveGoesOn, DriveFlushed, goalVars, loopVars
<1>6. CASE DriveFollowsUp \/ Prompt
  <2>1. competing' \in BOOLEAN /\ waking' = TRUE
    BY <1>6 DEF DriveFollowsUp, Prompt, Inserts, FlagShape
  <2> QED  BY <1>6, <2>1 DEF DriveFollowsUp, Prompt, FlagShape
<1>7. ASSUME NEW keep \in BOOLEAN, Cancel(keep)  PROVE FlagShape'
  <2>1. waking' \in BOOLEAN /\ signal' \in BOOLEAN  BY <1>7 DEF Cancel, Cancels, FlagShape
  <2> QED  BY <1>7, <2>1 DEF Cancel, FlagShape
<1>8. CASE Claim
  <2>1. waking' \in BOOLEAN /\ signal' \in BOOLEAN  BY <1>8 DEF Claim, Rests, FlagShape
  <2> QED  BY <1>8, <2>1 DEF Claim, FlagShape
<1>9. CASE Fence \/ HooksEnter
  <2>1. waking' \in BOOLEAN  BY <1>9 DEF Fence, HooksEnter, Rejected, FlagShape
  <2>2. requested' \in BOOLEAN
    <3>1. CASE Request  BY <1>2, <3>1
    <3>2. CASE requested' = requested  BY <3>2 DEF FlagShape
    <3> QED  BY <1>9, <3>1, <3>2 DEF Fence, HooksEnter
  <2> QED  BY <1>9, <2>1, <2>2 DEF Fence, HooksEnter, FlagShape, goalVars
<1>10. CASE HooksReject
  <2>1. waking' \in BOOLEAN  BY <1>10 DEF HooksReject, Rejected, FlagShape
  <2> QED  BY <1>10, <2>1 DEF HooksReject, FlagShape, goalVars
<1>11. CASE LoopBlocks
  <2>1. waking' \in BOOLEAN  BY <1>11 DEF LoopBlocks, Rejected, FlagShape
  <2>2. requested' \in BOOLEAN /\ needs' \in BOOLEAN
    <3>1. CASE Request /\ needs' = TRUE  BY <1>2, <3>1
    <3>2. CASE UNCHANGED <<needs, requested>>  BY <3>2 DEF FlagShape
    <3> QED  BY <1>11, <3>1, <3>2 DEF LoopBlocks
  <2> QED  BY <1>11, <2>1, <2>2 DEF LoopBlocks, FlagShape
<1>12. CASE TurnEnds
  <2>1. waking' \in BOOLEAN /\ signal' \in BOOLEAN  BY <1>12 DEF TurnEnds, Rests, FlagShape
  <2> QED  BY <1>12, <2>1 DEF TurnEnds, FlagShape
<1>13. CASE StopEnds  BY <1>13 DEF StopEnds, FlagShape, goalVars, loopVars
<1>14. CASE DriveNext \/ DriveCheckpoints
  <2>1. needs' \in BOOLEAN /\ requested' \in BOOLEAN
    BY <1>14 DEF DriveNext, DriveCheckpoints, FlagShape
  <2> QED  BY <1>1, <1>14, <2>1 DEF DriveNext, DriveCheckpoints, goalVars, loopVars
<1>15. CASE \/ \E op \in Operations, b \in Budgets : ClientBegins(op, b)
            \/ StopBegins \/ StopFences \/ DriveExits \/ DriveReturns \/ DriveFails
            \/ DriveBlocks \/ DriveWakes \/ Start \/ Enter
            \/ (\E how \in {"done", "maxTokens", "error"} : Step(how)) \/ UNCHANGED vars
  <2>1. UNCHANGED <<notice, competing, needs, requested, waking, signal>>
    BY <1>15 DEF ClientBegins, StopBegins, StopFences, DriveExits, DriveReturns, DriveFails,
                 DriveBlocks, DriveWakes, Start, Enter, Step, vars, goalVars, driveVars, loopVars
  <2> QED  BY <2>1 DEF FlagShape
<1> QED  BY <1>3, <1>4, <1>5, <1>6, <1>7, <1>8, <1>9, <1>10, <1>11, <1>12, <1>13,
            <1>14, <1>15
         DEF Next, Client, Drive, Loop

\* Every step keeps the shape of the whole state.
LEMMA ShapeStep == ShapeInv /\ [Next]_vars => ShapeInv'
BY GoalStep, DriveStep, LoopStep, FlagStep DEF ShapeInv

\* Every reachable state has the shape the Go structs give it, with a mutation
\* under way that carries the next revision.
THEOREM GoalShapeHolds == Spec => []ShapeInv
BY ShapeInit, ShapeStep, PTL DEF Spec

\* Type correctness: goal, attempt, inbox, loop and drive goroutine keep the
\* types of goal/service.go and goalrounddriver/driver.go, and only a current
\* goal is armed.
THEOREM GoalTyping == Spec => []TypeOK
<1>1. ShapeInv => TypeOK
  <2> SUFFICES ASSUME ShapeInv  PROVE TypeOK  OBVIOUS
  <2>1. {armed, folds, notice, competing, needs, requested, waking, signal} \subseteq BOOLEAN
    BY DEF ShapeInv, GoalShape, FlagShape
  <2> QED  BY <2>1 DEF ShapeInv, GoalShape, DriveShape, LoopShape, Snap, Attempts, TypeOK
<1> QED  BY <1>1, GoalShapeHolds, PTL

-----------------------------------------------------------------------------
(* The fence.                                                              *)

\* m is an automatic round in the inbox, in the open turn or in the driver's hand.
Outstanding(m) ==
    /\ m.kind = "round"
    /\ m = cur \/ m = held \/ \E i \in DOMAIN inbox : m = inbox[i]

\* A round carries a revision the goal has had, and while that revision is
\* the live one, a number its budget allows.
ReservedInv ==
    \A m \in Messages : Outstanding(m) =>
        m.rev <= goal.rev /\ (m.rev = goal.rev => m.round <= goal.max)

\* The reservation drive makes is within the budget of the revision it saw;
\* every later revision is a larger one.
LEMMA ReservedStep == ASSUME ShapeInv, ReservedInv, [Next]_vars  PROVE ReservedInv'
<1> USE DEF ShapeInv
<1> SUFFICES ASSUME NEW m \in Messages, Outstanding(m)'
             PROVE  m.rev <= goal'.rev /\ (m.rev = goal'.rev => m.round <= goal'.max)
  BY DEF ReservedInv
<1>a. m.kind = "round" /\ m.rev \in Nat /\ m.round \in Nat
  BY DEF Outstanding, Messages
<1>b. goal \in Snap /\ goal' \in Snap  BY GoalStep DEF GoalShape
<1>1. ASSUME Outstanding(m), goal'.rev = goal.rev, goal'.max = goal.max
      PROVE  m.rev <= goal'.rev /\ (m.rev = goal'.rev => m.round <= goal'.max)
  BY <1>1 DEF ReservedInv
<1>2. ASSUME Outstanding(m), goal'.rev = goal.rev + 1
      PROVE  m.rev <= goal'.rev /\ (m.rev = goal'.rev => m.round <= goal'.max)
  BY <1>a, <1>b, <1>2 DEF ReservedInv, Snap
<1>3. ASSUME UNCHANGED <<inbox, cur, held>>  PROVE Outstanding(m)
  BY <1>3 DEF Outstanding
<1>4. CASE Commits
  <2>1. Outstanding(m)  BY <1>3, <1>4 DEF Commits, loopVars
  <2>2. goal' = goal \/ goal'.rev = goal.rev + 1
    BY <1>4 DEF Commits, Free, GoalShape
  <2> QED  BY <1>1, <1>2, <2>1, <2>2
<1>5. CASE LoopBlocks
  <2>1. Outstanding(m)  BY <1>3, <1>5 DEF LoopBlocks
  <2>2. goal' = goal \/ goal'.rev = goal.rev + 1
    BY <1>5 DEF LoopBlocks, Snapshot
  <2> QED  BY <1>1, <1>2, <2>1, <2>2
<1>6. CASE DriveGoesOn \/ DriveFlushed
  <2>1. UNCHANGED <<goal, inbox, cur>>
    BY <1>6 DEF DriveGoesOn, DriveFlushed, goalVars, loopVars
  <2>2. CASE m = held' /\ held' # held
    <3>1. Live /\ ~(goal.rounds >= goal.max) /\ held' = Round(FreshId)
      BY <1>6, <1>a, <2>2 DEF DriveGoesOn, DriveFlushed, Reserves
    <3>2. m.rev = goal.rev /\ m.round = goal.rounds + 1  BY <2>2, <3>1 DEF Round
    <3> QED  BY <1>b, <2>1, <3>1, <3>2 DEF Snap
  <2>3. CASE ~(m = held' /\ held' # held)
    <3>1. Outstanding(m)  BY <2>1, <2>3 DEF Outstanding
    <3> QED  BY <1>1, <2>1, <3>1
  <2> QED  BY <2>2, <2>3
<1>7. CASE DriveFails \/ DriveBlocks
  <2>1. UNCHANGED <<goal, inbox, cur>> /\ held' = NoMessage
    BY <1>7 DEF DriveFails, DriveBlocks, loopVars
  <2>2. Outstanding(m)  BY <1>a, <2>1 DEF Outstanding, NoMessage
  <2> QED  BY <1>1, <2>1, <2>2
<1>8. CASE DriveFollowsUp \/ Prompt
  <2>1. /\ UNCHANGED <<goal, cur>>
        /\ \/ inbox' = Append(inbox, held) /\ held' = NoMessage
           \/ inbox' = Append(inbox, [kind |-> "prompt", id |-> 0]) /\ held' = held
    BY <1>8 DEF DriveFollowsUp, Prompt, Inserts
  <2>2. inbox \in Seq(Messages)  BY DEF LoopShape
  <2>3. PICK x : inbox' = Append(inbox, x)
                 /\ (x = held \/ x.kind = "prompt") /\ (held' = held \/ held' = NoMessage)
    BY <2>1
  <2>4. \A i \in DOMAIN inbox' : (i \in DOMAIN inbox /\ inbox'[i] = inbox[i]) \/ inbox'[i] = x
    BY ONLY <2>2, <2>3
  <2>5. Outstanding(m)
    <3>1. m = cur \/ m = held' \/ (\E i \in DOMAIN inbox' : m = inbox'[i])
      BY <2>1 DEF Outstanding
    <3>2. m # NoMessage /\ m.kind # "prompt"  BY <1>a DEF NoMessage
    <3> QED  BY <1>a, <2>3, <2>4, <3>1, <3>2 DEF Outstanding
  <2> QED  BY <1>1, <2>1, <2>5
<1>9. CASE Claim
  <2>1. UNCHANGED <<goal, held>>  BY <1>9 DEF Claim
  <2>2. \/ inbox' = inbox /\ (cur' = cur \/ cur' = NoMessage)
        \/ inbox # <<>> /\ inbox' = Tail(inbox) /\ cur' = Head(inbox)
    BY <1>9 DEF Claim, Rests
  <2>3. Outstanding(m)
    BY <1>a, <2>1, <2>2 DEF Outstanding, NoMessage, LoopShape
  <2> QED  BY <1>1, <2>1, <2>3
<1>10. CASE (\E keep \in BOOLEAN : Cancel(keep)) \/ StopFences \/ TurnEnds
  <2>1. /\ UNCHANGED <<goal, held>> /\ (inbox' = inbox \/ inbox' = <<>>)
        /\ cur' = cur \/ cur' = NoMessage
    BY <1>10 DEF Cancel, Cancels, StopFences, TurnEnds, Rests, loopVars
  <2>2. Outstanding(m)  BY <1>a, <2>1 DEF Outstanding, NoMessage
  <2> QED  BY <1>1, <2>1, <2>2
<1>11. CASE Enter
  <2>1. Outstanding(m)  BY <1>3, <1>11 DEF Enter
  <2>2. goal' = goal \/ goal' = [goal EXCEPT !.rounds = cur.round]  BY <1>11 DEF Enter
  <2>3. goal'.rev = goal.rev /\ goal'.max = goal.max  BY <1>b, <2>2 DEF Snap
  <2> QED  BY <1>1, <2>1, <2>3
<1>12. CASE \/ \E op \in Operations, b \in Budgets : ClientBegins(op, b)
            \/ StopBegins \/ OnChanged \/ DriveNext \/ DriveExits \/ DriveReturns
            \/ DriveCheckpoints \/ DriveWakes \/ Start \/ Fence \/ HooksEnter \/ HooksReject
            \/ (\E how \in {"done", "maxTokens", "error"} : Step(how))
            \/ StopEnds \/ UNCHANGED vars
  <2>1. UNCHANGED <<goal, inbox, cur, held>>
    BY <1>12 DEF ClientBegins, StopBegins, OnChanged, DriveNext, DriveExits, DriveReturns,
                 DriveCheckpoints, DriveWakes, Start, Fence, HooksEnter, HooksReject, Step,
                 StopEnds, vars, goalVars, driveVars, loopVars
  <2> QED  BY <1>1, <1>3, <2>1
<1> QED  BY <1>4, <1>5, <1>6, <1>7, <1>8, <1>9, <1>10, <1>11, <1>12
         DEF Next, Client, Drive, Loop

\* While a round stands between its second look and the log, a mutation under
\* way still carries the fold's counters, and unless authority has lapsed the
\* round is the next one of the live, armed revision; and so far no round
\* entered without it.
FenceInv ==
    /\ PastFence => /\ Free \/ Fits
                    /\ lapsed \/ (Admits /\ armed)
    /\ ~slip

\* A round that passes validReservation may enter the log.
LEMMA ValidAdmits ==
    ASSUME ShapeInv, ReservedInv, Valid  PROVE Admits /\ armed
<1>1. /\ cur.kind = "round" /\ Shows("active") /\ armed
      /\ goal.rev = cur.rev /\ cur.round = goal.rounds + 1
  BY DEF Valid, SameQueued, Live
<1>2. cur \in Messages
  BY <1>1 DEF ShapeInv, LoopShape, NoMessage
<1>3. cur.round <= goal.max
  BY <1>1, <1>2 DEF ReservedInv, Outstanding
<1> QED  BY <1>1, <1>3 DEF Admits

\* A step that leaves the goal alone and overtakes at most a mutation keeps
\* the fence, when the round was past it before.
LEMMA FenceFrame ==
    ASSUME ShapeInv, FenceInv, UNCHANGED <<goal, folds, cur, slip>>,
           mut' = mut \/ mut' = Overtakes,
           PastFence' => PastFence /\ (lapsed' \/ (lapsed' = lapsed /\ armed' = armed))
    PROVE  FenceInv'
<1>1. ASSUME PastFence'  PROVE (Free \/ Fits)'
  <2>1. Free \/ Fits  BY <1>1 DEF FenceInv
  <2> QED  BY <2>1, OvertakesShape DEF Free, Fits, ShapeInv
<1>2. ASSUME PastFence'  PROVE (lapsed \/ (Admits /\ armed))'
  BY <1>2 DEF FenceInv, Admits, Shows
<1> QED  BY <1>1, <1>2 DEF FenceInv

\* The two looks of the fence, the free lock they read the goal under, and
\* the flags that every loss of authority sets, keep the fence.
LEMMA FenceStep == ASSUME ShapeInv, ReservedInv, FenceInv, [Next]_vars  PROVE FenceInv'
<1>0. ASSUME loop' # "enter", slip' = slip  PROVE FenceInv'
  BY <1>0 DEF FenceInv, PastFence
<1>1. ASSUME NEW op \in Operations, NEW b \in Budgets, ClientBegins(op, b)  PROVE FenceInv'
  <2>1. b \in Nat  BY BudgetsAssumption
  <2>2. mut'.op \in {"create", "clear"} \/ mut'.next.rounds = goal.rounds
    BY <1>1, <2>1, BeginShape DEF ClientBegins, ShapeInv
  <2>3. UNCHANGED <<goal, armed, folds, loop, cur, lapsed, slip>>
    BY <1>1 DEF ClientBegins, loopVars, restVars
  <2> QED  BY <2>2, <2>3 DEF FenceInv, PastFence, Fits, Admits, Shows
<1>2. CASE Commits
  <2>1. /\ UNCHANGED <<loop, cur, slip>> /\ mut' = NoMut /\ ~Free
        /\ folds' = (folds /\ Fits)
    BY <1>2 DEF Commits, loopVars
  <2>2. ASSUME PastFence'  PROVE lapsed'
    <3>1. PastFence /\ Fits  BY <2>1, <2>2 DEF PastFence, FenceInv
    <3>2. CASE folds'  BY <1>2, <3>1, <3>2 DEF Commits
    <3>3. CASE ~folds'
      <4>1. lapsed /\ lapsed' = lapsed
        BY <1>2, <2>1, <3>1, <3>3 DEF Commits, FenceInv, Admits, Shows
      <4> QED  BY <4>1
    <3> QED  BY <3>2, <3>3
  <2> QED  BY <2>1, <2>2 DEF FenceInv, Free
<1>3. CASE DriveFails
  <2>1. /\ UNCHANGED <<goal, folds, mut, loop, cur, slip>>
        /\ lapsed' = (lapsed \/ PastFence)
    BY <1>3 DEF DriveFails, loopVars
  <2> QED  BY <2>1, FenceFrame DEF PastFence
<1>4. CASE DriveBlocks
  <2>0. UNCHANGED <<goal, folds, loop, cur, slip>>  BY <1>4 DEF DriveBlocks, loopVars
  <2>1. CASE Shows("active") /\ goal.rev = held.rev
    <3>1. goal.max \in Nat  BY DEF GoalShape, Snap, ShapeInv
    <3>2. "block" \in Operations /\ Allowed("block")
      BY <2>1 DEF Operations, Allowed, Shows
    <3>3. mut'.op \in {"create", "clear"} \/ mut'.next.rounds = goal.rounds
      BY <1>4, <2>1, <3>1, <3>2, BeginShape DEF DriveBlocks, ShapeInv
    <3>4. UNCHANGED <<armed, lapsed>>  BY <1>4, <2>1 DEF DriveBlocks
    <3> QED  BY <2>0, <3>3, <3>4 DEF FenceInv, PastFence, Fits, Admits, Shows
  <2>2. CASE ~(Shows("active") /\ goal.rev = held.rev)
    <3>1. lapsed' = (lapsed \/ PastFence) /\ mut' = mut  BY <1>4, <2>2 DEF DriveBlocks
    <3> QED  BY <2>0, <3>1, FenceFrame DEF PastFence
  <2> QED  BY <2>1, <2>2
<1>5. CASE StopFences
  <2>1. /\ UNCHANGED <<goal, folds, mut, loop, cur, slip>>
        /\ lapsed' = (lapsed \/ PastFence)
    BY <1>5 DEF StopFences, loopVars
  <2> QED  BY <2>1, FenceFrame DEF PastFence
<1>6. CASE HooksEnter
  <2>1. CASE loop' = "enter" /\ cur.kind # "prompt"
    <3>1. Free /\ Valid /\ lapsed' = FALSE  BY <1>6, <2>1 DEF HooksEnter, Recheck, Rejected
    <3>2. Admits /\ armed  BY <3>1, ValidAdmits
    <3>3. UNCHANGED <<goal, armed, folds, mut, cur, slip>>  BY <1>6 DEF HooksEnter, goalVars
    <3> QED  BY <3>1, <3>2, <3>3 DEF FenceInv, Free, Admits, Shows
  <2>2. CASE ~(loop' = "enter" /\ cur.kind # "prompt")
    <3>1. UNCHANGED <<cur, slip>>  BY <1>6 DEF HooksEnter
    <3> QED  BY <2>2, <3>1 DEF FenceInv, PastFence
  <2> QED  BY <2>1, <2>2
<1>7. CASE Enter
  <2>1. loop' \in {"step", "end"}  BY <1>7 DEF Enter
  <2>2. slip' = slip \/ (PastFence /\ slip' = (slip \/ (~(Admits /\ armed) /\ ~lapsed)))
    BY <1>7 DEF Enter, PastFence
  <2>3. ~slip'  BY <2>2 DEF FenceInv
  <2> QED  BY <2>1, <2>3 DEF FenceInv, PastFence
<1>8. CASE \/ Claim \/ Fence \/ HooksReject \/ LoopBlocks \/ TurnEnds
           \/ Start \/ (\E how \in {"done", "maxTokens", "error"} : Step(how))
  <2>1. loop' # "enter" /\ slip' = slip
    BY <1>8 DEF Claim, Fence, HooksReject, LoopBlocks, TurnEnds, Start,
                Step, Rests, Rejected, restVars
  <2> QED  BY <1>0, <2>1
<1>9. CASE Prompt \/ DriveFollowsUp \/ (\E keep \in BOOLEAN : Cancel(keep))
  <2>1. /\ UNCHANGED <<goal, armed, folds, loop, cur, lapsed, slip>>
        /\ mut' = mut \/ mut' = Overtakes
    BY <1>9 DEF Prompt, DriveFollowsUp, Cancel, Cancels, Inserts, restVars
  <2> QED  BY <2>1, FenceFrame DEF PastFence
<1>10. CASE DriveWakes
  <2>1. UNCHANGED <<goal, armed, folds, mut, cur, lapsed, slip>> /\ (loop' = "enter" => loop = "enter")
    BY <1>10 DEF DriveWakes, goalVars, restVars
  <2> QED  BY <2>1, FenceFrame DEF PastFence
<1>11. CASE \/ StopBegins \/ OnChanged \/ DriveNext \/ DriveExits \/ DriveReturns
            \/ DriveCheckpoints \/ DriveGoesOn \/ DriveFlushed \/ StopEnds \/ UNCHANGED vars
  <2>1. UNCHANGED <<goal, armed, folds, mut, loop, cur, lapsed, slip>>
    BY <1>11 DEF StopBegins, OnChanged, DriveNext, DriveExits, DriveReturns, DriveCheckpoints,
                 DriveGoesOn, DriveFlushed, StopEnds, vars, goalVars, loopVars, restVars
  <2> QED  BY <2>1, FenceFrame DEF PastFence
<1> QED  BY <1>1, <1>2, <1>3, <1>4, <1>5, <1>6, <1>7, <1>8, <1>9, <1>10, <1>11
         DEF Next, Client, Drive, Loop

\* The pre-step fence: a round enters the log with the exact live revision,
\* the next number within the budget and an armed goal, unless that authority
\* was taken away between the second look and the append.  Whatever the
\* client, the drive goroutine and the loop interleave.
THEOREM RoundsEnterWithAuthority == Spec => []FenceHolds
<1> DEFINE IInv == ShapeInv /\ ReservedInv /\ FenceInv
<1>1. Init => IInv
  <2>1. Init => ReservedInv
    BY DEF Init, ReservedInv, Outstanding, Messages, NoMessage
  <2>2. Init => FenceInv  BY DEF Init, FenceInv, PastFence
  <2> QED  BY <2>1, <2>2, ShapeInit
<1>2. IInv /\ [Next]_vars => IInv'  BY ShapeStep, ReservedStep, FenceStep
<1>3. IInv => FenceHolds  BY DEF FenceInv, FenceHolds
<1> HIDE DEF IInv
<1> QED  BY <1>1, <1>2, <1>3, PTL DEF Spec

-----------------------------------------------------------------------------
(* Teardown of the driver.                                                 *)

\* Only the drive goroutine carries a message or a mutation of its own; no
\* goroutine is left when stop is done; and a round past its fence once stop
\* has disarmed the goal had passed it before.
StopInv ==
    /\ stop = "done" => pc = "off"
    /\ held # NoMessage => pc \in {"followup", "block"}
    /\ mut # NoMut /\ mut.by = "drive" => pc = "blocking"
    /\ stop \in {"waiting", "done"} /\ PastFence => lapsed

\* A step outside drive starts the goroutine only while the service is open.
LEMMA StopFrame ==
    ASSUME ShapeInv, StopInv, UNCHANGED <<held, stop>>,
           mut' = mut \/ mut' = Overtakes \/ (mut' # NoMut /\ mut'.by = "client"),
           pc' = pc \/ Request,
           stop # "no" /\ PastFence' => (PastFence /\ (lapsed => lapsed'))
    PROVE  StopInv'
<1>1. pc' = pc \/ (pc = "off" /\ pc' = "loop" /\ stop = "no")
  BY DEF Request
<1>2. (mut # NoMut /\ mut.by = "drive" => pc = "blocking")'
  BY <1>1, OvertakesShape DEF StopInv, ShapeInv
<1>3. (stop \in {"waiting", "done"} /\ PastFence => lapsed)'  BY DEF StopInv
<1> QED  BY <1>1, <1>2, <1>3 DEF StopInv

\* Every step keeps it.
LEMMA StopStep == ASSUME ShapeInv, StopInv, [Next]_vars  PROVE StopInv'
<1>1. CASE Commits
  <2>1. UNCHANGED <<held, stop, loop, cur>> /\ mut' = NoMut /\ (lapsed => lapsed')
    BY <1>1 DEF Commits, loopVars
  <2>2. (stop = "done" => pc = "off")' /\ (held # NoMessage => pc \in {"followup", "block"})'
    <3>1. CASE mut.by = "drive"
      <4>1. pc = "blocking"  BY <1>1, <3>1 DEF Commits, Free, StopInv
      <4> QED  BY <2>1, <4>1 DEF StopInv
    <3>2. CASE mut.by # "drive"
      <4>1. pc' = pc  BY <1>1, <3>2 DEF Commits
      <4> QED  BY <2>1, <4>1 DEF StopInv
    <3> QED  BY <3>1, <3>2
  <2>3. (stop \in {"waiting", "done"} /\ PastFence => lapsed)'
    BY <2>1 DEF StopInv, PastFence
  <2> QED  BY <2>1, <2>2, <2>3 DEF StopInv
<1>2. CASE \/ DriveNext \/ DriveExits \/ DriveReturns \/ DriveCheckpoints \/ DriveWakes
  <2>1. /\ UNCHANGED <<held, stop, mut, cur, lapsed>> /\ (loop' = "enter" => loop = "enter")
        /\ pc \notin {"off", "followup", "block", "blocking"}
        /\ pc' \in {"drive", "exit", "loop", "off", "flush"}
    BY <1>2 DEF DriveNext, DriveExits, DriveReturns, DriveCheckpoints, DriveWakes, goalVars,
                loopVars, restVars
  <2> QED  BY <2>1 DEF StopInv, PastFence
<1>3. CASE DriveGoesOn \/ DriveFlushed
  <2>1. UNCHANGED <<stop, mut, loop, cur, lapsed>> /\ pc \in {"drive", "flush"}
    BY <1>3 DEF DriveGoesOn, DriveFlushed, goalVars, loopVars, restVars
  <2>2. \/ held' = held /\ pc' = "loop"
        \/ pc' \in {"block", "followup"}
    BY <1>3 DEF DriveGoesOn, DriveFlushed, Reserves
  <2> QED  BY <2>1, <2>2 DEF StopInv, PastFence
<1>4. CASE DriveFails \/ DriveFollowsUp
  <2>1. /\ UNCHANGED <<stop, loop, cur>> /\ held' = NoMessage /\ (lapsed => lapsed')
        /\ mut' = mut \/ mut' = Overtakes
        /\ pc \in {"flush", "followup"} /\ pc' \in {"loop", "wake"}
    <3>1. CASE DriveFails  BY <3>1 DEF DriveFails, loopVars
    <3>2. CASE DriveFollowsUp  BY <3>2 DEF DriveFollowsUp, Inserts, restVars
    <3> QED  BY <1>4, <3>1, <3>2
  <2>2. (mut # NoMut /\ mut.by = "drive" => pc = "blocking")'
    BY <2>1, OvertakesShape DEF StopInv, ShapeInv
  <2> QED  BY <2>1, <2>2 DEF StopInv, PastFence
<1>5. CASE DriveBlocks
  <2>1. /\ UNCHANGED <<stop, loop, cur>> /\ held' = NoMessage /\ (lapsed => lapsed')
        /\ pc = "block" /\ Free /\ pc' # "off"
        /\ pc' = "blocking" \/ mut' = mut
    BY <1>5 DEF DriveBlocks, loopVars
  <2> QED  BY <2>1 DEF StopInv, PastFence, Free
<1>6. CASE StopBegins
  <2>1. UNCHANGED <<pc, held, mut>> /\ stop' = "closed"
    BY <1>6 DEF StopBegins, goalVars, driveVars
  <2> QED  BY <2>1 DEF StopInv
<1>7. CASE StopFences
  <2>1. /\ UNCHANGED <<pc, held, mut, loop, cur>> /\ stop' = "waiting"
        /\ lapsed' = (lapsed \/ PastFence)
    BY <1>7 DEF StopFences, loopVars
  <2> QED  BY <2>1 DEF StopInv, PastFence
<1>8. CASE StopEnds
  <2>1. /\ UNCHANGED <<pc, held, mut, loop, cur, lapsed>> /\ stop = "waiting" /\ pc = "off"
    BY <1>8 DEF StopEnds, goalVars, loopVars
  <2> QED  BY <2>1 DEF StopInv, PastFence
<1>9. CASE HooksEnter
  <2>1. stop # "no" => ~PastFence'
    BY <1>9 DEF HooksEnter, Recheck, Valid, PastFence, Rejected
  <2>2. UNCHANGED <<held, stop, mut>> /\ (pc' = pc \/ Request)
    BY <1>9 DEF HooksEnter, goalVars
  <2> QED  BY <2>1, <2>2, StopFrame
<1>10. CASE \/ Claim \/ Fence \/ HooksReject \/ LoopBlocks \/ TurnEnds \/ Start \/ Enter
            \/ (\E how \in {"done", "maxTokens", "error"} : Step(how))
  <2>1. ~PastFence'
    BY <1>10 DEF Claim, Fence, HooksReject, LoopBlocks, TurnEnds, Start, Enter, Step, Rests,
                 Rejected, PastFence
  <2>2. UNCHANGED <<held, stop>> /\ (mut' = mut \/ mut' = Overtakes) /\ (pc' = pc \/ Request)
    BY <1>10 DEF Claim, Fence, HooksReject, LoopBlocks, TurnEnds, Start, Enter, Step,
                 goalVars, driveVars, restVars
  <2> QED  BY <2>1, <2>2, StopFrame
<1>11. CASE Prompt \/ OnChanged \/ (\E keep \in BOOLEAN : Cancel(keep))
  <2>1. /\ UNCHANGED <<held, stop, loop, cur, lapsed>> /\ (mut' = mut \/ mut' = Overtakes)
        /\ pc' = pc \/ Request
    BY <1>11 DEF Prompt, OnChanged, Cancel, Cancels, Inserts, loopVars, restVars
  <2> QED  BY <2>1, StopFrame DEF PastFence
<1>12. ASSUME NEW op \in Operations, NEW b \in Budgets, ClientBegins(op, b)  PROVE StopInv'
  <2>1. /\ UNCHANGED <<held, stop, loop, cur, lapsed, pc>>
        /\ mut' # NoMut /\ mut'.by = "client"
    BY <1>12 DEF ClientBegins, Begin, NoMut, Operations, driveVars, loopVars, restVars
  <2> QED  BY <2>1, StopFrame DEF PastFence
<1>13. CASE UNCHANGED vars
  <2>1. UNCHANGED <<held, stop, loop, cur, lapsed, pc, mut>>
    BY <1>13 DEF vars, goalVars, driveVars, loopVars, restVars
  <2> QED  BY <2>1, StopFrame DEF PastFence
<1> QED  BY <1>1, <1>2, <1>3, <1>4, <1>5, <1>6, <1>7, <1>8, <1>9, <1>10, <1>11, <1>12, <1>13
         DEF Next, Client, Drive, Loop

\* Teardown: once the driver's stop returned, no drive goroutine runs, no
\* round is on its way to the inbox, and a round on its way into the log had
\* passed its fence before stop disarmed the goal.
THEOREM StopEndsTheDrive == Spec => []StopLeavesNoDrive
<1>1. Init => ShapeInv /\ StopInv
  BY ShapeInit DEF Init, StopInv, PastFence, NoMut, NoMessage
<1>2. ShapeInv /\ StopInv /\ [Next]_vars => (ShapeInv /\ StopInv)'
  BY ShapeStep, StopStep
<1>3. StopInv => StopLeavesNoDrive  BY DEF StopInv, StopLeavesNoDrive
<1> QED  BY <1>1, <1>2, <1>3, PTL DEF Spec
=============================================================================
