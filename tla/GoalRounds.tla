------------------------------ MODULE GoalRounds ------------------------------
(***************************************************************************)
(* One agent pursuing one goal through automatic same-session rounds.       *)
(*                                                                         *)
(* goal/service.go folds the goal out of the session log and commits each  *)
(* mutation as a goal/change event; goal/fold.go validates that fold and   *)
(* refuses a log in which an admitted round is not the next round of the   *)
(* live revision.  goalrounddriver/driver.go is the scheduler: one          *)
(* coalesced goroutine ("drive") reserves at most one next round and queues *)
(* it as an ordinary message, and a pre-step fence in the agent loop checks *)
(* the reservation again before the message may enter the log.              *)
(*                                                                         *)
(* Three actors interleave: a client (a slash command or a goal tool), the  *)
(* drive goroutine and the agent loop, which is reduced here to the steps   *)
(* the goal driver hears of.  A goal's identity and revision are one number *)
(* that every committed change advances.  Timestamps, objectives, steering  *)
(* input (next-step messages) and a panicking pre-step hook are left out.   *)
(* The loop of this repository never emits agent/status: wakeDriver assigns *)
(* d.phase before setPhaseLocked compares it, so Agent.Status() stays idle  *)
(* and the driver's onStatus never runs.                                    *)
(***************************************************************************)
EXTENDS Integers, Sequences, FiniteSets, FiniteSetsExt

CONSTANTS
  Budgets,       \* values a client gives to maxGoalRounds
  MaxRevision,   \* bound: committed goal changes
  MaxPrompts,    \* bound: ordinary prompts
  MaxFaults      \* bound: cancellations, failures and rejecting hooks together

ASSUME BudgetsAssumption == Budgets \subseteq Nat \ {0} /\ Budgets # {}
ASSUME BoundsAssumption == {MaxRevision, MaxPrompts, MaxFaults} \subseteq Nat

VARIABLES
  goal,       \* the folded goal: phase, rev, rounds started, round budget
  armed,      \* cache.activation is armed
  folds,      \* the session log still folds
  mut,        \* the mutation holding goal.Service.mu, between sync and Append
  notice,     \* a client's commit whose goal/changed is not emitted yet
  attempt,    \* driverState.attempt
  competing,  \* driverState.competingQueued
  needs,      \* driverState.needsCheckpoint
  requested,  \* driverState.requested
  pc,         \* the drive goroutine; "off" when not running
  held,       \* what drive carries outside the lock: a message or a revision
  inbox,      \* next-turn messages, oldest first
  waking,     \* pendingWakes: some queued message still owes a wake
  loop,       \* where the agent loop stands
  cur,        \* the message the open turn claimed
  outcome,    \* how the open turn ends
  signal,     \* the activity's context is cancelled
  ref,        \* the revision the loop is about to block
  stop,       \* Service.stop: "no", "closed", "waiting", "done"
  lapsed,     \* history: authority changed since the round passed its fence
  slip,       \* history: a round entered without authority, nothing lapsed
  asked,      \* prompts so far
  spent       \* mishaps so far

goalVars == <<goal, armed, folds, mut, notice>>
driveVars == <<attempt, competing, needs, requested, pc, held>>
loopVars == <<inbox, waking, loop, cur, outcome, signal, ref>>
restVars == <<stop, lapsed, slip, asked, spent>>
vars == <<goalVars, driveVars, loopVars, restVars>>

NoAttempt == [phase |-> "none"]
NoMut == [op |-> "none"]
NoMessage == [kind |-> "none"]

Phases == {"none", "active", "paused", "blocked", "complete"}
Operations == {"create", "edit", "pause", "resume", "complete", "block", "clear"}

(***************************************************************************)
(* The goal service.                                                       *)
(***************************************************************************)
\* goal.Service.mu is free: a reader of the goal gets through.
Free == mut = NoMut

\* Some current goal is in phase p; a log that no longer folds shows no goal.
Shows(p) == folds /\ goal.phase = p
Live == Shows("active") /\ armed

\* What Disarm leaves of the activation; a failing fold leaves it alone.
Disarmed == IF folds THEN FALSE ELSE armed

\* An append of another goroutine overtakes a mutation's observed Seq.
Overtakes == IF Free THEN mut ELSE [mut EXCEPT !.moved = TRUE]

\* The round cur is past its fence and not yet in the log.
PastFence == loop = "enter" /\ cur.kind = "round"

\* Each operation's precondition on the synced cache.
Allowed(op) ==
  CASE op = "create" -> goal.phase \in {"none", "complete"}
    [] op \in {"edit", "clear"} -> goal.phase # "none"
    [] op \in {"pause", "block"} -> goal.phase = "active"
    [] op = "complete" -> goal.phase \in {"active", "paused", "blocked"}
    [] op = "resume" -> /\ goal.phase \in {"active", "paused", "blocked"}
                        /\ ~(goal.phase = "active" /\ armed)
                        /\ goal.rounds < goal.max

\* The phase each operation commits.
Target(op) ==
  CASE op \in {"create", "resume"} -> "active"
    [] op = "edit" -> goal.phase
    [] op = "pause" -> "paused"
    [] op = "block" -> "blocked"
    [] op = "complete" -> "complete"
    [] op = "clear" -> "none"

\* The activation each operation asks for.
Activation(op) == op \in {"create", "resume"} \/ (op = "edit" /\ armed)

\* The snapshot an operation commits, budget b where it carries one.
Snapshot(op, b) ==
  [phase |-> Target(op), rev |-> goal.rev + 1,
   rounds |-> IF op \in {"create", "clear"} THEN 0 ELSE goal.rounds,
   max |-> IF op \in {"create", "edit"} THEN b ELSE goal.max]

\* validateSnapshotTransition: the counters a change carries are the fold's.
Fits == mut.op \in {"create", "clear"} \/ mut.next.rounds = goal.rounds

Begin(op, b, by) ==
  mut' = [op |-> op, by |-> by, next |-> Snapshot(op, b), moved |-> FALSE]

\* A client begins a mutation of the goal it sees: lock, sync, validate.
ClientBegins(op, b) ==
  /\ Free /\ ~notice /\ folds /\ goal.rev < MaxRevision /\ stop # "done"
  /\ Allowed(op)
  /\ Begin(op, b, "client")
  /\ UNCHANGED <<goal, armed, folds, notice, driveVars, loopVars, restVars>>

\* Mutant: a trigger starts a driver whose service is closed.
RequestAlways ==
  /\ requested' = TRUE
  /\ pc' = IF pc = "off" THEN "loop" ELSE pc

\* requestDrive, coalescing onto the running goroutine.
Request ==
  IF stop # "no" THEN UNCHANGED <<requested, pc>>
  ELSE /\ requested' = TRUE
       /\ pc' = IF pc = "off" THEN "loop" ELSE pc

\* The activation a committed change leaves: its own, if its event took the
\* sequence number it was registered under.
Settles == IF mut.moved THEN FALSE ELSE Activation(mut.op)

\* Append the change and sync it.  A change that no longer fits stays in the
\* log and every later fold fails on it.  The drive goroutine's own commit
\* emits goal/changed before drive returns.
Commits ==
  /\ ~Free
  /\ mut' = NoMut
  /\ folds' = (folds /\ Fits)
  /\ IF folds'
     THEN /\ goal' = mut.next
          /\ armed' = Settles
          /\ lapsed' = (lapsed \/ PastFence)
     ELSE UNCHANGED <<goal, armed, lapsed>>
  /\ notice' = (folds' /\ mut.by = "client")
  /\ IF mut.by = "drive"
     THEN /\ pc' = "loop"
          /\ needs' = (needs \/ folds')
          /\ requested' = (requested \/ (folds' /\ stop = "no"))
     ELSE UNCHANGED <<pc, needs, requested>>
  /\ UNCHANGED <<attempt, competing, held, loopVars, stop, slip, asked, spent>>

\* goal/changed reaches the driver.
OnChanged ==
  /\ notice
  /\ notice' = FALSE
  /\ needs' = TRUE
  /\ Request
  /\ UNCHANGED <<goal, armed, folds, mut, attempt, competing, held, loopVars, restVars>>

(***************************************************************************)
(* The drive goroutine.                                                    *)
(***************************************************************************)
\* readyToDriveLocked; Agent.Status() reads idle throughout.
Ready == stop = "no" /\ ~competing

\* The loop header: consume the request, or leave the loop.
DriveNext ==
  /\ pc = "loop"
  /\ IF requested /\ stop = "no"
     THEN requested' = FALSE /\ pc' = "drive"
     ELSE pc' = "exit" /\ UNCHANGED requested
  /\ UNCHANGED <<goalVars, attempt, competing, needs, held, loopVars, restVars>>

\* Mutants: a late trigger is lost; a late trigger restarts a stopping driver.
RetriggersNever == FALSE
RetriggersStopping == requested

\* A trigger that came after the header saw none restarts the goroutine.
Retriggers == requested /\ stop = "no"

DriveExits ==
  /\ pc = "exit"
  /\ pc' = IF Retriggers THEN "loop" ELSE "off"
  /\ UNCHANGED <<goalVars, attempt, competing, needs, requested, held, loopVars, restVars>>

\* Identities no outstanding message uses.
FreshId ==
  LET used == {inbox[i].id : i \in DOMAIN inbox}
              \cup {m.id : m \in {x \in {cur, attempt, held} : "id" \in DOMAIN x}}
  IN  Min((1 .. Cardinality(used) + 1) \ used)

Round(id) == [kind |-> "round", rev |-> goal.rev, round |-> goal.rounds + 1, id |-> id]

\* The rest of drive, still under the driver's lock: drop a settled attempt
\* and come back, or give up, or block an exhausted goal, or reserve.
Reserves ==
  IF attempt # NoAttempt
  THEN /\ attempt' = NoAttempt
       /\ needs' = TRUE
       /\ requested' = TRUE
       /\ pc' = "loop"
       /\ UNCHANGED held
  ELSE /\ UNCHANGED <<needs, requested>>
       /\ Free
       /\ IF ~Live
          THEN pc' = "loop" /\ UNCHANGED <<attempt, held>>
          ELSE IF goal.rounds >= goal.max
          THEN /\ pc' = "block"
               /\ held' = [kind |-> "ref", rev |-> goal.rev]
               /\ UNCHANGED attempt
          ELSE /\ held' = Round(FreshId)
               /\ attempt' = [phase |-> "queued", rev |-> goal.rev, round |-> goal.rounds + 1,
                              id |-> FreshId, cancelled |-> FALSE, stale |-> FALSE]
               /\ pc' = "followup"

DriveReturns ==
  /\ pc = "drive" /\ ~Ready
  /\ pc' = "loop"
  /\ UNCHANGED <<goalVars, attempt, competing, needs, requested, held, loopVars, restVars>>

DriveCheckpoints ==
  /\ pc = "drive" /\ Ready /\ needs
  /\ needs' = FALSE
  /\ pc' = "flush"
  /\ UNCHANGED <<goalVars, attempt, competing, requested, held, loopVars, restVars>>

DriveGoesOn ==
  /\ pc = "drive" /\ Ready /\ ~needs
  /\ Reserves
  /\ UNCHANGED <<goalVars, competing, loopVars, restVars>>

\* The flush succeeded: what it may have changed is looked at again.
DriveFlushed ==
  /\ pc = "flush"
  /\ IF Ready /\ ~needs
     THEN Reserves
     ELSE pc' = "loop" /\ UNCHANGED <<attempt, needs, requested, held>>
  /\ UNCHANGED <<goalVars, competing, loopVars, restVars>>

\* One of the bounded mishaps; none is explored once the driver is gone.
Spend == spent < MaxFaults /\ stop # "done" /\ spent' = spent + 1 /\ UNCHANGED asked

\* The flush failed, or the inbox refused the round it was sent, which
\* Send reports as an agent error: either way the goal is disarmed.  (The
\* queue-failed block needs an agent without a loop driver.)
DriveFails ==
  /\ pc \in {"flush", "followup"} /\ Free
  /\ Spend
  /\ armed' = Disarmed
  /\ lapsed' = (lapsed \/ PastFence)
  /\ held' = NoMessage
  /\ pc' = "loop"
  /\ UNCHANGED <<goal, folds, mut, notice, attempt, competing, needs, requested, loopVars, stop,
                 slip>>

\* goals.Block on the revision drive saw; a stale one fails drive, and the
\* goal is disarmed.
DriveBlocks ==
  /\ pc = "block" /\ Free
  /\ held' = NoMessage
  /\ IF Shows("active") /\ goal.rev = held.rev
     THEN /\ Begin("block", goal.max, "drive")
          /\ pc' = "blocking"
          /\ UNCHANGED <<armed, lapsed>>
     ELSE /\ armed' = Disarmed
          /\ lapsed' = (lapsed \/ PastFence)
          /\ pc' = "loop"
          /\ UNCHANGED mut
  /\ UNCHANGED <<goal, folds, notice, attempt, competing, needs, requested, loopVars,
                 stop, slip, asked, spent>>

(***************************************************************************)
(* The inbox and the driver's listeners on it.                             *)
(***************************************************************************)
SameRound(m) == attempt # NoAttempt /\ m.rev = attempt.rev /\ m.round = attempt.round
SameQueued(m) == m.kind = "round" /\ SameRound(m)

\* Send: register the wake, splice, and tell the driver (onInboxInserted).
Inserts(m) ==
  /\ inbox' = Append(inbox, m)
  /\ waking' = TRUE
  /\ mut' = Overtakes
  /\ IF SameQueued(m)
     THEN UNCHANGED <<attempt, competing>>
     ELSE /\ competing' = TRUE
          /\ attempt' = IF attempt.phase = "queued" THEN [attempt EXCEPT !.stale = TRUE]
                        ELSE attempt

\* drive queues the round it reserved ...
DriveFollowsUp ==
  /\ pc = "followup"
  /\ Inserts(held)
  /\ held' = NoMessage
  /\ pc' = "wake"
  /\ UNCHANGED <<goal, armed, folds, notice, needs, requested, loop, cur, outcome, signal,
                 ref, restVars>>

\* ... and wakes the loop.  An idle loop opens a turn even when the message is
\* gone by now.
DriveWakes ==
  /\ pc = "wake"
  /\ loop' = IF loop = "idle" THEN "claim" ELSE loop
  /\ pc' = "loop"
  /\ UNCHANGED <<goalVars, attempt, competing, needs, requested, held, inbox, waking, cur,
                 outcome, signal, ref, restVars>>

\* A user's prompt.
Prompt ==
  /\ asked < MaxPrompts /\ stop # "done"
  /\ asked' = asked + 1
  /\ Inserts([kind |-> "prompt", id |-> 0])
  /\ UNCHANGED <<goal, armed, folds, notice, needs, requested, pc, held, loop, cur, outcome,
                 signal, ref, stop, lapsed, slip, spent>>

\* Cancel, keeping the queued input or discarding it (InboxDiscarded).  The
\* wakes owed are forgotten, but an idle loop's wake is already on its way.
Cancels(keep) ==
  /\ LET gone == IF keep THEN <<>> ELSE inbox
     IN  /\ inbox' = IF keep THEN inbox ELSE <<>>
         /\ mut' = IF gone = <<>> THEN mut ELSE Overtakes
         /\ attempt' = IF \E i \in DOMAIN gone : SameQueued(gone[i])
                       THEN [attempt EXCEPT !.cancelled = TRUE] ELSE attempt
  /\ waking' = (waking /\ loop = "idle")
  /\ signal' = (loop # "idle")

Cancel(keep) ==
  /\ Spend
  /\ Cancels(keep)
  /\ UNCHANGED <<goal, armed, folds, notice, competing, needs, requested, pc, held, loop, cur,
                 outcome, ref, stop, lapsed, slip>>

(***************************************************************************)
(* The agent loop and the pre-step fence.                                  *)
(***************************************************************************)
\* A wake outside drive starts the loop: a prompt's, or a replayed one.
Start ==
  /\ loop = "idle" /\ waking /\ pc # "wake"
  /\ loop' = "claim"
  /\ UNCHANGED <<goalVars, driveVars, inbox, waking, cur, outcome, signal, ref, restVars>>

\* The whole activity is over; wakes registered since still replay.
Rests ==
  /\ cur' = NoMessage
  /\ outcome' = "none"
  /\ signal' = FALSE
  /\ loop' = "idle"

\* Open a turn and claim its message (InboxClaimed), unless already cancelled.
Claim ==
  /\ loop = "claim"
  /\ IF signal
     THEN Rests /\ UNCHANGED <<inbox, waking, attempt, mut>>
     ELSE IF inbox = <<>>
     THEN /\ mut' = Overtakes
          /\ loop' = "end" /\ outcome' = "done" /\ waking' = FALSE
          /\ UNCHANGED <<inbox, attempt, cur, signal>>
     ELSE /\ mut' = Overtakes
          /\ cur' = Head(inbox)
          /\ inbox' = Tail(inbox)
          /\ waking' = (waking /\ inbox' # <<>>)
          /\ attempt' = IF SameQueued(cur') THEN [attempt EXCEPT !.phase = "claimed"] ELSE attempt
          /\ loop' = IF cur'.kind = "round" THEN "fence" ELSE "hooks"
          /\ UNCHANGED <<outcome, signal>>
  /\ UNCHANGED <<goal, armed, folds, notice, competing, needs, requested, pc, held, ref,
                 restVars>>

\* validReservation.
Valid ==
  /\ stop = "no"
  /\ attempt.phase = "claimed" /\ ~attempt.stale /\ SameQueued(cur)
  /\ Live /\ goal.rev = cur.rev /\ cur.round = goal.rounds + 1

\* The turn ends without a step; later input stays parked.
Rejected ==
  /\ loop' = "end"
  /\ outcome' = IF signal THEN "aborted" ELSE "blocked"
  /\ waking' = IF signal THEN waking ELSE FALSE

\* The first look at the reservation, before the other pre-step hooks.
Fence ==
  /\ loop = "fence" /\ Free
  /\ IF Valid
     THEN /\ loop' = "hooks"
          /\ UNCHANGED <<outcome, waking, attempt, requested, pc>>
     ELSE /\ attempt' = IF SameRound(cur) THEN NoAttempt ELSE attempt
          /\ Request
          /\ Rejected
  /\ UNCHANGED <<goalVars, competing, needs, held, inbox, cur, signal, ref, restVars>>

\* Mutant: the hooks' decision is trusted without a second look.
RecheckSkipped == TRUE

\* The other hooks let the step in; a round is looked at once more.
Recheck == Valid

HooksEnter ==
  /\ loop = "hooks"
  /\ IF signal \/ cur.kind = "prompt"
     THEN /\ loop' = IF signal THEN "end" ELSE "enter"
          /\ outcome' = IF signal THEN "aborted" ELSE outcome
          /\ UNCHANGED <<waking, attempt, requested, pc, lapsed>>
     ELSE /\ Free
          /\ IF Recheck
             THEN /\ loop' = "enter"
                  /\ lapsed' = FALSE
                  /\ UNCHANGED <<outcome, waking, attempt, requested, pc>>
             ELSE /\ attempt' = NoAttempt
                  /\ Request
                  /\ Rejected
                  /\ UNCHANGED lapsed
  /\ UNCHANGED <<goalVars, competing, needs, held, inbox, cur, signal, ref, stop,
                 slip, asked, spent>>

\* A hook rejects the step: the round's goal is blocked, if still the same.
HooksReject ==
  /\ loop = "hooks" /\ ~signal /\ Free
  /\ Spend
  /\ IF cur.kind = "round"
     THEN /\ attempt' = NoAttempt
          /\ IF Live /\ goal.rev = cur.rev
             THEN loop' = "rejecting" /\ ref' = goal.rev /\ UNCHANGED <<outcome, waking>>
             ELSE Rejected /\ UNCHANGED ref
     ELSE Rejected /\ UNCHANGED <<attempt, ref>>
  /\ UNCHANGED <<goalVars, competing, needs, requested, pc, held, inbox, cur, signal, stop,
                 lapsed, slip>>

\* goals.Block by the loop goroutine: goal/changed reaches the driver at once.
LoopBlocks ==
  /\ loop = "rejecting" /\ Free
  /\ IF Shows("active") /\ goal.rev = ref
     THEN /\ goal' = Snapshot("block", goal.max)
          /\ armed' = FALSE
          /\ needs' = TRUE
          /\ Request
     ELSE UNCHANGED <<goal, armed, needs, requested, pc>>
  /\ Rejected
  /\ ref' = 0
  /\ UNCHANGED <<folds, mut, notice, attempt, competing, held, inbox, cur, signal, restVars>>

\* The message enters the log.  A round must be the next one of the active
\* revision or no fold accepts the log again.
Admits == Shows("active") /\ goal.rev = cur.rev /\ cur.round = goal.rounds + 1
          /\ cur.round <= goal.max

Enter ==
  /\ loop = "enter"
  /\ IF signal
     THEN /\ loop' = "end" /\ outcome' = "aborted"
          /\ UNCHANGED <<goal, folds, mut, attempt, slip>>
     ELSE /\ loop' = "step"
          /\ mut' = Overtakes
          /\ UNCHANGED outcome
          /\ IF cur.kind = "round"
             THEN /\ folds' = Admits
                  /\ goal' = IF Admits THEN [goal EXCEPT !.rounds = cur.round] ELSE goal
                  /\ attempt' = IF attempt # NoAttempt /\ attempt.id = cur.id
                                THEN [attempt EXCEPT !.phase = "admitted"] ELSE attempt
                  /\ slip' = (slip \/ (~(Admits /\ armed) /\ ~lapsed))
             ELSE UNCHANGED <<goal, folds, attempt, slip>>
  /\ lapsed' = FALSE
  /\ UNCHANGED <<armed, notice, competing, needs, requested, pc, held, inbox, waking, cur,
                 signal, ref, stop, asked, spent>>

\* The step ends.
Step(how) ==
  /\ loop = "step"
  /\ IF how = "error" /\ ~signal
     THEN Spend
     ELSE UNCHANGED <<asked, spent>>
  /\ loop' = "end"
  /\ outcome' = IF signal THEN "aborted" ELSE how
  /\ UNCHANGED <<goalVars, driveVars, inbox, waking, cur, signal, ref, stop, lapsed,
                 slip>>

\* The turn-end event: a cancelled round is remembered, any other abort, an
\* exhausted context and an error disarm.
CancelsAttempt == outcome = "aborted" /\ attempt.phase \in {"claimed", "admitted"}
Disarms == outcome \in {"maxTokens", "error"} \/ (outcome = "aborted" /\ ~CancelsAttempt)

TurnEnds ==
  /\ loop = "end" /\ (Disarms => Free)
  /\ mut' = Overtakes
  /\ attempt' = IF CancelsAttempt THEN [attempt EXCEPT !.cancelled = TRUE] ELSE attempt
  /\ armed' = IF Disarms THEN Disarmed ELSE armed
  /\ IF outcome \in {"done", "maxTokens"} /\ inbox # <<>> /\ ~signal
     THEN /\ loop' = "claim" /\ cur' = NoMessage /\ outcome' = "none"
          /\ UNCHANGED <<waking, signal>>
     ELSE /\ Rests
          /\ waking' = IF outcome = "error" \/ (signal /\ outcome # "aborted") THEN FALSE
                       ELSE waking
  /\ UNCHANGED <<goal, folds, notice, competing, needs, requested, pc, held, inbox, ref,
                 restVars>>

(***************************************************************************)
(* Teardown of the driver.                                                 *)
(***************************************************************************)
StopBegins ==
  /\ stop = "no"
  /\ stop' = "closed"
  /\ UNCHANGED <<goalVars, driveVars, loopVars, lapsed, slip, asked, spent>>

\* Disarm and mark the attempt stale.  The turn that may carry it reports an
\* idle status, so it is neither cancelled nor waited for.
StopFences ==
  /\ stop = "closed" /\ Free
  /\ armed' = Disarmed
  /\ lapsed' = (lapsed \/ PastFence)
  /\ stop' = "waiting"
  /\ attempt' = IF attempt = NoAttempt THEN attempt ELSE [attempt EXCEPT !.stale = TRUE]
  /\ UNCHANGED <<goal, folds, mut, notice, competing, needs, requested, pc, held, loopVars,
                 slip, asked, spent>>

\* The drive goroutine is over, and the table of states is cleared.
StopEnds ==
  /\ stop = "waiting"
  /\ pc = "off"
  /\ stop' = "done"
  /\ attempt' = NoAttempt /\ competing' = FALSE /\ needs' = FALSE /\ requested' = FALSE
  /\ UNCHANGED <<goalVars, pc, held, loopVars, lapsed, slip, asked, spent>>

-----------------------------------------------------------------------------
Init ==
  /\ goal = [phase |-> "none", rev |-> 0, rounds |-> 0, max |-> 0]
  /\ armed = FALSE /\ folds = TRUE /\ mut = NoMut /\ notice = FALSE
  /\ attempt = NoAttempt /\ competing = FALSE /\ needs = FALSE /\ requested = FALSE
  /\ pc = "off" /\ held = NoMessage
  /\ inbox = <<>> /\ waking = FALSE /\ loop = "idle" /\ cur = NoMessage
  /\ outcome = "none" /\ signal = FALSE /\ ref = 0
  /\ stop = "no" /\ lapsed = FALSE /\ slip = FALSE
  /\ asked = 0 /\ spent = 0

Client ==
  \/ \E op \in Operations, b \in Budgets : ClientBegins(op, b)
  \/ Prompt
  \/ \E keep \in BOOLEAN : Cancel(keep)
  \/ StopBegins

Drive == \/ DriveNext \/ DriveExits \/ DriveReturns \/ DriveCheckpoints \/ DriveGoesOn
         \/ DriveFlushed \/ DriveFails \/ DriveBlocks \/ DriveFollowsUp \/ DriveWakes

Loop == \/ Start \/ Claim \/ Fence \/ HooksEnter \/ HooksReject \/ LoopBlocks \/ Enter
        \/ \E how \in {"done", "maxTokens", "error"} : Step(how)
        \/ TurnEnds

Next == Client \/ Commits \/ OnChanged \/ Drive \/ Loop \/ StopFences \/ StopEnds

Spec == Init /\ [][Next]_vars

\* Goroutines the code started are scheduled, and calls it made return; a
\* client, a prompt, a cancellation and a teardown need never come.
FairSpec ==
  /\ Spec
  /\ WF_vars(Commits) /\ WF_vars(OnChanged) /\ WF_vars(Drive) /\ WF_vars(Loop)
  /\ WF_vars(StopFences) /\ WF_vars(StopEnds)
-----------------------------------------------------------------------------
Messages == [kind : {"round"}, rev : Nat, round : Nat, id : Nat] \cup [kind : {"prompt"}, id : {0}]

\* The shape of the state: every variable has the type the Go structs give it, and only a current
\* goal is armed.
TypeOK ==
  /\ goal \in [phase : Phases, rev : Nat, rounds : Nat, max : Nat]
  /\ {armed, folds, notice, competing, needs, requested, waking, signal} \subseteq BOOLEAN
  /\ armed => goal.phase # "none"
  /\ attempt = NoAttempt \/ attempt \in
       [phase : {"queued", "claimed", "admitted"}, rev : Nat, round : Nat, id : Nat,
        cancelled : BOOLEAN, stale : BOOLEAN]
  /\ inbox \in Seq(Messages) /\ cur \in Messages \cup {NoMessage}
  /\ loop \in {"idle", "claim", "fence", "hooks", "rejecting", "enter", "step", "end"}
  /\ pc \in {"off", "loop", "exit", "drive", "flush", "followup", "wake", "block", "blocking"}

\* The pre-step fence (validReservation before and after the other hooks): a
\* round enters the log with the exact live revision, the next number and an
\* armed goal, unless that authority was taken away in the window between the
\* second look and the append.
FenceHolds == ~slip

\* Once stop returned nothing automatic is under way that its fence did not
\* reach: no drive goroutine, no round on its way to the inbox, and a round
\* on its way into the log had passed its fence before stop disarmed the goal.
\* (The turn of an admitted round runs on: see StopFences.)
StopLeavesNoDrive ==
  stop = "done" => pc = "off" /\ held = NoMessage /\ (PastFence => lapsed)

\* Strict replay: the log the loop and the goal service write together always
\* folds (goal/fold.go).
LogFolds == folds

\* No trigger is lost: once one came, an armed active goal with no attempt
\* outstanding and no prompt competing has its next round reserved or is
\* blocked, however triggers coalesce and the change, the checkpoint and the
\* exit of the drive goroutine interleave.
Wants == Live /\ attempt = NoAttempt /\ ~competing /\ stop = "no"
TriggersServed == Wants /\ requested ~> ~Wants

\* Teardown returns: the goroutine it waits for ends.
StopReturns == stop = "closed" ~> stop = "done"
=============================================================================
