----------------------------- MODULE AgentDriver -----------------------------
(***************************************************************************)
(* One agent's turn driver (agentloop/driver.go) over its inbox            *)
(* (agent/inbox.go): senders queue messages and wake the driver, the       *)
(* driver goroutine claims them turn by turn and step by step, cancellers  *)
(* abort it, and maintenance tasks borrow the agent between turns.         *)
(*                                                                         *)
(* One action is one critical section of d.mu or of the inbox lock, or one *)
(* unlocked stretch of the driver goroutine.  A message is its identity.   *)
(* The appends of turn and step boundaries carry fixed structures, which   *)
(* Session.Append cannot refuse, so they have no failing branch here.      *)
(***************************************************************************)
EXTENDS Integers, Sequences, FiniteSets, Functions

CONSTANTS
    Messages,        \* the messages that may be sent
    Senders,         \* goroutines that call Send
    Cancelers,       \* goroutines that call Cancel
    KeepInbox,       \* the values of CancelOptions.KeepInbox in use
    MaxCancels,      \* bound: Cancel calls
    MaxMaintenance,  \* bound: RunMaintenance calls
    MaxFaults,       \* bound: failures and pre-step decisions that change the input
    MaxResends       \* bound: sends of a message that is still pending

ASSUME DriverAssumption ==
    /\ KeepInbox \subseteq BOOLEAN
    /\ MaxCancels \in Nat /\ MaxMaintenance \in Nat /\ MaxFaults \in Nat
    /\ MaxResends \in Nat

VARIABLES
    nextTurn, nextStep,   \* the two lists of the inbox
    phase,                \* d.phase: kind, state of goCtx, wakeRequested
    pendingWakes,         \* d.pendingWakes
    status,               \* Agent.status, as published by SetStatus
    drv,                  \* the driver goroutine inside kick and turn
    task,                 \* the goroutine inside RunMaintenance
    rewakes,              \* goroutines past their exit that will call wakeDriver
    snd, cnl,             \* the senders and the cancellers
    openTurn,             \* the session log has a turn/start without its turn/end
    settled,              \* history: messages a step recorded or Cancel cleared
    dropped,              \* history: messages claimed and never recorded
    accepted,             \* history: messages spliced into the inbox
    cancels, tasks, faults, resends  \* counters for the bounds

inboxVars == <<nextTurn, nextStep>>
outcomeVars == <<settled, dropped, accepted>>
boundVars == <<cancels, tasks, faults, resends>>
vars == <<inboxVars, phase, pendingWakes, status, drv, task, rewakes, snd, cnl,
          openTurn, outcomeVars, boundVars>>

Kinds   == {"idle", "maintenance", "running"}
Ctx     == {"live", "cancelled", "ended"}
Targets == {"nextTurn", "nextStep"}
DrvPcs  == {"none", "start", "turn", "loop", "claimed", "step", "stepped",
            "stopping", "recheck", "break", "continue", "endNext", "end",
            "endErr", "exit", "exitErr"}
Sends   == [pc : {"splice", "wake"}, msg : Messages, target : Targets,
            wakeup : BOOLEAN, after : BOOLEAN]

Idle     == [kind |-> "idle", ctx |-> "ended", wakeRequested |-> FALSE]
Phase(kind) == [kind |-> kind, ctx |-> "live", wakeRequested |-> FALSE]
NoDriver == [pc |-> "none", target |-> "nextTurn", first |-> TRUE, claimed |-> <<>>]
NoSend   == [pc |-> "idle"]
NoCancel == [pc |-> "idle", keep |-> FALSE]

HasPending == nextTurn # <<>> \/ nextStep # <<>>
InInbox    == Range(nextTurn) \cup Range(nextStep)
SentNow    == {snd[s].msg : s \in {t \in Senders : snd[t].pc # "idle"}}

\* The types of the state.  KeepInbox, goCtx and the wake latch included.
TypeOK ==
    /\ nextTurn \in Seq(Messages) /\ nextStep \in Seq(Messages)
    /\ phase \in [kind : Kinds, ctx : Ctx, wakeRequested : BOOLEAN]
    /\ pendingWakes \in SUBSET Messages
    /\ status \in {"idle", "running"}
    /\ drv \in [pc : DrvPcs, target : Targets, first : BOOLEAN, claimed : Seq(Messages)]
    /\ task \in {"none", "task", "ending"}
    /\ rewakes \in Nat
    /\ snd \in [Senders -> Sends \cup {NoSend}]
    /\ cnl \in [Cancelers -> [pc : {"idle", "lock", "cancel"}, keep : BOOLEAN]]
    /\ openTurn \in BOOLEAN
    /\ settled \in SUBSET Messages /\ dropped \in SUBSET Messages /\ accepted \in SUBSET Messages
    /\ cancels \in Nat /\ tasks \in Nat /\ faults \in Nat /\ resends \in Nat

Init ==
    /\ nextTurn = <<>> /\ nextStep = <<>>
    /\ phase = Idle
    /\ pendingWakes = {} /\ status = "idle"
    /\ drv = NoDriver /\ task = "none" /\ rewakes = 0
    /\ snd = [s \in Senders |-> NoSend]
    /\ cnl = [c \in Cancelers |-> NoCancel]
    /\ openTurn = FALSE
    /\ settled = {} /\ dropped = {} /\ accepted = {}
    /\ cancels = 0 /\ tasks = 0 /\ faults = 0 /\ resends = 0

Fault == faults < MaxFaults /\ faults' = faults + 1

-----------------------------------------------------------------------------
(* Phases and wakes.                                                       *)

StatusOf(p) == IF p.kind = "running" THEN "running" ELSE "idle"

\* setPhaseLocked publishes a status that differs from the one of the phase it
\* finds in d.phase.
Publish(found, next) ==
    status' = IF StatusOf(found) # StatusOf(next) THEN StatusOf(next) ELSE status

\* context.Cause(goCtx) unwraps to a cancelCauseError, which wakeDriver takes for
\* disposal: every Cancel wraps its cause so, whatever its kind.
Disposed == phase.ctx = "cancelled"

\* mutant: maintenance does not latch the wakes it cannot serve
LatchesAfterAbortOnly(after) == after /\ ~Disposed

Latches(after) == (phase.kind = "maintenance" \/ after) /\ ~Disposed

\* mutant: wakeDriver starts a driver during maintenance too
BusyOnlyRunning == phase.kind = "running"

Busy == phase.kind # "idle"

\* wakeDriver: latch the wake behind the activity there is, or start a driver.
\* The new phase is stored in d.phase before setPhaseLocked compares.
WakeDriver(after) ==
    \/ /\ Busy
       /\ phase' = [phase EXCEPT !.wakeRequested = @ \/ Latches(after)]
       /\ UNCHANGED <<drv, status>>
    \/ /\ ~Busy
       /\ phase' = Phase("running")
       /\ drv' = [NoDriver EXCEPT !.pc = "start"]
       /\ Publish(Phase("running"), Phase("running"))

\* mutant: the goroutine replays a wake whether or not there is one
RewakeAlways ==
    /\ rewakes' = rewakes - 1
    /\ WakeDriver(FALSE)
    /\ UNCHANGED <<inboxVars, pendingWakes, task, snd, cnl, openTurn, outcomeVars,
                   boundVars>>

\* The goroutine that left its activity replays the latched wake.
Rewake ==
    /\ rewakes > 0
    /\ rewakes' = rewakes - 1
    /\ WakeDriver(FALSE)
    /\ UNCHANGED <<inboxVars, pendingWakes, task, snd, cnl, openTurn, outcomeVars,
                   boundVars>>

-----------------------------------------------------------------------------
(* Send: register the wake, splice the message, wake the driver.           *)

\* Callers send fresh messages, or retry one that is still pending.
MaySend(m) ==
    /\ m \notin SentNow \cup settled \cup dropped \cup Range(drv.claimed)
    /\ IF m \in InInbox THEN resends < MaxResends /\ resends' = resends + 1
                         ELSE UNCHANGED resends

WakingAfterAbort(wakeup) == wakeup /\ phase.kind # "idle" /\ phase.ctx # "live"

SendBegins(s, m, target, wakeup) ==
    /\ snd[s].pc = "idle" /\ MaySend(m)
    /\ LET after == WakingAfterAbort(wakeup) IN
       snd' = [snd EXCEPT ![s] =
                 [pc |-> "splice", msg |-> m, wakeup |-> wakeup, after |-> after,
                  target |-> IF after THEN "nextTurn" ELSE target]]
    /\ pendingWakes' = IF wakeup THEN pendingWakes \cup {m} ELSE pendingWakes
    /\ UNCHANGED <<inboxVars, phase, status, drv, task, rewakes, cnl, openTurn,
                   outcomeVars, cancels, tasks, faults>>

\* mutant: validate compares with the target list only
RefusesInTarget(m, target) ==
    m \in IF target = "nextTurn" THEN Range(nextTurn) ELSE Range(nextStep)

\* Inbox.validate: one identity is pending at most once across both lists.
Refuses(m, target) == m \in InInbox

\* Splice at math.MaxInt64: the message goes to the end of the list.
SendSplices(s) ==
    LET m == snd[s].msg IN
    /\ snd[s].pc = "splice" /\ ~Refuses(m, snd[s].target)
    /\ IF snd[s].target = "nextTurn"
       THEN nextTurn' = Append(nextTurn, m) /\ UNCHANGED nextStep
       ELSE nextStep' = Append(nextStep, m) /\ UNCHANGED nextTurn
    /\ snd' = IF snd[s].wakeup THEN [snd EXCEPT ![s].pc = "wake"]
                               ELSE [snd EXCEPT ![s] = NoSend]
    /\ accepted' = accepted \cup {m}
    /\ UNCHANGED <<phase, pendingWakes, status, drv, task, rewakes, cnl, openTurn,
                   settled, dropped, boundVars>>

\* A refused splice takes its wake back (in the code under the lock again).
SendRefused(s) ==
    /\ snd[s].pc = "splice" /\ Refuses(snd[s].msg, snd[s].target)
    /\ pendingWakes' = pendingWakes \ {snd[s].msg}
    /\ snd' = [snd EXCEPT ![s] = NoSend]
    /\ UNCHANGED <<inboxVars, phase, status, drv, task, rewakes, cnl, openTurn,
                   outcomeVars, boundVars>>

SendWakes(s) ==
    /\ snd[s].pc = "wake"
    /\ WakeDriver(snd[s].after)
    /\ snd' = [snd EXCEPT ![s] = NoSend]
    /\ UNCHANGED <<inboxVars, pendingWakes, task, rewakes, cnl, openTurn, outcomeVars,
                   boundVars>>

-----------------------------------------------------------------------------
(* Cancel: clear the inbox, take the wakes back, cancel the context.       *)

CancelBegins(c, keep) ==
    /\ cnl[c].pc = "idle" /\ cancels < MaxCancels
    /\ cancels' = cancels + 1
    /\ cnl' = [cnl EXCEPT ![c] = [pc |-> "lock", keep |-> keep]]
    /\ IF keep THEN UNCHANGED <<inboxVars, settled>>
       ELSE /\ nextStep' = <<>> /\ nextTurn' = <<>>
            /\ settled' = settled \cup InInbox
    /\ UNCHANGED <<phase, pendingWakes, status, drv, task, rewakes, snd, openTurn,
                   dropped, accepted, tasks, faults, resends>>

CancelLocks(c) ==
    /\ cnl[c].pc = "lock"
    /\ pendingWakes' = {}
    /\ phase' = IF ~cnl[c].keep /\ phase.kind # "idle"
                THEN [phase EXCEPT !.wakeRequested = FALSE] ELSE phase
    /\ cnl' = [cnl EXCEPT ![c] = IF phase.kind = "idle" THEN NoCancel
                                 ELSE [@ EXCEPT !.pc = "cancel"]]
    /\ UNCHANGED <<inboxVars, status, drv, task, rewakes, snd, openTurn, outcomeVars,
                   boundVars>>

\* The first cancellation of a context wins.
CancelAborts(c) ==
    /\ cnl[c].pc = "cancel"
    /\ phase' = [phase EXCEPT !.ctx = IF @ = "live" THEN "cancelled" ELSE @]
    /\ cnl' = [cnl EXCEPT ![c] = NoCancel]
    /\ UNCHANGED <<inboxVars, pendingWakes, status, drv, task, rewakes, snd, openTurn,
                   outcomeVars, boundVars>>

\* The cancel function of an activity that is over does nothing any more.
StaleCancels == [c \in Cancelers |-> IF cnl[c].pc = "cancel" THEN NoCancel ELSE cnl[c]]

-----------------------------------------------------------------------------
(* RunMaintenance.                                                         *)

RunMaintenance ==
    /\ phase.kind = "idle" /\ task = "none" /\ tasks < MaxMaintenance
    /\ tasks' = tasks + 1
    /\ task' = "task"
    /\ phase' = Phase("maintenance")
    /\ Publish(phase, Phase("maintenance"))
    /\ UNCHANGED <<inboxVars, pendingWakes, drv, rewakes, snd, cnl, openTurn,
                   outcomeVars, cancels, faults, resends>>

\* The task returns, whatever its outcome, and cancel(nil) ends the context.
TaskReturns ==
    /\ task = "task"
    /\ task' = "ending"
    /\ phase' = [phase EXCEPT !.ctx = IF @ = "live" THEN "ended" ELSE @]
    /\ UNCHANGED <<inboxVars, pendingWakes, status, drv, rewakes, snd, cnl, openTurn,
                   outcomeVars, boundVars>>

MaintenanceEnds ==
    /\ task = "ending"
    /\ task' = "none"
    /\ phase' = Idle
    /\ Publish(phase, Idle)
    /\ rewakes' = rewakes + IF phase.wakeRequested /\ HasPending THEN 1 ELSE 0
    /\ cnl' = StaleCancels
    /\ UNCHANGED <<inboxVars, pendingWakes, drv, snd, openTurn, outcomeVars,
                   boundVars>>

-----------------------------------------------------------------------------
(* The driver goroutine: kick and turn.                                    *)

Live == phase.ctx = "live"
Goto(pc) == drv' = [drv EXCEPT !.pc = pc]

\* The variables only the other goroutines change.
OthersUnchanged == UNCHANGED <<status, task, rewakes, snd, cnl, cancels, tasks, resends>>

\* WithInitiator refuses while the registry closes its initiators.
DriverRefused ==
    /\ drv.pc = "start" /\ Fault
    /\ Goto("exitErr")
    /\ OthersUnchanged
    /\ UNCHANGED <<inboxVars, phase, pendingWakes, openTurn, settled, dropped, accepted>>

TurnRefused ==
    /\ drv.pc \in {"start", "turn"} /\ ~Live
    /\ Goto("exitErr")
    /\ OthersUnchanged
    /\ UNCHANGED <<inboxVars, phase, pendingWakes, openTurn, settled, dropped, accepted, faults>>

TurnBegins ==
    /\ drv.pc \in {"start", "turn"} /\ Live
    /\ openTurn' = TRUE
    /\ drv' = [NoDriver EXCEPT !.pc = "loop"]
    /\ OthersUnchanged
    /\ UNCHANGED <<inboxVars, phase, pendingWakes, settled, dropped, accepted, faults>>

\* signal.Err at the head of the loop and after a step: the turn fails.
Aborts ==
    /\ drv.pc \in {"loop", "stepped", "stopping"} /\ ~Live
    /\ Goto("endErr")
    /\ OthersUnchanged
    /\ UNCHANGED <<inboxVars, phase, pendingWakes, openTurn, settled, dropped, accepted, faults>>

\* mutant: the queued turn is never consumed
ClaimsNoTurn(target) == FALSE

ClaimsTurn(target) == target = "nextTurn" /\ nextTurn # <<>>

\* mutant: the queued turn replaces the steering messages
BatchOfTurn(turns) == IF turns = <<>> THEN nextStep ELSE turns

Batch(turns) == nextStep \o turns

\* Inbox.Claim: every next-step message, and one queued turn at a turn's start.
\* The claimed messages leave the wake bookkeeping.  The look at the context, the
\* claim and the bookkeeping are one action here, three sections in the code.
Claim ==
    LET turns == IF ClaimsTurn(drv.target) THEN <<Head(nextTurn)>> ELSE <<>>
        batch == Batch(turns)
    IN  /\ drv.pc = "loop" /\ Live
        /\ nextStep' = <<>>
        /\ nextTurn' = IF turns = <<>> THEN nextTurn ELSE Tail(nextTurn)
        /\ drv' = [drv EXCEPT !.pc = "claimed", !.claimed = batch]
        /\ pendingWakes' = pendingWakes \ Range(batch)
        /\ OthersUnchanged
        /\ UNCHANGED <<phase, openTurn, settled, dropped, accepted, faults>>

\* A splice of the claim fails: the first one, or the second one when the steering
\* messages are already out of the inbox.
ClaimFails ==
    /\ drv.pc = "loop" /\ Live /\ Fault
    /\ \/ nextStep # <<>> /\ UNCHANGED <<nextStep, dropped>>
       \/ /\ ClaimsTurn(drv.target)
          /\ nextStep' = <<>> /\ dropped' = dropped \cup Range(nextStep)
    /\ Goto("endErr")
    /\ OthersUnchanged
    /\ UNCHANGED <<nextTurn, phase, pendingWakes, openTurn, settled, accepted>>

\* preStep leaves without a step: what it claimed is never recorded.
DropClaimed(pc) ==
    /\ drv' = [drv EXCEPT !.pc = pc, !.claimed = <<>>]
    /\ dropped' = dropped \cup Range(drv.claimed)
    /\ OthersUnchanged
    /\ UNCHANGED <<inboxVars, phase, openTurn, settled, accepted>>

\* The context is cancelled while the prompt is assembled or the pre-step
\* listeners run.
PreStepAborted ==
    /\ drv.pc = "claimed" /\ ~Live
    /\ DropClaimed("endErr") /\ UNCHANGED <<pendingWakes, faults>>

\* Assembling or rendering the prompt fails.
PreStepFails ==
    /\ drv.pc = "claimed" /\ Fault
    /\ DropClaimed("endErr") /\ UNCHANGED pendingWakes

\* A listener rejects: what is pending stays parked.
PreStepRejects ==
    /\ drv.pc = "claimed" /\ Live /\ Fault
    /\ pendingWakes' = {}
    /\ DropClaimed("end")

\* Nothing enters the step: the turn is over, before its first step or after it.
EmptyDecision == DropClaimed(IF drv.first THEN "end" ELSE "break")

NothingClaimed ==
    /\ drv.pc = "claimed" /\ Live /\ drv.claimed = <<>>
    /\ EmptyDecision /\ UNCHANGED <<pendingWakes, faults>>

\* A listener rewrites the decision to empty.
PreStepRewrites ==
    /\ drv.pc = "claimed" /\ Live /\ drv.claimed # <<>> /\ Fault
    /\ EmptyDecision /\ UNCHANGED pendingWakes

\* step/start, then the messages of the decision go to the session log.
EnterStep ==
    /\ drv' = [drv EXCEPT !.pc = "step", !.claimed = <<>>]
    /\ settled' = settled \cup Range(drv.claimed)
    /\ OthersUnchanged
    /\ UNCHANGED <<inboxVars, phase, pendingWakes, openTurn, dropped, accepted>>

StepBegins ==
    /\ drv.pc = "claimed" /\ Live /\ drv.claimed # <<>>
    /\ EnterStep /\ UNCHANGED faults

\* The runtime-context projection, or a listener, adds a message of its own.
ProjectedStep ==
    /\ drv.pc = "claimed" /\ Live /\ drv.claimed = <<>> /\ Fault
    /\ EnterStep

\* The step ends: every successful step sets the turn's ending.
StepReturns ==
    /\ drv.pc = "step"
    /\ Goto("stepped")
    /\ OthersUnchanged
    /\ UNCHANGED <<inboxVars, phase, pendingWakes, openTurn, settled, dropped, accepted, faults>>

\* The step fails, by itself or because its context is cancelled.
StepFails ==
    /\ drv.pc = "step"
    /\ \/ ~Live /\ UNCHANGED faults
       \/ Live /\ Fault
    /\ Goto("endErr")
    /\ OthersUnchanged
    /\ UNCHANGED <<inboxVars, phase, pendingWakes, openTurn, settled, dropped, accepted>>

\* Without steering left, the turn/stopping listeners run first.
Stepped ==
    /\ drv.pc = "stepped" /\ Live
    /\ Goto(IF nextStep = <<>> THEN "stopping" ELSE "recheck")
    /\ OthersUnchanged
    /\ UNCHANGED <<inboxVars, phase, pendingWakes, openTurn, settled, dropped, accepted, faults>>

Stopping ==
    /\ drv.pc = "stopping" /\ Live
    /\ Goto("recheck")
    /\ OthersUnchanged
    /\ UNCHANGED <<inboxVars, phase, pendingWakes, openTurn, settled, dropped, accepted, faults>>

Recheck ==
    /\ drv.pc = "recheck"
    /\ drv' = IF nextStep = <<>> THEN [drv EXCEPT !.pc = "break"]
              ELSE [drv EXCEPT !.pc = "loop", !.target = "nextStep", !.first = FALSE]
    /\ OthersUnchanged
    /\ UNCHANGED <<inboxVars, phase, pendingWakes, openTurn, settled, dropped, accepted, faults>>

Break ==
    /\ drv.pc = "break"
    /\ Goto(IF HasPending THEN "continue" ELSE "end")
    /\ OthersUnchanged
    /\ UNCHANGED <<inboxVars, phase, pendingWakes, openTurn, settled, dropped, accepted, faults>>

\* The live driver claims the queue itself, so the latch is dropped.
Continue ==
    /\ drv.pc = "continue"
    /\ phase' = [phase EXCEPT !.wakeRequested = FALSE]
    /\ Goto("endNext")
    /\ OthersUnchanged
    /\ UNCHANGED <<inboxVars, pendingWakes, openTurn, settled, dropped, accepted, faults>>

\* mutant: a failing turn is left open
TurnEndsClean(pc) == IF pc = "endErr" THEN openTurn ELSE FALSE

StillOpen(pc) == FALSE

\* The deferred append of turn/end.
TurnEnd ==
    /\ drv.pc \in {"endNext", "end", "endErr"}
    /\ openTurn' = StillOpen(drv.pc)
    /\ Goto(CASE drv.pc = "endNext" -> "turn"
              [] drv.pc = "end"     -> "exit"
              [] drv.pc = "endErr"  -> "exitErr")
    /\ OthersUnchanged
    /\ UNCHANGED <<inboxVars, phase, pendingWakes, settled, dropped, accepted, faults>>

\* mutant: only a latched wake restarts the driver
ReplayLatched(wakes) == phase.wakeRequested /\ HasPending

Replay(wakes) == (phase.wakeRequested \/ wakes # {}) /\ HasPending

\* The goroutine retires its phase.  An abnormal exit takes the wakes back.  The
\* idle phase is stored in d.phase before setPhaseLocked compares.
DriverExits ==
    LET wakes == IF drv.pc = "exitErr" THEN {} ELSE pendingWakes IN
    /\ drv.pc \in {"exit", "exitErr"}
    /\ drv' = NoDriver
    /\ pendingWakes' = wakes
    /\ rewakes' = rewakes + IF Replay(wakes) THEN 1 ELSE 0
    /\ phase' = Idle
    /\ Publish(Idle, Idle)
    /\ cnl' = StaleCancels
    /\ UNCHANGED <<inboxVars, task, snd, openTurn, outcomeVars, boundVars>>

-----------------------------------------------------------------------------
SendStep ==
    \E s \in Senders :
        \/ \E m \in Messages, target \in Targets, wakeup \in BOOLEAN :
              SendBegins(s, m, target, wakeup)
        \/ SendSplices(s) \/ SendRefused(s) \/ SendWakes(s)

CancelStep ==
    \E c \in Cancelers :
        \/ \E keep \in KeepInbox : CancelBegins(c, keep)
        \/ CancelLocks(c) \/ CancelAborts(c)

MaintenanceStep == RunMaintenance \/ TaskReturns \/ MaintenanceEnds

PreStep ==
    \/ Claim \/ ClaimFails \/ PreStepAborted \/ PreStepFails \/ PreStepRejects
    \/ NothingClaimed \/ PreStepRewrites

StepStep == StepBegins \/ ProjectedStep \/ StepReturns \/ StepFails

DriverStep ==
    \/ DriverRefused \/ TurnRefused \/ TurnBegins \/ Aborts
    \/ PreStep \/ StepStep
    \/ Stepped \/ Stopping \/ Recheck \/ Break \/ Continue \/ TurnEnd \/ DriverExits

Next == SendStep \/ CancelStep \/ MaintenanceStep \/ DriverStep \/ Rewake

Spec == Init /\ [][Next]_vars

\* Goroutines run: model calls, tools and tasks return, a started Send or Cancel
\* finishes.  Nothing is assumed of who calls what.
Fairness ==
    /\ WF_vars(DriverStep) /\ WF_vars(Rewake)
    /\ WF_vars(TaskReturns \/ MaintenanceEnds)
    /\ \A s \in Senders : WF_vars(SendSplices(s) \/ SendRefused(s) \/ SendWakes(s))
    /\ \A c \in Cancelers : WF_vars(CancelLocks(c) \/ CancelAborts(c))

FairSpec == Spec /\ Fairness

-----------------------------------------------------------------------------
(* Properties.                                                             *)

\* At most one activity owns the agent, and the phase names it: a driver
\* goroutine exists exactly in the running phase, a task exactly in maintenance.
\* The checks "turn without driver reservation", "pre-step outside running
\* phase" and "a driver that was replaced" never find otherwise.
OneActivity ==
    /\ drv.pc # "none" <=> phase.kind = "running"
    /\ task # "none" <=> phase.kind = "maintenance"

\* A turn is open in the log only while its driver is inside it: whatever
\* aborts, fails or rejects, turn/end is written before the driver retires.
TurnsClosed ==
    openTurn <=> drv.pc \in DrvPcs \ {"none", "start", "turn", "exit", "exitErr"}

\* One identity is pending at most once across both lists (Inbox.validate).
PendingOnce ==
    /\ IsInjective(nextTurn) /\ IsInjective(nextStep)
    /\ Range(nextTurn) \cap Range(nextStep) = {}

Quiet ==
    /\ phase.kind = "idle" /\ rewakes = 0
    /\ \A s \in Senders : snd[s].pc = "idle"
    /\ \A c \in Cancelers : cnl[c].pc = "idle"

\* No message whose wake is still owed (pendingWakes) is left in the inbox of an
\* agent at rest: a send that loses the race with the closing turn starts a fresh
\* driver.  Nothing is said of wakes the code has taken back by then: a Cancel
\* (186), a rejected step (433), a failed or aborted activity (325) and a refused
\* retry of the same message (148) do so, and the message parks.  A cancelled
\* maintenance task is excluded: wakeDriver takes every Cancel for disposal and
\* does not latch the wake.
NoParkedWake == Quiet /\ (tasks = 0 \/ cancels = 0) => pendingWakes \cap InInbox = {}

\* As long as nobody cancels, every waking send leaves the wake bookkeeping: it is
\* claimed, or a failure or a rejection takes it back.
WakeServed == \A m \in Messages : m \in pendingWakes ~> (m \notin pendingWakes \/ cancels > 0)

\* The agent always comes to rest again: however sends, cancellations and
\* failures interleave, the driver and the replays of its wakes cannot keep
\* restarting each other.
AgentRests == []<>(phase.kind = "idle" /\ rewakes = 0)

\* No accepted message vanishes between the splice that takes it and the step or
\* the Cancel that disposes of it; one that was claimed and not recorded is the
\* work of a failure or of a cancellation (Inbox.Claim, preStep, Cancel).
Conserved ==
    /\ accepted \subseteq InInbox \cup Range(drv.claimed) \cup settled \cup dropped
    /\ cancels = 0 /\ faults = 0 => dropped = {}
=============================================================================
