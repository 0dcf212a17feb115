# A TLA+ model of the dsh-go runtime core

dsh-go is a Go host runtime for coding agents. A *session* is an append-only log
of events; an *agent* has an inbox and a driver that claims messages from the
inbox, opens turns and steps in the log, calls a model and runs the tools it asks
for; a persistence coordinator writes the log behind the agent's back and repairs
it after a crash. Around that core, agents start background jobs, delegate to child
agents that outlive a turn, and pursue goals through automatic rounds. This directory
models the core (the write path of a session, the driver and its inbox, the tool-call
scheduler, crash recovery) and these three services, checks them with TLC, and proves
the safety properties of all of them with TLAPS, for every value of the constants.

## 1. Inventory

| Part (source) | State | Operations | Talks to |
|---|---|---|---|
| session log (`session/session.go`) | `log`, observers | `Append`: number under the lock, call observers after it | observers hand events to the coordinator |
| write-behind (`session/persistence/writebehind.go`) | `pending`, `timer`, `active`, `activeDone`, `barrierRef`, `deadlineExpired`, `automaticPaused` | `Enqueue`, `Flush`, `CancelAutomaticWait`, deadline, write goroutines | coordinator sink `appendLiveBatch` |
| coordinator (`session/persistence/coordinator.go`) | per-id state and cursor, live map, reservations, retirements | attach, append, prepare, commit, flush, retire, dispose | backends, sessions |
| repair (`session/repair.go`) | none (a fold of the log) | `InterruptedTurnClosers` | coordinator's load |
| inbox (`agent/inbox.go`) | `nextTurn`, `nextStep` | `Splice`, `Claim`, `Clear`, `Replace`, `Remove`, replay | session log (durable splices), driver |
| driver (`agentloop/driver.go`) | `phase`, `pendingWakes`, `activity` | `Send`, `Cancel`, `RunMaintenance`, `wakeDriver`, `kick`, `turn`, `preStep`, `WhenIdle` | inbox, session, step |
| step (`agentloop/step.go`) | the running attempt | one model request after another, then the tool calls | LLM, scheduler |
| tool scheduler (`agentloop/tool-calls.go`) | group, slots, in-flight count | `executeToolCalls`, `runGroup` | tools pipeline, session |
| jobs (`jobs/local.go`, `toolsjobs/delivery.go`) | `store`, `starting`, a record per job, `spent` | `Start`, `Read`, `Kill`, `Wait`, settlement, `DisposeOwner`, `Dispose`; notices with a wake budget | producers, the owner's driver |
| subagents (`subagent/continuation*.go`) | `activations`, child locks, `draining`, `closingScopes` | `StartContinuable`, `Followup`, `ReportFrom`, `Interrupt`, settlement, disposal, three drains | the agents of parent and child |
| goals (`goal/`, `goalrounddriver/driver.go`) | the folded goal and its activation; attempt, `competingQueued`, `needsCheckpoint`, `requested` | seven mutations; drive, pre-step fence, listeners, `stop` | session log, inbox, driver |
| tools, schedules, interaction, gateway, SDK, storage, plugin kernel | see `PROJECT.json` | | not modelled |

`PROJECT.json` lists every component, with the reason where one is left out.

What is hard in this code:

- *Interleavings.* Everything above runs on goroutines with short critical
  sections, and several decisions are taken in one section and carried out in
  another: `onDeadline` decides and starts in two sections, `drainBarrier` sees an
  empty queue and closes its barrier in two, `Cancel` captures a cancel function
  and calls it later, `Send` registers a wake, splices and wakes in three.
- *Failure.* A batch fails after others were queued behind it; a turn has six ways
  to end; a tool panics beside a running pool.
- *Crash.* The process dies between any two events of a turn, or while it writes
  the repair of the last crash.
- *Stale decisions.* A goal round is reserved, checked, handed to hooks and appended
  under four different locks; a child is judged quiet while a message is on its way; a
  wake budget is read and written back in two sections.
- *Progress.* Flush callers wait for writers and for each other; an exiting driver
  must neither strand a late wake nor restart for ever.

## 2. Modules

| Module | Models | Variables ↔ code |
|---|---|---|
| `SessionWriteBehind` | `Session.Append`, attach and initialization of a live session, the write-behind controller, the sink, `FlushSession` | the controller's fields keep their names; `write[w]` is a write goroutine, `drain` the goroutine inside `drainBarrier`, `fired` and `relocking` are `onDeadline` callbacks before and between their two sections, `store` and `cursor` the backend and the coordinator's view of it |
| `AgentDriver` | driver, inbox, senders, cancellers, maintenance | `phase`, `pendingWakes`, `nextTurn`, `nextStep` keep their names; `drv` is the program counter of the goroutine inside `kick`; `rewakes` counts goroutines that retired an activity and will call `wakeDriver`; `snd`, `cnl` are calls of `Send` and `Cancel` in progress |
| `ToolScheduler` | `executeToolCalls`, `runGroup` | `sch` is the driver goroutine (`next`, `started`, `committed`, `aborted` as in the code, counted from the start of the message); `body[i]` is a dispatch, `posted` when its settlement is in the channel |
| `TurnRecovery` | what a live driver writes, crashes, the repair scan, load and commit | `at` is the driver's place in the turn, `stored` the durable log, `scan` the locals of `InterruptedTurnClosers` after the first `read` events, `closers` the repair of the prepared source |
| `JobRegistry` | the job registry of one owner and the delivery of completion notices | `job[j]` is the `tracked` record, `producer[j]` the work behind it, `settling[j]` the `settle` call after its commit, `killing`, `waiter`, `teardown` the calls between their sections; `spent` keeps its name and `seen` is the local copy in `deliver` |
| `SubagentContinuation` | the manager of continuable children over a tree of agents | `act[c]` is the `Activation` (with `disposal` as the place inside `finishDisposal`), `late[c]` a transaction that has removed its `Activation`, `lock` the child lock, `call` deliveries and reports; `agent[c]` is what the manager asks of the child's agent |
| `GoalRounds` | the goal service and the round driver of one agent | `goal`, `armed`, `folds` are the cache of `goal.Service`, `mut` a mutation holding its lock; `attempt`, `competing`, `needs`, `requested` are `driverState`, `pc` the drive goroutine; `loop` is the agent loop as far as the driver hears of it |
| `DurableLog` | the abstract specification of persistence: a log that only grows, by the next events | `appended`, `durable` |
| `*_proofs` | the theorems of section 4, about the module they extend | |
| `MC*` | symmetry sets for TLC | |

One action is one critical section or one unlocked stretch of one goroutine.
`map` in `PROJECT.json` gives the lines of every definition.

The modules meet at four places. `SessionWriteBehind` instantiates `DurableLog` with
`appended <- logLen, durable <- store`; `ImplementsDurableLog` is that refinement. `TurnRecovery.Crash` keeps a prefix of the live
log because that is what `StoreIsLogPrefix` of `SessionWriteBehind` proves.
`AgentDriver` treats a step as returning, failing or being aborted; `ToolScheduler`
is the inside of that step, and its `DrainedOnReturn` is what lets the driver close
the step. The turn and step events `AgentDriver` abstracts to `openTurn` are written
out in `TurnRecovery`.

Abstractions. Events and messages are identities. Timers have no duration: an armed
timer may fire at any time, also after `Stop` lost the race. The appends of turn and
step boundaries cannot fail, because `Session.Append` only refuses malformed data and
these are fixed structures. `Claim` is one critical section of two splices, either of
which may fail (`ClaimFails`). In `AgentDriver`
the action `ProjectedStep` stands for a runtime-context projection or a listener that
adds a message, and context that tools stage in the next-step list is a `Send` without
wake. A cancelled context whose activity has ended is forgotten (`StaleCancels`), as
each activity has a context of its own. In `TurnRecovery` call identifiers are the
assembler's fallback `call-<index>`; the end-seed marker `NewRestored` appends is left
out, as the scan ignores it; a backend write is atomic except for a repair, which a
crash may cut after any event. One pass of the scan's loop is an action; a process that
dies while it scans has changed nothing that is stored, so crashes come before and after
the scan only. In `JobRegistry` the three terminal statuses are one, and
one teardown happens per behaviour. `SubagentContinuation` treats `StartContinuable` and
`Followup` as one delivery that finds the child absent, closing or resident, and lets one
transaction per child at a time be past the removal of its `Activation`. In `GoalRounds`
identity and revision of a goal are one number; steering input, a panicking hook and the
queue failure of an agent without a driver are left out, and nothing new is asked of the
driver once `stop` has returned. The loop publishes no status (observations), so
`Agent.Status()` is idle throughout and the driver's `onStatus` is no action.

Sections of the code that one action merges, where no property tells them apart: the look
at the context, the claim and the pruning of `pendingWakes` (`Claim` of `AgentDriver`,
driver.go:423, 559, 566-570); a refused splice and the withdrawal of its wake
(`SendRefused`, 145-149); the second admission check and the acquisition of ownership of a
new child (`DeliveryOwns`, continuation-manager.go:361-364; the parent is held by the call in
progress). A `Cancel` whose `Clear` is refused (driver.go:178-181) changes nothing and is
left out, and so is a completion notice whose owner is gone (delivery.go:96-98).

## 3. Runs

Bounds are the smallest at which the case each property is about happens: two writers
of every kind so that they overlap, two crashes so that a repair is interrupted, two
messages and two senders so that one arrives while the other is claimed, a parent and a
child with three deliveries so that a second epoch starts while the first is released,
two goal revisions so that a change meets a reserved round. `CHECK_DEADLOCK FALSE`
throughout: an idle agent, a flushed session and a scheduler that returned legitimately
have nothing to do.

| Run | Properties | What it shows |
|---|---|---|
| `write_behind` | `TypeOK NothingLost HeldOnce FlushReturns ImplementsDurableLog` | 2 events, 2 appenders, 2 flush callers, 3 write goroutines, 1 failure, deadlines: nothing is lost or held twice, every flush returns, storage refines the durable log |
| `driver_safety` | `TypeOK OneActivity TurnsClosed PendingOnce NoParkedWake Conserved` | 2 messages, 2 senders, 2 cancellers, maintenance, a fault, a resend: exclusion, closed turns, no duplicate, no message left at rest whose wake is still owed (one that was taken back parks), no message lost without a fault or a cancellation |
| `driver_liveness` | `WakeServed AgentRests` | without cancellation every wake is claimed or taken back; with it, too, the agent always comes back to rest |
| `scheduler` | `TypeOK InModelOrder PoolDiscipline AllAnswered NoFabrication DrainedOnReturn SchedulerReturns` | 4 calls in every mix of modes, pool of 2, 2 registry changes, an abort, a panic, also between two skipped answers: order, pool, one answer for every call unless the scheduler fails, answers of its own only for calls that never ran in an aborted step, no body running after a return unless the scheduler's goroutine panicked |
| `recovery_repair` | `LiveLogNests RepairsOnce` | 2 turns of 2 steps, 2 crashes: what loads is nested and numbered, and needs one repair |
| `jobs` | `TypeOK QuotaKept CompletionKnown WakesBounded DrainedStore TeardownsEnd` | 2 jobs, a limit of 1, a wait, kills, a budget of 1 wake, and one of the two teardowns: the quota holds across the unlocked `Run`, every end is told, the budget holds across its two sections, a teardown ends with everything settled |
| `subagents` | `ParentOutlivesChild NoticeBeforeSettlement SettlesQuiet ResumesIntoNone DrainedForest Released` | a parent and its child, 2 callers, 3 deliveries, one report, interrupt or drain: ownership and notices keep their order, no resume into a registered agent, a drain leaves nothing open, everything is released unless an interrupt left messages in an inbox |
| `goals` | `FenceHolds StopLeavesNoDrive TriggersServed StopReturns` | 2 revisions, a budget of 1 round, a prompt, a mishap, teardown: a round enters only with the authority its fence saw, unless that lapsed after the second look; no trigger is lost on the way to a reservation; `stop` returns and leaves no drive goroutine, and no round that passes its fence later |
| `flush_quiescent` (violation) | `FlushIsQuiescent` | a flush called between the two sections of `onDeadline` returns nil while the event it should have drained is in the write the callback starts |
| `recovery_loadable` (violation) | `CrashIsLoadable` | after a crash inside a tool call the log cannot be loaded: the repair reads the wrong field of the call block |
| `subagents_turn_cut` (violation) | `SettlesAtRest` | a child whose message is claimed is judged settled while its turn runs, because its status never reads running |
| `goals_log_folds` (violation) | `LogFolds` | a change that commits between the second check of a reservation and the append of its message leaves a log that no fold accepts |

Because of `recovery_loadable`, `recovery_repair` speaks of the sessions that load: a
crash with tool calls pending ends in `refused`. `TypeOK` of `TurnRecovery`,
`SubagentContinuation` and `GoalRounds` only documents the shape of their state.

Several properties name an exception in their formula, each a race of the code
described below: `ParentOutlivesChild`, `NoticeBeforeSettlement`, `SettlesQuiet` and
`DrainedForest` ask for `Undisturbed` (no ownership was stolen, which the history `stolen`
records, and `DrainChildren` was not called), `CompletionKnown` names the history
`abandoned`, and `FenceHolds` the window (`lapsed`) that `goals_log_folds` exhibits.
`DrainedOnReturn` leaves out the panic of the scheduler's own goroutine, `NoParkedWake` and
`WakeServed` the wakes that were taken back, `StopLeavesNoDrive` the turn of an admitted
round, `Released` the messages an interrupt parked.

Observations. More disagreements between the code and its comments, and races nobody
promised anything about, follow from the modelled code; they have no run of their own.

Write-behind, driver, scheduler and repair:

- `session.go:237`: two appenders may notify in the opposite order; the batch is refused
  by `appendCore` again at every retry, so storage stays a prefix and stops growing.
- `driver.go:132,270`: wakes to an aborted activity are to be latched. `wakeDriver` takes
  every cancel cause for disposal (278), so such a wake is dropped; `NoParkedWake` and
  `WakeServed` leave that case out.
- `driver.go:54`: "Cancel, rejection, and abnormal" exits consume `pendingWakes`, and a
  refused retry of a pending message removes the wake of its first `Send` (148). What is
  in the inbox then parks until the next waking send, as intended; `NoParkedWake` speaks
  of the wakes that are still owed.
- `agent.go:55`: "KeepInbox preserves queued and steering inbox items". `preStep` returns
  at 576 or 603 without restoring what it claimed durably (559); `Conserved` counts this
  as a loss by cancellation.

- `writebehind.go:200-207`: "a later enqueue starts its own automatic window instead of
  being stranded behind a settled barrier". An event enqueued between the drain's last
  look at the queue (186-189) and the close of the barrier (203) has no timer, no write
  and no barrier until the next enqueue or flush.
- `writebehind.go:210`: "retaining it in order if durability fails". The window between
  the two sections of `onDeadline` lets two writes overlap; when both fail, the later
  batch may be put back in front of the earlier one. `appendCore` then refuses the batch,
  so storage stays a prefix; `HeldOnce` and `NothingLost` hold.
- `agent.go:286`: "The loop driver calls it on every phase swap". `wakeDriver` stores the
  new phase before it calls `setPhaseLocked` (driver.go:294-300, 328-330), which then
  compares the status with itself: the status never becomes running. `Publish` models
  this as it is. Besides settlement (`subagents_turn_cut`) it reaches the wake decision of
  `toolsjobs` (always "idle") and the goal driver, below.
- `tool-calls.go:23-25`: "a scheduler failure is any panic escaped the staged methods,
  recovered into the same drain-then-fail shape". A panic on the driver goroutine is
  recovered by `executeToolCalls` (78-83) without the drain: bodies run on. `SchedulerPanics`
  models this, and `DrainedOnReturn` leaves the place it ends in (`panicked`) out.
- `tool-calls.go:70-72`: an internal failure "fails without fabricating tool results". The
  appends of `appendSkippedToolCall` panic too (308, 335), so after an abort a failure can
  stand behind skipped answers that are already in the log. `NoFabrication` says what holds
  then: those calls never ran, and what ran has its answer before them.
- `repair.go:39`: "unmatched calls receive error results first". A `tool/result` is
  removed from `pendingIndex` (87) and not from `pending`, from which the closers are
  built (103): answered calls get a second result.

Jobs:

- `local.go:489-492` says that "after settlement the terminal snapshot wins so a notice
  suppressed for this waiter is still delivered". A wait whose `select` takes the abort when
  the job has settled too (530-535) returns an error, after it has suppressed the notice.
- `cancelForTeardown` (885-887) writes "stopping" over a status that has become terminal
  while `cancel` ran; a second teardown would then settle the record again and close its
  channel twice. A job that registers while `Dispose` awaits the others is dropped alive
  (`DrainedStore` names it).

Subagents:

- `releaseOwnership` (464) of an old epoch removes the id that the next epoch has just
  registered, after which the parent can settle while the child is live, against the
  comment at 442-444.
- `notifySettlement` (1215) finds the parent by its session id. The notice of an old child
  can thus reach a newer epoch of the parent that is still being created, before it is
  published, and wake it; it may take a child and then be rolled back under it, as
  `rollbackUnpublished` does not look at owned children. This needs an ownership that was
  stolen, or a `DrainChildren` under open admission, and four deliveries: beyond the bound
  of the run, found by the proof of `ParentOutlivesChild`, confirmed by TLC at that bound.
  Hence `Undisturbed`.
- `m.materializations` is never filled, so `Drain` awaits nothing (851). The second
  admission check after creation (361) makes up for it, which `DrainedForest` shows.
- While the agent is idle, `watchSettlement` spins on a closed `WhenIdle` channel as long
  as an owned child is resident. `DrainChildren` that crosses a delivery can leave a
  released id in the owned set (`Released` leaves it out).

Goals:

- `driver.go:81`: "Service installs automatic same-session continuation". With the loop as
  it is no status is published, so `onStatus` never runs: nothing calls `requestDrive` when
  the turn of a round ends, `competingQueued` is never reset after a prompt, and an armed
  goal stands still after each round until a client changes it. The driver's own test says
  "The real loop publishes status transitions outside any driver lock" (`driver_test.go:118`)
  and emits them itself. `TriggersServed` speaks of the triggers that do come.
- `stop` cancels and awaits the turn of an attempt only if the agent's status is running
  (779), which it never is: the turn runs on after `stop` has returned, and a round past its
  fence may still enter the log, of a goal that is disarmed by then.
- A rejecting hook clears whatever attempt is outstanding (708), not just its own round's, as
  the fence does (`sameRound`). If a client changed the goal meanwhile, the newer round stays
  in the inbox without an attempt, and its fence will reject it.
- `Create` and `Resume` are silently disarmed when another event takes the sequence
  number they read before `Append` (`service.go:515`); `Overtakes` and `Settles` model it.

Fairness. `FairSpec` of each module gives weak fairness to goroutines that are under
way: the Go scheduler runs every runnable goroutine. For the sink, model calls,
tools and maintenance tasks it also assumes that they return, one way or the other,
which the code itself waits for without a timeout. No caller is obliged to append,
send, flush or cancel. Weak fairness is enough because each of these goroutines, once
enabled, stays enabled until it steps (Go's mutexes prevent starvation). A delivery to a
subagent gets strong fairness: it queues for the child's lock, which `ChildLock` grants in
order. A producer of a job must end only once it was cancelled (its contract, `Hooks`).

## 4. Proofs

| Module | Theorem: property | Says, for every value of the constants |
|---|---|---|
| `SessionWriteBehind` | `WriteBehindTyping`: `TypeOK` | type correctness |
| | `StoredPrefix` | storage is a gap-free prefix of the session log and the cursor its length |
| | `NoEventLost`: `NothingLost` | every appended event is being notified, held, stored or in the seed |
| | `EventsAreHeldOnce`: `HeldOnce` | queue and unfinished batches never hold an event twice |
| | `RefinesDurableLog`: `ImplementsDurableLog` | `SessionWriteBehind` implements `DurableLog` |
| `AgentDriver` | `DriverTyping`: `TypeOK` | type correctness |
| | `ExclusiveActivity`: `OneActivity` | one driver or one task owns the agent, and the phase names it |
| | `TurnsAlwaysClosed`: `TurnsClosed` | every way out of a turn writes `turn/end` |
| | `NeverPendingTwice`: `PendingOnce` | no message is pending twice |
| | `NoMessageVanishes`: `Conserved` | every accepted message is pending, claimed, settled, or dropped by a fault or a cancellation |
| | `NoWakeIsParked`: `NoParkedWake` | no message whose wake is still owed is left in the inbox of an agent at rest, unless both a task ran and a `Cancel` came; wakes taken back by a `Cancel`, a rejection, a failed or aborted activity or a refused retry are not owed, and their messages park |
| `ToolScheduler` | `SchedulerTyping`: `TypeOK` | the counts of `runGroup` stay within the message |
| | `PoolKeepsItsDiscipline`: `PoolDiscipline` | at most `MaxParallel` bodies, an exclusive one alone |
| | `LogIsInModelOrder`: `InModelOrder` | calls and answers are logged in the order of the message |
| | `EveryCallIsAnswered`: `AllAnswered` | a return, done or aborted, has answered every call |
| | `NothingIsFabricated`: `NoFabrication` | the scheduler answers only calls whose body never ran, after an abort and behind the answers of all that ran; its own panics included |
| | `NothingRunsOn`: `DrainedOnReturn` | nothing runs when the scheduler has returned, unless its own goroutine panicked |
| `JobRegistry` | `RegistryTyping`: `TypeOK` | wait counts stay natural numbers |
| | `QuotaIsKept`: `QuotaKept` | concurrent starts stay within the limit |
| | `CompletionIsKnown`: `CompletionKnown` | somebody is handed the end of every job |
| | `WakesStayWithinBudget`: `WakesBounded` | notices open at most `WakeBudget` turns between two human messages |
| | `StoreIsDrained`: `DrainedStore` | a teardown leaves only settled work |
| `SubagentContinuation` | `ResumesIntoNoAgent`: `ResumesIntoNone` | no delivery creates an agent where one is registered |
| | `TreeHolds` | the inductive invariant below |
| | `ParentsOutliveChildren`: `ParentOutlivesChild` | a published child has its parent resident |
| | `NoticesComeFirst`: `NoticeBeforeSettlement` | a parent does not settle while a child has its notice to deliver |
| | `SettlingDropsNothing`: `SettlesQuiet` | a child that settles by itself discards no accepted message |
| | `DrainLeavesNothing`: `DrainedForest` | after `Drain` everything resident is on its way out |
| `GoalRounds` | `GoalTyping` | type correctness |
| | `RoundsEnterWithAuthority`: `FenceHolds` | a round enters only with the authority its fence saw, unless it lapsed after the second look |
| | `StopEndsTheDrive`: `StopLeavesNoDrive` | `stop` leaves no drive goroutine, no round on its way to the inbox, and none past its fence that had not passed it before |
| `TurnRecovery` | `LiveLogsNest`: `LiveLogNests` | wherever crashes cut the log or a repair, what goes live again nests, with turns numbered in order |
| | `OneRepairIsEnough`: `RepairsOnce` | a log whose repair was committed has nothing left to repair |

Assumptions: only the `ASSUME`s of the modules, which TLC evaluates on the instances of
the runs. Bounds are naturals; `NoWrite`, `NoJob`, `NoCaller` and the like are no members
of their sets; jobs, waits, children and callers are finitely many (they are counted);
`Parent` makes the children a forest under `Root`, as a session's durable parent exists
before it. All other sets and bounds are arbitrary.

*Write-behind.* `StoreIsLogPrefix` is not inductive: a batch reaches the sink long
after it was taken, so the proof needs that whatever is notified, pending or in a
write was appended (`e < logLen`), and that the seed snapshot is no longer than the
log. `appendCore`'s contiguity check then does the rest: a batch that was overtaken is
refused, never written with a gap. `NothingLost` adds that retention puts back exactly
the batch that failed, and that the filter of `appendLiveBatch` drops only events below
the cursor, which `StoreIsLogPrefix` places in storage. `HeldOnce` needs the same of what
is still to be notified (`OnceInv`).

*Refinement.* `RefinesDurableLog` maps the session's append to `AppendEvent`, a write of
the sink and a successful initialization to `Persist`, and every other step to a
stutter. It needs `StoreIsLogPrefix` before and after the step: two gap-free prefixes, the
later one no shorter, differ by the next events only.

*Driver.* `OneActivity` says what the phase means, `TurnsClosed` where a turn may be
open; the inductive invariant is `Exclusion`, their conjunction with `TypeOK`: an
activity starts only from the idle phase, where by `OneActivity` there is no goroutine
to displace, and a driver starts at a place where by `TurnsClosed` no turn is open.
`PendingOnce` is inductive over `TypeOK`; it rests on lemmas on what appending to and
taking the tail of an injective sequence does. `Conserved` needs `Exclusion` and two more
facts: outside a step the driver's hands are empty, and a cancelled context means that a
cancellation was counted. `NoParkedWake` says nothing of an agent that is busy, so it is
far from inductive. `WakeInv` follows a wake from its registration: it is in the inbox, on
its way in or about to be taken back (`PlacedInv`), and somebody attends to it (`AttendedInv`):
the running driver, a sender or retired activity about to call `wakeDriver`, or the latch
of the maintenance task.

*Scheduler.* The inductive invariant `SchedulerInv` has three parts beside `TypeOK`: the
order of `next`, `committed`, `started` and `last` at each place (`CountsInv`), what a body
may be doing given where its call stands between those counts (`BodyInv`), and that the
group is still what its first call was read as, however the registry changes (`GroupInv`).
`RoomInv` adds the free slot of the call being prepared, `LogInv` what the log holds given
the counts.

*Jobs.* A job's wait count is the number of its waits (`WaitInv`) and a teardown works on
its own snapshot, one claimed job after the other (`TeardownShape`). On these rest `WakeInv`
(what a delivery has read bounds the wakes, refill or not), `EndInv` (a settled job has
ended, and the status a teardown writes over it does not settle it again) and `ReportInv`
(the report is taken only by somebody who was told or waits). `QuotaKept` counts
reservations and live jobs together as one set.

*Subagents.* `ResidenceInv` holds always: an agent is registered exactly while its
`Activation` is in the map and its handle not disposed; a delivery past its first look
holds the child's lock and the epoch it found; a tool call is made in a running turn of its
issuer; a notice is addressed to an epoch that has existed. `TreeInv` holds while the forest
is undisturbed: an unpublished epoch, and one whose first message is not sent yet, is
untouched; while admission is open only the watcher and a rollback dispose of a child; a
published child is in the owned set of its resident parent, and among the children the
parent waits for once it closes (`AttachedAt`); a child with a notice to deliver is still
counted (`AccountableAt`). The parts need each other: a rollback strands no child only
because the epoch is untouched, and it is untouched only because a notice to it would
find its sender still owned. `DrainedForest` adds that every published child hangs from a
root the drain has chosen, by the forest assumption. `SettlesQuiet` adds `Counted`: inbox,
notices and reports on their way are together no more than the accepted ids.

*Goals.* A round carries a revision the goal has had, with a number its budget allowed
(`ReservedInv`); while a round is past its fence, a mutation under way carries the fold's
counters and the round is the next one of the live, armed revision, unless authority
lapsed (`FenceInv`). For the teardown, only the drive goroutine carries a message or a
mutation of its own, and it is started only while the service is open (`StopInv`).

*Recovery.* The properties say where an event may stand by counting the starts and ends
before it (`Placed`), not in terms of the scan. `RecoveryInv` relates the two: the
driver's place is what its log leaves open (`LiveInv`); what is stored always nests
(`StoredInv`), since nesting passes to every prefix, of the live log or of a log with its
repair; after each pass of the loop the scan's turn and step are the ones open in the
events read, and calls are pending only in an open step (`ScanInv`). The closers then
stand in their places by counting alone: any number of results, at most one step end, the
turn end (`PreparedInv`). Closed and open exclude each other, so the scan of a repaired log
ends with no turn (`CommitInv`). Lemmas about the counts (one more event, equal
prefixes, a stretch without boundaries) take the place of an induction over the log. The
theorems cover every crash and every call, but of sessions that load: with a call pending
the load ends in `refused` (`recovery_loadable`).

Each inductive invariant was first checked with TLC as an invariant of the runs' modules.

Model-checked only: liveness and the violations. `ENABLED` and fairness are outside the
prover's reach.

## 5. Plan

1. `AgentInbox`: the splice arithmetic and its clamping, `Replace`, `Remove`,
   `Prepend`, and the replay of durable splices shown to rebuild the live lists.
   `WhenIdle` in `AgentDriver` (maintenance closes its channel before the replayed wake
   starts a driver).
2. `Preparations`: concurrent loads, reservations, retirement and the id chains of the
   coordinator; `RetireSession` publishes its record only after the drain, so a load may
   overtake it.
3. A crash model of the jsonl backend (append without sync, repair as truncate and
   append), composed with `TurnRecovery`.
4. The tools pipeline, schedules, interaction, gateway streams.

## 6. Not modelled

Text, prompts, wire formats, provider protocols, session-format migrations, files,
processes and the browser client: data and I/O without a protocol of their own.
`PROJECT.json` gives the reason for each.
