------------------------- MODULE SessionWriteBehind -------------------------
(***************************************************************************)
(* The write path of one live session: Session.Append numbers an event     *)
(* under the session lock and tells its observers after releasing it; the  *)
(* observer hands the event to the session's write-behind controller       *)
(* (session/persistence/writebehind.go), which batches events behind a     *)
(* deadline and writes them through the coordinator's appendLiveBatch; a   *)
(* flush barrier drains the controller on demand.                          *)
(*                                                                         *)
(* One action is one critical section (of w.mu, or of the per-session      *)
(* chain for the sink), so every interleaving of appenders, timer          *)
(* callbacks, write goroutines and flush callers is explored.  Events are  *)
(* their sequence numbers.                                                 *)
(***************************************************************************)
EXTENDS Integers, Sequences, FiniteSets, Functions

CONSTANTS
    SeedEvents,    \* events the session was constructed with (never notified)
    MaxEvents,     \* bound: length of the session log
    MaxAppenders,  \* how many goroutines may be inside Append at once
    Callers,       \* goroutines that call FlushSession
    MaxFlushes,    \* bound: FlushSession calls
    Writes,        \* bound: write goroutines alive at once
    NoWrite,       \* the nil activeDone channel
    MaxFailures    \* bound: failures of the backend

ASSUME WriteBehindAssumption ==
    /\ SeedEvents \in Nat /\ MaxEvents \in Nat /\ SeedEvents <= MaxEvents
    /\ MaxAppenders \in Nat /\ MaxFlushes \in Nat /\ MaxFailures \in Nat
    /\ NoWrite \notin Writes

VARIABLES
    logLen,          \* length of the session's in-memory log
    notifying,       \* events appended whose observer call has not run yet
    init,            \* live.initDone / live.initErr
    seed,            \* length of the snapshot AttachLive took
    store,           \* the durable log
    cursor,          \* state.cursor: how long the coordinator believes it is
    pending, timer, active, activeDone, barrierRef, deadlineExpired,
    automaticPaused, lastForegroundErr,  \* the fields of SessionWriteBehind
    orphans,         \* armed timers no field refers to any more
    fired,           \* onDeadline callbacks that wait for the lock
    relocking,       \* onDeadline callbacks between their two lock sections
    write,           \* the write goroutines
    drain,           \* the goroutine inside drainBarrier
    caller,          \* the flush callers
    acked,           \* history: events a successful flush answered for
    failures, flushes   \* counters for the bounds

sessionVars == <<logLen, notifying>>
coordVars   == <<init, seed, store, cursor>>
timerVars   == <<timer, orphans, fired, relocking>>
boundVars   == <<failures, flushes>>
vars == <<sessionVars, coordVars, pending, active, activeDone, barrierRef,
          deadlineExpired, automaticPaused, lastForegroundErr, timerVars,
          write, drain, caller, acked, boundVars>>

-----------------------------------------------------------------------------
Events    == 0 .. MaxEvents - 1

NoBatch == [stage |-> "none", batch |-> <<>>, background |-> FALSE]
WriteStages == {"none", "sink", "ok", "err", "closing", "closingErr", "continue"}
WriteRecord == [stage : WriteStages, batch : Seq(Events), background : BOOLEAN]

DrainPcs  == {"none", "check", "await", "awaited", "drain", "write", "written",
              "settle", "settleErr"}
CallerPcs == {"idle", "init", "barrier"}

\* The batches whose write has not succeeded, and everything the controller holds.
Unsettled == {w \in Writes : write[w].stage \in {"sink", "err"}}
InFlight  == UNION {Range(write[w].batch) : w \in Unsettled}
Held      == Range(pending) \cup InFlight

\* The types of the state: fields of the controller, goroutines and counters.
TypeOK ==
    /\ logLen \in 0 .. MaxEvents
    /\ notifying \in SUBSET Events
    /\ init \in {"none", "running", "ok", "failed"}
    /\ seed \in 0 .. MaxEvents
    /\ store \in Seq(Events)
    /\ cursor \in Nat
    /\ pending \in Seq(Events)
    /\ timer \in BOOLEAN /\ active \in BOOLEAN /\ barrierRef \in BOOLEAN
    /\ deadlineExpired \in BOOLEAN /\ automaticPaused \in BOOLEAN
    /\ lastForegroundErr \in BOOLEAN
    /\ activeDone \in Writes \cup {NoWrite}
    /\ orphans \in Nat /\ fired \in Nat /\ relocking \in Nat
    /\ write \in [Writes -> WriteRecord]
    /\ drain \in [pc : DrainPcs, on : Writes \cup {NoWrite}]
    /\ caller \in [Callers -> [pc : CallerPcs, due : SUBSET Events]]
    /\ acked \in SUBSET Events
    /\ failures \in Nat /\ flushes \in Nat

Init ==
    /\ logLen = SeedEvents /\ notifying = {}
    /\ init = "none" /\ seed = 0
    /\ store = <<>> /\ cursor = 0
    /\ pending = <<>>
    /\ timer = FALSE /\ active = FALSE /\ activeDone = NoWrite
    /\ barrierRef = FALSE /\ deadlineExpired = FALSE
    /\ automaticPaused = FALSE /\ lastForegroundErr = FALSE
    /\ orphans = 0 /\ fired = 0 /\ relocking = 0
    /\ write = [w \in Writes |-> NoBatch]
    /\ drain = [pc |-> "none", on |-> NoWrite]
    /\ caller = [c \in Callers |-> [pc |-> "idle", due |-> {}]]
    /\ acked = {} /\ failures = 0 /\ flushes = 0

-----------------------------------------------------------------------------
(* The session and the coordinator.                                        *)

controllerVars == <<pending, active, activeDone, barrierRef, deadlineExpired,
                    automaticPaused, lastForegroundErr, timerVars>>

\* Session.Append: the event gets the next sequence number under s.mu; its
\* observers run after the lock is released, so appenders may overtake each other.
SessionAppend ==
    /\ logLen < MaxEvents
    /\ Cardinality(notifying) < MaxAppenders
    /\ notifying' = notifying \cup {logLen}
    /\ logLen' = logLen + 1
    /\ UNCHANGED <<coordVars, controllerVars, write, drain, caller, acked, boundVars>>

\* mutant: the snapshot leaves out the newest event
SnapshotMissesLast == logLen - 1

\* The snapshot sess.Events() that initLiveState takes as the seed.
Snapshot == logLen

\* AttachLive / initLiveState: the controller is created with a snapshot of the
\* log as its seed; onCreated runs behind it.
AttachLive ==
    /\ init = "none"
    /\ init' = "running"
    /\ seed' = Snapshot
    /\ UNCHANGED <<sessionVars, store, cursor, controllerVars, write, drain,
                   caller, acked, boundVars>>

\* The events lo, lo+1, .., hi-1 as a batch.
Batch(lo, hi) == [i \in 1 .. hi - lo |-> lo + i - 1]

\* onCreated for a session with no stored artifact: the seed is appended whole.
\* A failure is remembered in initErr and fails every later write.
InitializeOk ==
    /\ init = "running"
    /\ init' = "ok"
    /\ store' = Batch(0, seed)
    /\ cursor' = seed
    /\ UNCHANGED <<sessionVars, seed, controllerVars, write, drain, caller,
                   acked, boundVars>>

InitializeFails ==
    /\ init = "running"
    /\ failures < MaxFailures
    /\ failures' = failures + 1
    /\ init' = "failed"
    /\ UNCHANGED <<sessionVars, seed, store, cursor, controllerVars, write,
                   drain, caller, acked, flushes>>

-----------------------------------------------------------------------------
(* The controller: Enqueue, the deadline, and startWriteLocked.            *)

\* armTimerLocked: a timer already armed is stopped and replaced.
ArmTimer == timer' = TRUE

\* NotifySessionEvent -> Enqueue, in its critical section.
Enqueue(e) ==
    /\ e \in notifying
    /\ init # "none"
    /\ notifying' = notifying \ {e}
    /\ pending' = Append(pending, e)
    /\ \/ /\ barrierRef
          /\ UNCHANGED <<timer, automaticPaused, deadlineExpired>>
       \/ /\ ~barrierRef /\ automaticPaused
          /\ automaticPaused' = FALSE
          /\ deadlineExpired' = FALSE
          /\ ArmTimer
       \/ /\ ~barrierRef /\ ~automaticPaused
          /\ IF pending = <<>> THEN ArmTimer ELSE UNCHANGED timer
          /\ UNCHANGED <<automaticPaused, deadlineExpired>>
    /\ UNCHANGED <<logLen, coordVars, active, activeDone, barrierRef,
                   lastForegroundErr, orphans, fired, relocking, write, drain,
                   caller, acked, boundVars>>

\* The runtime's timer expires and its callback goroutine starts.  Stop has no
\* effect on it from here on: the callback runs however stale it has become.
TimerFires ==
    /\ fired' = fired + 1
    /\ \/ timer /\ timer' = FALSE /\ UNCHANGED orphans
       \/ orphans > 0 /\ orphans' = orphans - 1 /\ UNCHANGED timer
    /\ UNCHANGED <<sessionVars, coordVars, pending, active, activeDone, barrierRef,
                   deadlineExpired, automaticPaused, lastForegroundErr,
                   relocking, write, drain, caller, acked, boundVars>>

\* onDeadline, first critical section.  It clears w.timer even when a newer
\* timer is stored there, which then can no longer be cancelled.
OnDeadline ==
    /\ fired > 0
    /\ fired' = fired - 1
    /\ timer' = FALSE
    /\ orphans' = IF timer THEN orphans + 1 ELSE orphans
    /\ \/ active /\ deadlineExpired' = TRUE /\ UNCHANGED relocking
       \/ ~active /\ relocking' = relocking + 1 /\ UNCHANGED deadlineExpired
    /\ UNCHANGED <<sessionVars, coordVars, pending, active, activeDone, barrierRef,
                   automaticPaused, lastForegroundErr, write, drain, caller,
                   acked, boundVars>>

\* mutant: startWriteLocked does not reset w.pending
KeepsPending == pending

\* What startWriteLocked leaves in w.pending.
LeftPending == <<>>

\* startWriteLocked: take all of pending as one batch and start its goroutine.
StartWrite(w, background) ==
    /\ write[w] = NoBatch
    /\ write' = [write EXCEPT ![w] = [stage |-> "sink", batch |-> pending,
                                      background |-> background]]
    /\ pending' = LeftPending
    /\ timer' = FALSE
    /\ deadlineExpired' = FALSE
    /\ active' = TRUE
    /\ activeDone' = w

\* onDeadline, second critical section: nothing is looked at again.
OnDeadlineStart(w) ==
    /\ relocking > 0
    /\ relocking' = relocking - 1
    /\ StartWrite(w, TRUE)
    /\ UNCHANGED <<sessionVars, coordVars, barrierRef, automaticPaused,
                   lastForegroundErr, orphans, fired, drain, caller, acked, boundVars>>

-----------------------------------------------------------------------------
(* The write goroutine.                                                    *)

SinkVars == <<sessionVars, init, seed, controllerVars, drain, caller, acked, flushes>>

\* What appendLiveBatch and appendCore do with a batch: the events the store does
\* not hold yet (initialization may have stored the others) must be cursor,
\* cursor+1, .., cursor+n-1 in this order.
FreshIn(batch) == {i \in DOMAIN batch : batch[i] >= cursor}

Continues(batch, n) ==
    /\ {batch[i] : i \in FreshIn(batch)} = cursor .. cursor + n - 1
    /\ \A i, j \in FreshIn(batch) : i < j => batch[i] < batch[j]

\* mutant: appendCore without its contiguity check
SinkWritesUnchecked(w) ==
    /\ write[w].stage = "sink"
    /\ init = "ok"
    /\ LET fresh == SelectSeq(write[w].batch, LAMBDA e : e >= cursor) IN
         /\ store' = store \o fresh
         /\ cursor' = cursor + Len(fresh)
    /\ write' = [write EXCEPT ![w].stage = "ok"]
    /\ UNCHANGED <<SinkVars, failures>>

\* The sink succeeds: options.Write -> serialize -> appendLiveBatch -> appendCore.
SinkWrites(w) ==
    /\ write[w].stage = "sink"
    /\ init = "ok"
    /\ \E n \in 0 .. Len(write[w].batch) :
         /\ Continues(write[w].batch, n)
         /\ store' = store \o Batch(cursor, cursor + n)
         /\ cursor' = cursor + n
    /\ write' = [write EXCEPT ![w].stage = "ok"]
    /\ UNCHANGED <<SinkVars, failures>>

\* The sink refuses: initialization failed, or the batch does not continue the log.
SinkRefuses(w) ==
    /\ write[w].stage = "sink"
    /\ \/ init = "failed"
       \/ /\ init = "ok"
          /\ ~\E n \in 0 .. Len(write[w].batch) : Continues(write[w].batch, n)
    /\ write' = [write EXCEPT ![w].stage = "err"]
    /\ UNCHANGED <<SinkVars, store, cursor, failures>>

\* The backend fails (or the sink panics); the cursor does not move.  An empty
\* batch returns before it reaches the backend.
SinkFails(w) ==
    /\ write[w].stage = "sink"
    /\ init = "ok"
    /\ \E n \in 1 .. Len(write[w].batch) : Continues(write[w].batch, n)
    /\ failures < MaxFailures
    /\ failures' = failures + 1
    /\ write' = [write EXCEPT ![w].stage = "err"]
    /\ UNCHANGED <<SinkVars, store, cursor>>

\* mutant: a failed batch is dropped
DropFailed(batch) == pending

\* The queue after a failed write.
RetainFailed(batch) == batch \o pending

\* The goroutine's critical section after the write.  On a failure the batch goes
\* back in front of pending and the automatic path pauses.
SettleOk(w) ==
    /\ write[w].stage = "ok"
    /\ active' = FALSE
    /\ activeDone' = NoWrite
    /\ write' = [write EXCEPT ![w].stage = "closing", ![w].batch = <<>>]
    /\ UNCHANGED <<sessionVars, coordVars, pending, barrierRef, deadlineExpired,
                   automaticPaused, lastForegroundErr, timerVars, drain, caller,
                   acked, boundVars>>

SettleErr(w) ==
    /\ write[w].stage = "err"
    /\ active' = FALSE
    /\ activeDone' = NoWrite
    /\ pending' = RetainFailed(write[w].batch)
    /\ timer' = FALSE
    /\ deadlineExpired' = FALSE
    /\ automaticPaused' = TRUE
    /\ lastForegroundErr' = (lastForegroundErr \/ ~write[w].background)
    /\ write' = [write EXCEPT ![w].stage = "closingErr", ![w].batch = <<>>]
    /\ UNCHANGED <<sessionVars, coordVars, barrierRef, orphans, fired, relocking,
                   drain, caller, acked, boundVars>>

\* mutant: the failure path returns without close(done)
WakesOnSuccess(w) == drain.on = w /\ write[w].stage = "closing"

\* The drain waits on this write's channel.
Wakes(w) == drain.on = w

\* close(done): a drain that waits on this channel wakes up.
CloseDone(w) ==
    /\ write[w].stage \in {"closing", "closingErr"}
    /\ write' = [write EXCEPT ![w] =
           IF write[w].stage = "closing" /\ write[w].background
           THEN [@ EXCEPT !.stage = "continue"] ELSE NoBatch]
    /\ drain' = CASE Wakes(w) /\ drain.pc = "await" ->
                         [pc |-> "awaited", on |-> NoWrite]
                  [] Wakes(w) /\ drain.pc = "write" ->
                         [pc |-> "written", on |-> NoWrite]
                  [] OTHER -> drain
    /\ UNCHANGED <<sessionVars, coordVars, controllerVars, caller, acked, boundVars>>

\* continueAutomaticLocked, in a critical section of its own: the goroutine ends,
\* and a background write whose deadline passed meanwhile starts in a new one.
ContinueAutomaticStops(w) ==
    /\ write[w].stage = "continue"
    /\ barrierRef \/ pending = <<>> \/ ~deadlineExpired
    /\ write' = [write EXCEPT ![w] = NoBatch]
    /\ UNCHANGED <<sessionVars, coordVars, controllerVars, drain, caller, acked, boundVars>>

ContinueAutomaticStarts(w, next) ==
    /\ write[w].stage = "continue"
    /\ ~barrierRef /\ pending # <<>> /\ deadlineExpired
    /\ write[next] = NoBatch
    /\ write' = [write EXCEPT ![w] = NoBatch,
                              ![next] = [stage |-> "sink", batch |-> pending,
                                         background |-> TRUE]]
    /\ pending' = LeftPending
    /\ timer' = FALSE
    /\ deadlineExpired' = FALSE
    /\ active' = TRUE
    /\ activeDone' = next
    /\ UNCHANGED <<sessionVars, coordVars, barrierRef, automaticPaused,
                   lastForegroundErr, orphans, fired, relocking, drain, caller,
                   acked, boundVars>>

-----------------------------------------------------------------------------
(* FlushSession, Flush and drainBarrier.                                   *)

\* FlushSession: attach if nobody has, and CancelAutomaticWait.
FlushSession(c) ==
    /\ caller[c].pc = "idle"
    /\ flushes < MaxFlushes
    /\ flushes' = flushes + 1
    /\ caller' = [caller EXCEPT ![c].pc = "init"]
    /\ IF init = "none"
       THEN init' = "running" /\ seed' = Snapshot
       ELSE UNCHANGED <<init, seed>>
    /\ timer' = FALSE
    /\ deadlineExpired' = FALSE
    /\ UNCHANGED <<sessionVars, store, cursor, pending, active, activeDone,
                   barrierRef, automaticPaused, lastForegroundErr, orphans, fired,
                   relocking, write, drain, acked, failures>>

\* Initialization failed: FlushSession cancels the wait again and returns initErr.
FlushInitFailed(c) ==
    /\ caller[c].pc = "init"
    /\ init = "failed"
    /\ caller' = [caller EXCEPT ![c].pc = "idle"]
    /\ timer' = FALSE
    /\ deadlineExpired' = FALSE
    /\ UNCHANGED <<sessionVars, coordVars, pending, active, activeDone, barrierRef,
                   automaticPaused, lastForegroundErr, orphans, fired, relocking,
                   write, drain, acked, boundVars>>

\* Flush joins the barrier there is ...
FlushJoins(c) ==
    /\ caller[c].pc = "init"
    /\ init = "ok"
    /\ barrierRef
    /\ caller' = [caller EXCEPT ![c] = [pc |-> "barrier", due |-> Held]]
    /\ UNCHANGED <<sessionVars, coordVars, controllerVars, write, drain, acked, boundVars>>

\* ... or installs its own and drains it.
FlushBegins(c) ==
    /\ caller[c].pc = "init"
    /\ init = "ok"
    /\ ~barrierRef
    /\ caller' = [caller EXCEPT ![c] = [pc |-> "barrier", due |-> Held]]
    /\ timer' = FALSE
    /\ deadlineExpired' = FALSE
    /\ automaticPaused' = FALSE
    /\ barrierRef' = TRUE
    /\ drain' = [pc |-> "check", on |-> NoWrite]
    /\ UNCHANGED <<sessionVars, coordVars, pending, active, activeDone,
                   lastForegroundErr, orphans, fired, relocking, write, acked, boundVars>>

DrainStep(from, to) ==
    /\ drain.pc = from
    /\ drain' = [pc |-> to, on |-> NoWrite]

\* First loop of drainBarrier: wait for a write that was already active.
DrainCheck ==
    /\ drain.pc = "check"
    /\ drain' = IF activeDone = NoWrite THEN [pc |-> "drain", on |-> NoWrite]
                                        ELSE [pc |-> "await", on |-> activeDone]
    /\ UNCHANGED <<sessionVars, coordVars, controllerVars, write, caller, acked, boundVars>>

DrainAwaited ==
    /\ DrainStep("awaited", "check")
    /\ automaticPaused' = FALSE
    /\ UNCHANGED <<sessionVars, coordVars, pending, active, activeDone, barrierRef,
                   deadlineExpired, lastForegroundErr, timerVars, write, caller,
                   acked, boundVars>>

\* Second loop: write what is pending until nothing is, or a write fails.
DrainWrite(w) ==
    /\ drain.pc = "drain"
    /\ pending # <<>>
    /\ lastForegroundErr' = FALSE
    /\ StartWrite(w, FALSE)
    /\ drain' = [pc |-> "write", on |-> w]
    /\ UNCHANGED <<sessionVars, coordVars, barrierRef, automaticPaused, orphans,
                   fired, relocking, caller, acked, boundVars>>

DrainWritten ==
    /\ DrainStep("written", IF lastForegroundErr THEN "settleErr" ELSE "drain")
    /\ lastForegroundErr' = FALSE
    /\ UNCHANGED <<sessionVars, coordVars, pending, active, activeDone, barrierRef,
                   deadlineExpired, automaticPaused, timerVars, write, caller,
                   acked, boundVars>>

\* pending is seen empty in one critical section ...
DrainEmpty ==
    /\ pending = <<>>
    /\ DrainStep("drain", "settle")
    /\ UNCHANGED <<sessionVars, coordVars, controllerVars, write, caller, acked, boundVars>>

\* ... and the barrier is closed in another.  Every caller of it returns.
DrainSettle ==
    /\ drain.pc \in {"settle", "settleErr"}
    /\ drain' = [pc |-> "none", on |-> NoWrite]
    /\ barrierRef' = FALSE
    /\ acked' = IF drain.pc = "settle"
                THEN acked \cup UNION {caller[c].due : c \in Callers} ELSE acked
    /\ caller' = [c \in Callers |-> IF caller[c].pc = "barrier"
                                    THEN [pc |-> "idle", due |-> {}] ELSE caller[c]]
    /\ UNCHANGED <<sessionVars, coordVars, pending, active, activeDone,
                   deadlineExpired, automaticPaused, lastForegroundErr, timerVars,
                   write, boundVars>>

-----------------------------------------------------------------------------
WriteStep(w) ==
    \/ SinkWrites(w) \/ SinkRefuses(w) \/ SinkFails(w)
    \/ SettleOk(w) \/ SettleErr(w)
    \/ CloseDone(w)
    \/ ContinueAutomaticStops(w)
    \/ \E next \in Writes : ContinueAutomaticStarts(w, next)

DrainProgress ==
    \/ DrainCheck \/ DrainAwaited
    \/ \E w \in Writes : DrainWrite(w)
    \/ DrainWritten \/ DrainEmpty \/ DrainSettle

CallerProgress(c) == FlushInitFailed(c) \/ FlushJoins(c) \/ FlushBegins(c)

Next ==
    \/ SessionAppend
    \/ AttachLive
    \/ InitializeOk \/ InitializeFails
    \/ \E e \in notifying : Enqueue(e)
    \/ TimerFires \/ OnDeadline
    \/ \E w \in Writes : OnDeadlineStart(w) \/ WriteStep(w)
    \/ \E c \in Callers : FlushSession(c) \/ CallerProgress(c)
    \/ DrainProgress

Spec == Init /\ [][Next]_vars

\* Goroutines that can run do run; a write that is running ends one way or the
\* other.  Nobody is obliged to append, or to flush.
Fairness ==
    /\ WF_vars(InitializeOk \/ InitializeFails)
    /\ WF_vars(\E e \in notifying : Enqueue(e))
    /\ WF_vars(TimerFires) /\ WF_vars(OnDeadline)
    /\ WF_vars(\E w \in Writes : OnDeadlineStart(w))
    /\ \A w \in Writes : WF_vars(WriteStep(w))
    /\ \A c \in Callers : WF_vars(CallerProgress(c))
    /\ WF_vars(DrainProgress)

FairSpec == Spec /\ Fairness

-----------------------------------------------------------------------------
(* Properties.                                                             *)

\* No event is ever lost: once its observer has run (or the seed snapshot holds
\* it) an event is in the durable log, in the queue, or in a batch whose write
\* has not succeeded, whatever fails and however timers, writes and flushes
\* interleave (Enqueue, startWriteLocked and its retention on failure).
NothingLost ==
    \A e \in 0 .. logLen - 1 :
        \/ e \in notifying
        \/ e \in Range(store) \cup Held
        \/ init \in {"none", "running", "failed"} /\ (init = "none" \/ e < seed)

\* The durable log is a gap-free prefix of the session log without duplicates,
\* and the coordinator's cursor is its length, even when two batches race for the
\* per-session chain or a batch repeats seeded events (appendLiveBatch, appendCore).
StoreIsLogPrefix ==
    /\ cursor = Len(store)
    /\ cursor <= logLen
    /\ \A i \in DOMAIN store : store[i] = i - 1

\* An event is retained once: no two of pending and the unsettled batches hold
\* the same event, so a retry never repeats one (failure retention in
\* startWriteLocked).
HeldOnce ==
    /\ \A i, j \in DOMAIN pending : pending[i] = pending[j] => i = j
    /\ \A w \in Unsettled :
          /\ Range(write[w].batch) \cap Range(pending) = {}
          /\ \A i, j \in DOMAIN write[w].batch :
                write[w].batch[i] = write[w].batch[j] => i = j
    /\ \A v, w \in Unsettled : v # w =>
          Range(write[v].batch) \cap Range(write[w].batch) = {}

\* "Flush cancels the batching wait and durably drains through a quiescent
\* point" (writebehind.go:89): what the controller held when a flush that
\* succeeded was called is durable when it returns.  The code does not keep this:
\* between the two sections of onDeadline the decision to write is not visible to
\* drainBarrier, and the background write takes the queue away from it.
FlushIsQuiescent == acked \subseteq Range(store)

\* Every FlushSession call returns, whatever fails: no flush caller waits for
\* ever on a channel nobody closes (drainBarrier, joined barriers, initDone).
FlushReturns == \A c \in Callers : caller[c].pc # "idle" ~> caller[c].pc = "idle"

\* The write path implements an append-only log: batches that repeat seeded
\* events, overtake each other on the per-session chain, fail and are retried
\* only ever extend the durable log by the next events of the session
\* (appendLiveBatch, appendCore).
Log == INSTANCE DurableLog WITH appended <- logLen, durable <- store
ImplementsDurableLog == Log!Spec
=============================================================================
