---------------------------- MODULE ToolScheduler ----------------------------
(***************************************************************************)
(* The scheduler of one assistant message's tool calls                     *)
(* (agentloop/tool-calls.go).  The driver goroutine takes the calls in     *)
(* groups: an exclusive call is a barrier of its own, parallel calls share *)
(* a bounded rolling pool.  It starts calls and commits results in the     *)
(* order of the message; only the bodies run beside it.  An abort stops    *)
(* the starts, drains what runs and answers the rest; a failure drains     *)
(* without answering.                                                      *)
(*                                                                         *)
(* A call is its place in the message.  The tools pipeline behind Prepare, *)
(* Dispatch and Finalize, and the registry that classifies a call, are     *)
(* choices of the environment.  Whether a result concludes the turn is     *)
(* left out: the scheduler only passes it on.                              *)
(***************************************************************************)
EXTENDS Integers, Sequences, FiniteSets, FiniteSetsExt

CONSTANTS
    NumCalls,        \* the tool calls of the message
    MaxParallel,     \* the pool's cap, read once per step
    MaxModeChanges,  \* bound: registry changes while the calls run
    MaxPanics        \* bound: panics on either side of the dispatch

ASSUME SchedulerAssumption ==
    /\ NumCalls \in Nat /\ MaxParallel \in Nat \ {0}
    /\ MaxModeChanges \in Nat /\ MaxPanics \in Nat

VARIABLES
    mode,      \* the mode the registry has for each call now
    read,      \* history: the mode the scheduler last read for each call
    signal,    \* the step's context is cancelled
    sch,       \* the driver goroutine inside executeToolCalls and runGroup
    body,      \* the dispatch of each call
    log,       \* the tool events of the session log
    changes, panics   \* counters for the bounds

boundVars == <<changes, panics>>
vars == <<mode, read, signal, sch, body, log, boundVars>>

Calls == 1 .. NumCalls
Modes == {"parallel", "exclusive"}
Over  == {"done", "aborted", "failed", "panicked"}
Pcs   == {"classify", "fill", "prepare", "commit", "wait", "drain", "skip", "answer"} \cup Over

\* The calls runGroup counts in inFlight: dispatched, and not received yet.
InFlight == {i \in Calls : body[i] \in {"running", "posted", "panicked"}}

Event(type, i) == [type |-> type, call |-> i]

\* The types of the state: calls and counts stay within the message.
TypeOK ==
    /\ mode \in [Calls -> Modes] /\ read \in [Calls -> Modes \cup {"unread"}]
    /\ signal \in BOOLEAN
    /\ sch \in [pc : Pcs, mode : Modes, aborted : BOOLEAN, next : 0 .. NumCalls,
                last : 0 .. NumCalls, started : 0 .. NumCalls, committed : 0 .. NumCalls]
    /\ body \in [Calls -> {"none", "running", "posted", "panicked", "settled"}]
    /\ log \in Seq([type : {"tool/call", "tool/result", "skipped"}, call : Calls])
    /\ changes \in Nat /\ panics \in Nat

Init ==
    /\ mode \in [Calls -> Modes] /\ read = [i \in Calls |-> "unread"]
    /\ signal = FALSE
    /\ sch = [pc |-> "classify", mode |-> "exclusive", aborted |-> FALSE, next |-> 0,
              last |-> 0, started |-> 0, committed |-> 0]
    /\ body = [i \in Calls |-> "none"]
    /\ log = <<>>
    /\ changes = 0 /\ panics = 0

Goto(pc) == sch' = [sch EXCEPT !.pc = pc]

-----------------------------------------------------------------------------
(* The environment: cancellation, the tool registry, the bodies.           *)

Abort ==
    /\ ~signal /\ sch.pc \notin Over
    /\ signal' = TRUE
    /\ UNCHANGED <<mode, read, sch, body, log, boundVars>>

\* Tools are registered, hidden and replaced while calls run.
ChangeMode(i) ==
    /\ changes < MaxModeChanges /\ sch.pc \notin Over
    /\ changes' = changes + 1
    /\ mode' = [mode EXCEPT ![i] = IF @ = "parallel" THEN "exclusive" ELSE "parallel"]
    /\ UNCHANGED <<read, signal, sch, body, log, panics>>

\* Dispatch returns and its settlement is in the channel.
BodyReturns(i) ==
    /\ body[i] = "running"
    /\ body' = [body EXCEPT ![i] = "posted"]
    /\ UNCHANGED <<mode, read, signal, sch, log, boundVars>>

BodyPanics(i) ==
    /\ body[i] = "running" /\ panics < MaxPanics
    /\ panics' = panics + 1
    /\ body' = [body EXCEPT ![i] = "panicked"]
    /\ UNCHANGED <<mode, read, signal, sch, log, changes>>

-----------------------------------------------------------------------------
(* executeToolCalls: one group after the other.                            *)

\* The first call of the group decides what the group is; runGroup begins.
Classify ==
    LET first == sch.next + 1 IN
    /\ sch.pc = "classify" /\ sch.next < NumCalls
    /\ read' = [read EXCEPT ![first] = mode[first]]
    /\ sch' = [pc |-> "fill", mode |-> mode[first], aborted |-> signal, next |-> sch.next,
               last |-> IF mode[first] = "parallel" THEN NumCalls ELSE first,
               started |-> sch.next, committed |-> sch.next]
    /\ UNCHANGED <<mode, signal, body, log, boundVars>>

AllConsumed ==
    /\ sch.pc = "classify" /\ sch.next = NumCalls
    /\ Goto("done")
    /\ UNCHANGED <<mode, read, signal, body, log, boundVars>>

-----------------------------------------------------------------------------
(* runGroup: fillPool, startCall, commitReady.                             *)

\* mutant: a later call is not classified again before it starts
NeverBarrier(i) == FALSE

\* mutant: the barrier holds back the group's own first call
BarrierAtFirst(i) == mode[i] # "parallel"

\* A later call that is exclusive by now waits for the caller's next barrier.
Barrier(i) == sch.started > sch.next /\ sch.mode = "parallel" /\ mode[i] # "parallel"

HasRoom == Cardinality(InFlight) < MaxParallel

MayStart == ~sch.aborted /\ sch.started < sch.last /\ HasRoom /\ ~Barrier(sch.started + 1)

\* tool/call is appended before the ordered pre-execute gate runs.
StartCall ==
    LET i == sch.started + 1 IN
    /\ sch.pc = "fill" /\ MayStart
    /\ log' = Append(log, Event("tool/call", i))
    /\ read' = [read EXCEPT ![i] = IF i = sch.next + 1 THEN @ ELSE mode[i]]
    /\ sch' = [sch EXCEPT !.pc = "prepare", !.started = i]
    /\ UNCHANGED <<mode, signal, body, boundVars>>

PrepareDispatches ==
    /\ sch.pc = "prepare"
    /\ body' = [body EXCEPT ![sch.started] = "running"]
    /\ Goto("commit")
    /\ UNCHANGED <<mode, read, signal, log, boundVars>>

\* The gate denies the call, fails, or finds the caller cancelled.
PrepareSettles ==
    /\ sch.pc = "prepare"
    /\ body' = [body EXCEPT ![sch.started] = "settled"]
    /\ Goto("commit")
    /\ UNCHANGED <<mode, read, signal, log, boundVars>>

Answered == {log[p].call : p \in {q \in DOMAIN log : log[q].type # "tool/call"}}

\* mutant: the latest settled call is committed first
CommitLatest == Max({i \in Calls : body[i] = "settled" /\ i \notin Answered} \cup {sch.committed + 1})

CommitIndex == sch.committed + 1

Ready == sch.committed < sch.last /\ body[sch.committed + 1] = "settled"

Commit ==
    /\ sch.pc = "commit" /\ Ready
    /\ log' = Append(log, Event("tool/result", CommitIndex))
    /\ sch' = [sch EXCEPT !.committed = @ + 1]
    /\ UNCHANGED <<mode, read, signal, body, boundVars>>

\* Abort may have arrived while pre-execute, a body or a commit ran.
CommitStops ==
    /\ sch.pc = "commit" /\ ~Ready
    /\ sch' = [sch EXCEPT !.pc = "fill", !.aborted = @ \/ signal]
    /\ UNCHANGED <<mode, read, signal, body, log, boundVars>>

FillStops ==
    /\ sch.pc = "fill" /\ ~MayStart
    /\ Goto("wait")
    /\ UNCHANGED <<mode, read, signal, body, log, boundVars>>

Receive(i) ==
    /\ sch.pc = "wait" /\ body[i] = "posted"
    /\ body' = [body EXCEPT ![i] = "settled"]
    /\ Goto("commit")
    /\ UNCHANGED <<mode, read, signal, log, boundVars>>

\* A panic escaped the dispatch: drainFailure takes over.
ReceivePanic(i) ==
    /\ sch.pc = "wait" /\ body[i] = "panicked"
    /\ body' = [body EXCEPT ![i] = "settled"]
    /\ Goto("drain")
    /\ UNCHANGED <<mode, read, signal, log, boundVars>>

Drain(i) ==
    /\ sch.pc = "drain" /\ body[i] \in {"posted", "panicked"}
    /\ body' = [body EXCEPT ![i] = "settled"]
    /\ UNCHANGED <<mode, read, signal, sch, log, boundVars>>

\* mutant: a failed group answers its calls like an aborted one
AfterDrainSkips == "skip"

AfterDrain == "failed"

\* mutant: the failure is returned while other bodies still run
DrainsNothing == TRUE

Drained == InFlight = {}

DrainEnds ==
    /\ sch.pc = "drain" /\ Drained
    /\ Goto(AfterDrain)
    /\ UNCHANGED <<mode, read, signal, body, log, boundVars>>

\* mutant: an aborted group does not wait for what it started
QuiescentUnlessAborted == InFlight = {} \/ sch.aborted

Quiescent == InFlight = {}

GroupEnds ==
    /\ sch.pc = "wait" /\ Quiescent /\ ~sch.aborted
    /\ sch' = IF sch.committed # sch.started THEN [sch EXCEPT !.pc = "failed"]
              ELSE [sch EXCEPT !.pc = "classify", !.next = sch.started]
    /\ UNCHANGED <<mode, read, signal, body, log, boundVars>>

GroupAborted ==
    /\ sch.pc = "wait" /\ Quiescent /\ sch.aborted
    /\ Goto("skip")
    /\ UNCHANGED <<mode, read, signal, body, log, boundVars>>

\* mutant: one call too many is skipped
SkipsPastEnd == sch.started <= NumCalls

Unstarted == sch.started < NumCalls

\* appendSkippedToolCall, for the rest of the group and of the message: the call
\* enters the log in one append ...
SkipCall ==
    LET i == sch.started + 1 IN
    /\ sch.pc = "skip" /\ Unstarted
    /\ log' = Append(log, Event("tool/call", i))
    /\ sch' = [sch EXCEPT !.pc = "answer", !.started = i]
    /\ UNCHANGED <<mode, read, signal, body, boundVars>>

\* ... and its synthetic result in another, each of which may panic.
SkipAnswer ==
    /\ sch.pc = "answer"
    /\ log' = Append(log, Event("skipped", sch.started))
    /\ Goto("skip")
    /\ UNCHANGED <<mode, read, signal, body, boundVars>>

SkipEnds ==
    /\ sch.pc = "skip" /\ ~Unstarted
    /\ Goto("aborted")
    /\ UNCHANGED <<mode, read, signal, body, log, boundVars>>

\* A panic on the driver goroutine (a classifier, a staged method, the acceptor of a
\* result's context, an append, also one of appendSkippedToolCall) is recovered by
\* executeToolCalls itself, which returns a failure without the drain.
SchedulerPanics ==
    /\ sch.pc \in {"classify", "fill", "prepare", "commit", "skip", "answer"}
    /\ panics < MaxPanics
    /\ panics' = panics + 1
    /\ Goto("panicked")
    /\ UNCHANGED <<mode, read, signal, body, log, changes>>

-----------------------------------------------------------------------------
GroupStep ==
    \/ StartCall \/ PrepareDispatches \/ PrepareSettles
    \/ Commit \/ CommitStops \/ FillStops
    \/ \E i \in Calls : Receive(i) \/ ReceivePanic(i) \/ Drain(i)
    \/ DrainEnds \/ GroupEnds \/ GroupAborted
    \/ SkipCall \/ SkipAnswer \/ SkipEnds

SchedulerStep == Classify \/ AllConsumed \/ GroupStep

BodyStep(i) == BodyReturns(i) \/ BodyPanics(i)

Next ==
    \/ Abort \/ SchedulerStep \/ SchedulerPanics
    \/ \E i \in Calls : ChangeMode(i) \/ BodyStep(i)

Spec == Init /\ [][Next]_vars

\* The driver goroutine runs when it can, and every tool body returns.
FairSpec ==
    /\ Spec /\ WF_vars(SchedulerStep)
    /\ \A i \in Calls : WF_vars(BodyStep(i))

-----------------------------------------------------------------------------
(* Properties.                                                             *)

\* "policy, results, and result context remain model-ordered": calls and answers
\* enter the log in the order of the message, whichever body returns first, and
\* no answer comes before its call.
InModelOrder ==
    \A q \in DOMAIN log :
        /\ \A p \in 1 .. q - 1 :
              (log[p].type = "tool/call" <=> log[q].type = "tool/call")
                  => log[p].call < log[q].call
        /\ log[q].type # "tool/call" => \E p \in 1 .. q - 1 : log[p] = Event("tool/call", log[q].call)

\* "Exclusive calls form barriers; parallel calls use a bounded rolling pool": a
\* call that was exclusive when the scheduler last looked runs alone, whatever
\* the registry did since, and the others stay within the cap.
PoolDiscipline ==
    /\ Cardinality(InFlight) <= MaxParallel
    /\ \A i \in InFlight : read[i] = "exclusive" => InFlight = {i}

\* "Ordinary completion and abort": when the scheduler returns either way, every
\* call of the message has its one answer in the log.
AllAnswered == sch.pc \in {"done", "aborted"} => Answered = Calls

\* "Started calls and accepted context settle first" (tool-calls.go:269), and a
\* failure that was drained "fails without fabricating tool results": the scheduler
\* answers a call itself only once the step is aborted, only when the body of the
\* call never ran, and only behind the results of all the bodies that did, so that
\* none of them can run on.  A failure of the skipping appends themselves is
\* recovered behind answers that are already in the log ("panicked").
NoFabrication ==
    \A q \in DOMAIN log : log[q].type = "skipped" =>
        /\ signal /\ sch.pc # "failed"
        /\ body[log[q].call] = "none"
        /\ \A i \in Calls : body[i] # "none" =>
              \E p \in 1 .. q - 1 : log[p] = Event("tool/result", i)

\* "drains started calls": no body runs on after the scheduler has returned to
\* the step, which is about to close, when it was aborted and when a body
\* panicked (drainFailure); a panic of the scheduler itself skips the drain.
DrainedOnReturn == sch.pc \in Over \ {"panicked"} => InFlight = {}

\* The scheduler always returns: the pool, the barriers and the drains cannot
\* wait on each other, nor turn in a circle.
SchedulerReturns == <>(sch.pc \in Over)
=============================================================================
