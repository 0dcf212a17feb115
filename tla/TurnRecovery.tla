---------------------------- MODULE TurnRecovery -----------------------------
(***************************************************************************)
(* Crash recovery of one session log.  A live driver writes turns, steps,  *)
(* assistant messages and tool calls (agentloop); storage holds a prefix   *)
(* of what it wrote; a crash loses the rest.  Loading scans the stored     *)
(* prefix (session/repair.go), adds the missing closers, validates the     *)
(* balanced log (NewRestored), commits the repair and reads it again       *)
(* (persistence/coordinator.go), until there is nothing left to repair.    *)
(* One pass of the scan's loop is one action.                              *)
(*                                                                         *)
(* An event is its type and the identities the scan reads.  Its sequence   *)
(* number is its position in the log.                                      *)
(***************************************************************************)
EXTENDS Integers, Sequences, FiniteSets, FiniteSetsExt

CONSTANTS
    MaxTurns,     \* bound: turns the log may hold
    MaxSteps,     \* bound: steps of a turn
    MaxMessages,  \* bound: assistant messages of a step
    MaxCalls,     \* bound: tool calls of an assistant message
    MaxCrashes    \* bound: crashes

ASSUME RecoveryAssumption ==
    {MaxTurns, MaxSteps, MaxMessages, MaxCalls, MaxCrashes} \subseteq Nat

VARIABLES
    log,       \* the log of the live session
    stored,    \* what storage held when the log was last read or lost
    proc,      \* the process: live, down, scanning or prepared (a load), or refused
    at,        \* the live driver: turn and step it is in, messages and calls of the step
    scan,      \* the locals of InterruptedTurnClosers while it scans
    read,      \* how many events of the stored log it has scanned
    closers,   \* the closers of the prepared source
    commits,   \* repairs committed since the last crash
    crashes    \* counter for the bound

vars == <<log, stored, proc, at, scan, read, closers, commits, crashes>>

NoId   == 0        \* the empty identifier
NoStep == -1
NoTurn == -1
CallIds == 1 .. MaxCalls

\* A tool-call block as BlockAssembler builds it: the call's identifier is in ID,
\* the field of tool-call blocks, and ToolCallID, that of result blocks, is empty.
\* An identifier is the call's index, the assembler's own "call-<index>".
ToolCallBlock(i) == [ID |-> i, ToolCallID |-> NoId]

Event(type, turn, step) ==
    [type |-> type, turn |-> turn, step |-> step, blocks |-> <<>>, call |-> NoId]

Nowhere == [turn |-> 0, open |-> FALSE, step |-> 0, inStep |-> FALSE,
            messages |-> 0, calls |-> 0, started |-> 0, committed |-> 0]

Unscanned == [turn |-> NoTurn, step |-> NoStep, pending |-> <<>>, index |-> <<>>]

EventTypes == {"turn/start", "turn/end", "step/start", "step/end", "user/message",
               "assistant/message", "tool/call", "tool/result"}
Events == [type : EventTypes, turn : 0 .. MaxTurns, step : 0 .. MaxSteps,
           blocks : Seq([ID : CallIds, ToolCallID : {NoId}]), call : CallIds \cup {NoId}]

\* The shape of the state: both logs are sequences of session events, and the
\* driver's place in the turn stays within its bounds.
TypeOK ==
    /\ log \in Seq(Events) /\ stored \in Seq(Events) /\ closers \in Seq(Events)
    /\ proc \in {"live", "down", "scanning", "prepared", "refused"}
    /\ at \in [turn : 0 .. MaxTurns, open : BOOLEAN, step : 0 .. MaxSteps,
               inStep : BOOLEAN, messages : 0 .. MaxMessages, calls : 0 .. MaxCalls,
               started : 0 .. MaxCalls, committed : 0 .. MaxCalls]
    /\ scan.turn \in NoTurn .. MaxTurns /\ scan.step \in NoStep .. MaxSteps
    /\ read \in 0 .. Len(stored)
    /\ commits \in Nat /\ crashes \in 0 .. MaxCrashes

Init ==
    /\ log = <<>> /\ stored = <<>> /\ closers = <<>>
    /\ proc = "live" /\ at = Nowhere
    /\ scan = Unscanned /\ read = 0
    /\ commits = 0 /\ crashes = 0

-----------------------------------------------------------------------------
(* The live driver writes the log: turn, step and the tool-call scheduler. *)

Writes(event, next) ==
    /\ proc = "live"
    /\ log' = Append(log, event)
    /\ at' = next
    /\ UNCHANGED <<stored, proc, scan, read, closers, commits, crashes>>

TurnStart ==
    /\ ~at.open /\ at.turn < MaxTurns
    /\ Writes(Event("turn/start", at.turn + 1, 0),
              [Nowhere EXCEPT !.turn = at.turn + 1, !.open = TRUE])

StepStart ==
    /\ at.open /\ ~at.inStep /\ at.step < MaxSteps
    /\ Writes(Event("step/start", at.turn, at.step + 1),
              [Nowhere EXCEPT !.turn = at.turn, !.open = TRUE, !.step = at.step + 1,
                              !.inStep = TRUE])

\* The messages of the decision come before the first assistant message.
UserMessage ==
    /\ at.inStep /\ at.messages = 0 /\ log[Len(log)].type = "step/start"
    /\ Writes(Event("user/message", at.turn, at.step), at)

\* The next message of a step comes when every call of the last one is answered.
AssistantMessage(n) ==
    /\ at.inStep /\ at.committed = at.calls /\ at.messages < MaxMessages
    /\ at.messages > 0 => at.calls > 0
    /\ Writes([Event("assistant/message", at.turn, at.step) EXCEPT
                  !.blocks = [i \in 1 .. n |-> ToolCallBlock(i)]],
              [at EXCEPT !.messages = @ + 1, !.calls = n, !.started = 0, !.committed = 0])

\* Calls start in the order of the message, and may overlap.
ToolCall ==
    /\ at.inStep /\ at.started < at.calls
    /\ Writes([Event("tool/call", at.turn, at.step) EXCEPT !.call = at.started + 1],
              [at EXCEPT !.started = @ + 1])

\* Results are committed in the order of the message, whoever finishes first.
ToolResult ==
    /\ at.inStep /\ at.committed < at.started
    /\ Writes([Event("tool/result", at.turn, at.step) EXCEPT !.call = at.committed + 1],
              [at EXCEPT !.committed = @ + 1])

\* The step closes, also when it fails between its events.
StepEnd ==
    /\ at.inStep
    /\ Writes(Event("step/end", at.turn, at.step), [at EXCEPT !.inStep = FALSE])

TurnEnd ==
    /\ at.open /\ ~at.inStep
    /\ Writes(Event("turn/end", at.turn, 0), [at EXCEPT !.open = FALSE])

-----------------------------------------------------------------------------
(* InterruptedTurnClosers.                                                 *)

\* The identifier the scan takes from a tool-call block.
RegisteredId(block) == block.ToolCallID

Registered(event) ==
    LET new == [i \in DOMAIN event.blocks |->
                  [call |-> RegisteredId(event.blocks[i]), step |-> event.step,
                   started |-> FALSE]]
        all == scan.pending \o new
        ids == DOMAIN scan.index \cup {new[i].call : i \in DOMAIN new}
    IN  [scan EXCEPT !.pending = all,
                     !.index = [id \in ids |->
                        LET mine == {p \in Len(scan.pending) + 1 .. Len(all) : all[p].call = id}
                        IN  IF mine = {} THEN scan.index[id] ELSE Max(mine)]]

\* One event of the scan.  A tool/result leaves the index, and only the index.
Scan(event) ==
    CASE event.type = "turn/start" -> [Unscanned EXCEPT !.turn = event.turn]
      [] event.type = "turn/end"   -> Unscanned
      [] event.type = "step/start" -> [scan EXCEPT !.step = event.step]
      [] event.type = "step/end"   -> [Unscanned EXCEPT !.turn = scan.turn]
      [] event.type = "assistant/message" -> Registered(event)
      [] event.type = "tool/call" /\ event.call \in DOMAIN scan.index ->
            [scan EXCEPT !.pending[scan.index[event.call]].started = TRUE]
      [] event.type = "tool/result" ->
            [scan EXCEPT !.index = [id \in DOMAIN @ \ {event.call} |-> @[id]]]
      [] OTHER -> scan

\* mutant: the open step is left to the turn's closer
NoStepCloser == <<>>

StepCloser ==
    IF scan.step = NoStep THEN <<>> ELSE <<Event("step/end", scan.turn, scan.step)>>

\* mutant: the closer of an open step stands for the turn's too
StepOrTurnCloser ==
    IF scan.step = NoStep THEN <<Event("turn/end", scan.turn, 0)>> ELSE <<>>

TurnCloser == <<Event("turn/end", scan.turn, 0)>>

\* What the loop leaves open is closed: calls, step and turn.
InterruptedTurnClosers ==
    LET results == [i \in DOMAIN scan.pending |->
                      [Event("tool/result", scan.turn, scan.pending[i].step) EXCEPT
                          !.call = scan.pending[i].call]]
    IN  IF scan.turn = NoTurn THEN <<>>
        ELSE results \o StepCloser \o TurnCloser

-----------------------------------------------------------------------------
(* Loading after a crash.                                                  *)

\* assertMessageEventShape, for every event of the seed: a tool/result names its call.
Restorable(events) == \A i \in DOMAIN events : events[i].type = "tool/result" => events[i].call # NoId

\* The process dies: of the live log, storage holds the prefix that the write-behind
\* batches had reached (StoreIsLogPrefix of SessionWriteBehind).
Crash ==
    /\ proc = "live" /\ crashes < MaxCrashes
    /\ crashes' = crashes + 1
    /\ \E n \in Len(stored) .. Len(log) : stored' = SubSeq(log, 1, n)
    /\ proc' = "down"
    /\ log' = <<>> /\ at' = Nowhere /\ commits' = 0
    /\ UNCHANGED <<scan, read, closers>>

\* buildPreparedSource has read the log.
Load ==
    /\ proc = "down"
    /\ proc' = "scanning"
    /\ UNCHANGED <<log, stored, at, scan, read, closers, commits, crashes>>

\* One pass of the loop.
ScanEvent ==
    /\ proc = "scanning" /\ read < Len(stored)
    /\ scan' = Scan(stored[read + 1])
    /\ read' = read + 1
    /\ UNCHANGED <<log, stored, proc, at, closers, commits, crashes>>

\* The loop is over: add the closers, restore the balanced log.
Prepare ==
    /\ proc = "scanning" /\ read = Len(stored)
    /\ LET missing == InterruptedTurnClosers IN
       /\ closers' = missing
       /\ proc' = IF Restorable(stored \o missing) THEN "prepared" ELSE "refused"
    /\ scan' = Unscanned /\ read' = 0
    /\ UNCHANGED <<log, stored, at, commits, crashes>>

\* commitPrepared with a repair to write: the caller reads the log again.
CommitRepair ==
    /\ proc = "prepared" /\ closers # <<>>
    /\ stored' = stored \o closers
    /\ commits' = commits + 1
    /\ proc' = "down" /\ closers' = <<>>
    /\ UNCHANGED <<log, at, scan, read, crashes>>

\* The process dies while the repair is written: some of its closers are stored.
CommitCrashes ==
    /\ proc = "prepared" /\ crashes < MaxCrashes
    /\ crashes' = crashes + 1
    /\ \E n \in 0 .. Len(closers) : stored' = stored \o SubSeq(closers, 1, n)
    /\ proc' = "down" /\ closers' = <<>> /\ commits' = 0
    /\ UNCHANGED <<log, at, scan, read>>

StartsTurn(events, i) == events[i].type = "turn/start"

\* The driver resumes numbering at the last turn/start of the log.
LastTurn(events, turn) ==
    \/ turn = 0 /\ \A i \in DOMAIN events : ~StartsTurn(events, i)
    \/ \E i \in DOMAIN events :
          /\ StartsTurn(events, i) /\ turn = events[i].turn
          /\ \A j \in i + 1 .. Len(events) : ~StartsTurn(events, j)

\* commitPrepared with nothing to repair: the session is live again.
Resume ==
    /\ proc = "prepared" /\ closers = <<>>
    /\ proc' = "live"
    /\ log' = stored
    /\ \E turn \in 0 .. MaxTurns :
          LastTurn(stored, turn) /\ at' = [Nowhere EXCEPT !.turn = turn]
    /\ UNCHANGED <<stored, scan, read, closers, commits, crashes>>

-----------------------------------------------------------------------------
LiveStep ==
    \/ TurnStart \/ StepStart \/ UserMessage \/ ToolCall \/ ToolResult \/ StepEnd \/ TurnEnd
    \/ \E n \in 0 .. MaxCalls : AssistantMessage(n)

LoadStep == Load \/ ScanEvent \/ Prepare \/ CommitRepair \/ Resume

Next == LiveStep \/ LoadStep \/ Crash \/ CommitCrashes

Spec == Init /\ [][Next]_vars

-----------------------------------------------------------------------------
(* Properties.                                                             *)

Count(events, i, type) == Cardinality({j \in 1 .. i - 1 : events[j].type = type})
TurnsOpen(events, i) == Count(events, i, "turn/start") - Count(events, i, "turn/end")
StepsOpen(events, i) == Count(events, i, "step/start") - Count(events, i, "step/end")

\* Where an event may stand, said without the scan that repairs use.
Placed(events, i) ==
    LET e == events[i] IN
    CASE e.type = "turn/start" -> TurnsOpen(events, i) = 0
                                  /\ e.turn = Count(events, i, "turn/start") + 1
      [] e.type = "turn/end"   -> TurnsOpen(events, i) = 1 /\ StepsOpen(events, i) = 0
                                  /\ e.turn = Count(events, i, "turn/start")
      [] e.type = "step/start" -> TurnsOpen(events, i) = 1 /\ StepsOpen(events, i) = 0
      [] OTHER                 -> StepsOpen(events, i) = 1

\* However often the process dies, also while it writes a repair, the log of a
\* live session nests: one turn at a time, steps inside turns, messages and
\* calls inside steps, turns numbered in order.
LiveLogNests == proc = "live" => \A i \in DOMAIN log : Placed(log, i)

\* Loading converges: a log whose repair was committed needs no second one.
RepairsOnce == commits <= 1

\* "supplies the missing tool, step, and turn boundaries needed to resume with a
\* provider-valid transcript": no crash leaves a log that loading refuses.
CrashIsLoadable == proc # "refused"
=============================================================================
