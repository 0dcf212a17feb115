----------------------------- MODULE JobRegistry -----------------------------
(***************************************************************************)
(* The background jobs of one owner (jobs/local.go) and the delivery of    *)
(* their completion notices (toolsjobs/delivery.go).  Producers own the    *)
(* work; the registry owns identity, status, waits and teardown.           *)
(*                                                                         *)
(* One action is one critical section of r.mu, or one step of a callback   *)
(* that runs between two of them (Run, Cancel, a listener under            *)
(* dispatchMu).  Get and List change nothing and are left out, and so are  *)
(* labels, output text and the change observers, which only look.          *)
(***************************************************************************)
EXTENDS Integers, FiniteSets

CONSTANTS
    Jobs,        \* the job records that may exist at once
    NoJob,       \* no job
    Limit,       \* maxConcurrentJobsPerOwner
    Waiters,     \* goroutines that call Wait
    WakeBudget,  \* maxConsecutiveWakes
    Teardowns    \* which of DisposeOwner and Dispose are called: {"owner", "service"}

ASSUME JobsAssumption ==
    /\ IsFiniteSet(Jobs) /\ NoJob \notin Jobs /\ IsFiniteSet(Waiters)
    /\ Limit \in Nat \ {0} /\ WakeBudget \in Nat
    /\ Teardowns \subseteq {"owner", "service"}

VARIABLES
    job,        \* the tracked record of each job
    store,      \* r.store
    producer,   \* the work behind each job, and its Done channel
    settling,   \* the settle call of each job, past its commit
    killing,    \* jobs whose Kill is between its two critical sections
    waiter,     \* the Wait calls
    teardown,   \* the DisposeOwner and Dispose calls
    listenersClosed,
    spent,      \* d.spent: wakes charged to the owner
    seen,       \* the value of spent that the running delivery has read
    wakes,      \* history: wakes since the human last spoke
    told,       \* history: jobs whose end was handed to somebody
    abandoned   \* history: jobs that had ended when a wait on them was aborted

deliveryVars == <<spent, seen, wakes>>
history == <<told, abandoned>>
vars == <<job, store, producer, settling, killing, waiter, teardown,
          listenersClosed, deliveryVars, history>>

Statuses == {"none", "starting", "running", "stopping", "ended"}
SettlePcs == {"none", "committed", "listeners", "deliver"}
TeardownPcs == {"idle", "cancel", "cancelling", "settling", "mark", "done"}

NewJob == [status |-> "none", reported |-> FALSE, waiters |-> 0, settled |-> FALSE]
NoWait == [pc |-> "idle", on |-> NoJob]
NoSettle == [pc |-> "none", reported |-> FALSE]

\* The types of the state: a wait count never drops below zero.
TypeOK ==
    /\ job \in [Jobs -> [status : Statuses, reported : BOOLEAN, waiters : Nat,
                         settled : BOOLEAN]]
    /\ store \in SUBSET Jobs
    /\ producer \in [Jobs -> [state : {"none", "working", "posted", "observed"},
                              cancelled : BOOLEAN]]
    /\ settling \in [Jobs -> [pc : SettlePcs, reported : BOOLEAN]]
    /\ killing \in SUBSET Jobs
    /\ waiter \in [Waiters -> [pc : {"idle", "waiting"}, on : Jobs \cup {NoJob}]]
    /\ teardown \in [Teardowns -> [pc : TeardownPcs, snap : SUBSET Jobs,
                                   todo : SUBSET Jobs, on : Jobs \cup {NoJob}]]
    /\ listenersClosed \in BOOLEAN
    /\ spent \in Nat /\ seen \in Nat /\ wakes \in Nat
    /\ told \in SUBSET Jobs /\ abandoned \in SUBSET Jobs

Init ==
    /\ job = [j \in Jobs |-> NewJob] /\ store = {}
    /\ producer = [j \in Jobs |-> [state |-> "none", cancelled |-> FALSE]]
    /\ settling = [j \in Jobs |-> NoSettle]
    /\ killing = {}
    /\ waiter = [w \in Waiters |-> NoWait]
    /\ teardown = [t \in Teardowns |-> [pc |-> "idle", snap |-> {}, todo |-> {}, on |-> NoJob]]
    /\ listenersClosed = FALSE
    /\ spent = 0 /\ seen = 0 /\ wakes = 0
    /\ told = {} /\ abandoned = {}

\* completed, killed and failed are one status: nothing here tells them apart.
IsTerminal(j) == job[j].status = "ended"

-----------------------------------------------------------------------------
(* Start: admission, Run outside the lock, registration.                   *)

Active   == {j \in store : job[j].status \in {"running", "stopping"}}
Starting == {j \in Jobs : job[j].status = "starting"}

\* mutant: a start does not see the reservations of the others
AdmitsActiveOnly == Cardinality(Active) < Limit

Admits == Cardinality(Active) + Cardinality(Starting) < Limit

\* The slot is reserved, then Run starts the work outside the lock.
StartAdmitted(j) ==
    /\ job[j].status = "none" /\ Admits
    /\ job' = [job EXCEPT ![j].status = "starting"]
    /\ UNCHANGED <<store, producer, settling, killing, waiter, teardown,
                   listenersClosed, deliveryVars, history>>

RunFails(j) ==
    /\ job[j].status = "starting"
    /\ job' = [job EXCEPT ![j] = NewJob]
    /\ UNCHANGED <<store, producer, settling, killing, waiter, teardown,
                   listenersClosed, deliveryVars, history>>

\* Registration looks at nothing: a teardown may have taken its snapshot.
Register(j) ==
    /\ job[j].status = "starting"
    /\ job' = [job EXCEPT ![j].status = "running"]
    /\ store' = store \cup {j}
    /\ producer' = [producer EXCEPT ![j].state = "working"]
    /\ UNCHANGED <<settling, killing, waiter, teardown, listenersClosed, deliveryVars, history>>

-----------------------------------------------------------------------------
(* The producer, observe and settle.                                       *)

ProducerEnds(j) ==
    /\ producer[j].state = "working"
    /\ producer' = [producer EXCEPT ![j].state = "posted"]
    /\ UNCHANGED <<job, store, settling, killing, waiter, teardown,
                   listenersClosed, deliveryVars, history>>

\* mutant: settlement claims the report without anybody waiting
ReportsAlways(j) == TRUE

\* A live wait takes the report over from the listeners.
ReportsAtSettle(j) == job[j].reported \/ job[j].waiters > 0

\* settle, its critical section: the first terminal outcome wins.
Settle(j) ==
    IF IsTerminal(j) THEN UNCHANGED <<job, settling>>
    ELSE /\ job' = [job EXCEPT ![j].status = "ended", ![j].settled = TRUE,
                               ![j].reported = ReportsAtSettle(j)]
         /\ settling' = [settling EXCEPT ![j] = [pc |-> "committed",
                                                 reported |-> ReportsAtSettle(j)]]

\* observe; a producer that breaks its contract settles the job as failed.
Observe(j) ==
    /\ producer[j].state = "posted"
    /\ producer' = [producer EXCEPT ![j].state = "observed"]
    /\ Settle(j)
    /\ UNCHANGED <<store, killing, waiter, teardown, listenersClosed, deliveryVars, history>>

\* settle resolves its listeners; a disposed service announces nothing.
ResolveListeners(j) ==
    /\ settling[j].pc = "committed"
    /\ settling' = [settling EXCEPT ![j] = IF listenersClosed THEN NoSettle
                                           ELSE [@ EXCEPT !.pc = "listeners"]]
    /\ UNCHANGED <<job, store, producer, killing, waiter, teardown,
                   listenersClosed, deliveryVars, history>>

\* deliver begins under dispatchMu; it drops what was reported already.
DeliverReads(j) ==
    /\ settling[j].pc = "listeners"
    /\ \A k \in Jobs : settling[k].pc # "deliver"
    /\ IF settling[j].reported
       THEN settling' = [settling EXCEPT ![j] = NoSettle] /\ UNCHANGED seen
       ELSE settling' = [settling EXCEPT ![j].pc = "deliver"] /\ seen' = spent
    /\ UNCHANGED <<job, store, producer, killing, waiter, teardown, listenersClosed,
                   spent, wakes, history>>

\* mutant: a wake is not charged
ChargesNothing == spent

\* The charge is computed from what deliver read before it let go of d.mu.
Charge == seen + 1

\* The owner is woken within its budget; otherwise the notice is parked.  The owner
\* still exists: a notice for an owner that is gone is dropped (delivery.go:96).  A busy
\* owner is woken too: agentloop never publishes that it runs (driver.go:294), so
\* the status deliver asks for is always idle.
DeliverSends(j) ==
    /\ settling[j].pc = "deliver"
    /\ settling' = [settling EXCEPT ![j] = NoSettle]
    /\ seen' = 0
    /\ told' = told \cup {j}
    /\ IF seen < WakeBudget
       THEN spent' = Charge /\ wakes' = wakes + 1
       ELSE UNCHANGED <<spent, wakes>>
    /\ UNCHANGED <<job, store, producer, killing, waiter, teardown,
                   listenersClosed, abandoned>>

\* refillOnClaims: the owner claims a human message.
HumanClaims ==
    /\ spent' = 0 /\ wakes' = 0
    /\ UNCHANGED <<job, store, producer, settling, killing, waiter, teardown,
                   listenersClosed, seen, history>>

-----------------------------------------------------------------------------
(* Read, Kill and Wait.                                                    *)

\* A terminal read marks the job reported, in the same section as the snapshot;
\* Kill and Wait of a job that has ended do the same.
Read(j) ==
    /\ j \in store /\ IsTerminal(j)
    /\ job' = [job EXCEPT ![j].reported = TRUE]
    /\ told' = told \cup {j}
    /\ UNCHANGED <<store, producer, settling, killing, waiter, teardown,
                   listenersClosed, deliveryVars, abandoned>>

KillLive(j) ==
    /\ j \in store /\ ~IsTerminal(j) /\ j \notin killing
    /\ killing' = killing \cup {j}
    /\ UNCHANGED <<job, store, producer, settling, waiter, teardown,
                   listenersClosed, deliveryVars, history>>

\* cancel runs outside the lock; its error changes nothing.
KillRefused(j) ==
    /\ j \in killing
    /\ killing' = killing \ {j}
    /\ UNCHANGED <<job, store, producer, settling, waiter, teardown,
                   listenersClosed, deliveryVars, history>>

KillCancels(j) ==
    /\ j \in killing /\ ~producer[j].cancelled
    /\ producer' = [producer EXCEPT ![j].cancelled = TRUE]
    /\ UNCHANGED <<job, store, settling, killing, waiter, teardown,
                   listenersClosed, deliveryVars, history>>

\* The commit of Kill looks again: a settlement that came first is kept.
KillMarks(j) ==
    /\ j \in killing /\ producer[j].cancelled
    /\ killing' = killing \ {j}
    /\ told' = told \cup {j}
    /\ job' = IF IsTerminal(j) THEN job
              ELSE [job EXCEPT ![j].status = "stopping", ![j].reported = TRUE]
    /\ UNCHANGED <<store, producer, settling, waiter, teardown,
                   listenersClosed, deliveryVars, abandoned>>

WaitBegins(w, j) ==
    /\ waiter[w].pc = "idle" /\ j \in store /\ ~IsTerminal(j)
    /\ waiter' = [waiter EXCEPT ![w] = [pc |-> "waiting", on |-> j]]
    /\ job' = [job EXCEPT ![j].waiters = @ + 1]
    /\ UNCHANGED <<store, producer, settling, killing, teardown,
                   listenersClosed, deliveryVars, history>>

\* mutant: a wait that settlement released is not counted out before it leaves
CountsTwice(j) == job[j].waiters - (IF job[j].settled THEN 2 ELSE 1)

CountOut(j) == job[j].waiters - 1

\* Settlement or the timer ends the wait; the snapshot is read afterwards.
WaitReturns(w) ==
    LET j == waiter[w].on IN
    /\ waiter[w].pc = "waiting"
    /\ waiter' = [waiter EXCEPT ![w] = NoWait]
    /\ job' = [job EXCEPT ![j].waiters = CountOut(j),
                          ![j].reported = @ \/ IsTerminal(j)]
    /\ told' = IF IsTerminal(j) THEN told \cup {j} ELSE told
    /\ UNCHANGED <<store, producer, settling, killing, teardown,
                   listenersClosed, deliveryVars, abandoned>>

\* The caller's context ends the wait, whatever the job's status is by now.
WaitAborts(w) ==
    LET j == waiter[w].on IN
    /\ waiter[w].pc = "waiting"
    /\ waiter' = [waiter EXCEPT ![w] = NoWait]
    /\ job' = [job EXCEPT ![j].waiters = CountOut(j)]
    /\ abandoned' = IF job[j].settled THEN abandoned \cup {j} ELSE abandoned
    /\ UNCHANGED <<store, producer, settling, killing, teardown,
                   listenersClosed, deliveryVars, told>>

-----------------------------------------------------------------------------
(* DisposeOwner and Dispose.                                               *)

\* Bound: one teardown, DisposeOwner or Dispose (overlapping ones would settle a record twice).
TeardownBegins(t) ==
    /\ teardown[t].pc = "idle" /\ \A u \in Teardowns : teardown[u].pc = "idle"
    /\ teardown' = [teardown EXCEPT ![t] = [pc |-> "cancel", snap |-> store,
                                            todo |-> store, on |-> NoJob]]
    /\ listenersClosed' = (listenersClosed \/ t = "service")
    /\ UNCHANGED <<job, store, producer, settling, killing, waiter, deliveryVars, history>>

\* cancelForTeardown claims the report before the producer runs.
TeardownPicks(t) ==
    \E j \in teardown[t].todo :
        /\ teardown[t].pc = "cancel"
        /\ teardown' = [teardown EXCEPT ![t].todo = @ \ {j},
                            ![t].on = IF IsTerminal(j) THEN NoJob ELSE j,
                            ![t].pc = IF IsTerminal(j) THEN "cancel" ELSE "cancelling"]
        /\ job' = [job EXCEPT ![j].reported = @ \/ ~IsTerminal(j)]
        /\ told' = IF IsTerminal(j) THEN told ELSE told \cup {j}
        /\ UNCHANGED <<store, producer, settling, killing, waiter, listenersClosed,
                       deliveryVars, abandoned>>

TeardownCancels(t) ==
    /\ teardown[t].pc = "cancelling"
    /\ producer' = [producer EXCEPT ![teardown[t].on].cancelled = TRUE]
    /\ teardown' = [teardown EXCEPT ![t].pc = "mark"]
    /\ UNCHANGED <<job, store, settling, killing, waiter, listenersClosed,
                   deliveryVars, history>>

\* mutant: a cancel that fails is only logged
TeardownIgnores(t) ==
    /\ teardown[t].pc = "cancelling"
    /\ teardown' = [teardown EXCEPT ![t].pc = "settling"]
    /\ UNCHANGED <<job, store, producer, settling, killing, waiter, listenersClosed,
                   deliveryVars, history>>

\* A cancel that fails forces the record to failed, first-wins.
TeardownForces(t) ==
    /\ teardown[t].pc = "cancelling"
    /\ Settle(teardown[t].on)
    /\ teardown' = [teardown EXCEPT ![t].pc = "settling"]
    /\ UNCHANGED <<store, producer, killing, waiter, listenersClosed, deliveryVars, history>>

TeardownForced(t) ==
    /\ teardown[t].pc = "settling" /\ settling[teardown[t].on].pc = "none"
    /\ teardown' = [teardown EXCEPT ![t].pc = "cancel", ![t].on = NoJob]
    /\ UNCHANGED <<job, store, producer, settling, killing, waiter, listenersClosed,
                   deliveryVars, history>>

\* The transition is written without a second look at the status.
TeardownMarks(t) ==
    /\ teardown[t].pc = "mark"
    /\ job' = [job EXCEPT ![teardown[t].on].status = "stopping"]
    /\ teardown' = [teardown EXCEPT ![t].pc = "cancel", ![t].on = NoJob]
    /\ UNCHANGED <<store, producer, settling, killing, waiter, listenersClosed,
                   deliveryVars, history>>

\* mutant: teardown does not wait for the jobs it cancelled
AwaitsNothing(t) == TRUE

AllSettled(t) == \A j \in teardown[t].snap : job[j].settled

\* Dispose empties the store, DisposeOwner takes its snapshot out of it.
TeardownEnds(t) ==
    /\ teardown[t].pc = "cancel" /\ teardown[t].todo = {} /\ AllSettled(t)
    /\ store' = IF t = "service" THEN {} ELSE store \ teardown[t].snap
    /\ teardown' = [teardown EXCEPT ![t].pc = "done"]
    /\ UNCHANGED <<job, producer, settling, killing, waiter, listenersClosed,
                   deliveryVars, history>>

-----------------------------------------------------------------------------
SettleStep(j) == Observe(j) \/ ResolveListeners(j) \/ DeliverReads(j) \/ DeliverSends(j)
KillStep(j) == KillLive(j) \/ KillRefused(j) \/ KillCancels(j) \/ KillMarks(j)
TeardownStep(t) ==
    \/ TeardownPicks(t) \/ TeardownCancels(t) \/ TeardownForces(t)
    \/ TeardownForced(t) \/ TeardownMarks(t) \/ TeardownEnds(t)

Next ==
    \/ \E j \in Jobs : StartAdmitted(j) \/ RunFails(j) \/ Register(j)
                        \/ ProducerEnds(j) \/ SettleStep(j) \/ Read(j) \/ KillStep(j)
    \/ \E w \in Waiters : WaitReturns(w) \/ WaitAborts(w) \/ \E j \in Jobs : WaitBegins(w, j)
    \/ \E t \in Teardowns : TeardownBegins(t) \/ TeardownStep(t)
    \/ HumanClaims

Spec == Init /\ [][Next]_vars

\* Goroutines run, and a cancelled producer eventually ends.
FairSpec ==
    /\ Spec
    /\ \A j \in Jobs : /\ WF_vars(SettleStep(j))
                       /\ WF_vars(ProducerEnds(j) /\ producer[j].cancelled)
    /\ \A t \in Teardowns : WF_vars(TeardownStep(t))

-----------------------------------------------------------------------------
(* Properties.                                                             *)

Live == {j \in Jobs : job[j].status \notin {"none", "starting"} /\ ~job[j].settled}

\* "concurrent starts cannot exceed the quota": registered work that has not ended,
\* together with the starts between admission and registration, fits the limit.
QuotaKept == Cardinality((Live \cap store) \cup Starting) <= Limit

\* "an unclaimed notice is a completion the model never learns about": once a job
\* has ended and nothing is under way for it, its end was handed to a reader, a
\* wait, a killer or the owner, unless a wait that had taken over the report was
\* aborted or the service was disposed first.
CompletionKnown ==
    \A j \in Jobs :
        /\ job[j].settled /\ settling[j].pc = "none"
        /\ \A w \in Waiters : waiter[w].on # j
        => j \in told \cup abandoned \/ listenersClosed

\* "bounded per owner by a wake budget": between two human messages the notices
\* open at most WakeBudget turns, although the charge is read and written in two
\* critical sections and a refill may fall between them.
WakesBounded == wakes <= WakeBudget

\* "awaits terminal records": when a teardown removes a job from the store, the
\* work behind it has ended or its record was forced to failed.  Only a job that
\* registers while Dispose awaits the others is dropped alive.
DrainedStore ==
    \A j \in Jobs \ store :
        \/ job[j].status \in {"none", "starting"} \/ job[j].settled
        \/ "service" \in Teardowns /\ teardown["service"].pc = "done"
               /\ j \notin teardown["service"].snap

\* "containing a producer contract violation so cleanup and waiters cannot hang":
\* a teardown always ends.
TeardownsEnd == \A t \in Teardowns : teardown[t].pc # "idle" ~> teardown[t].pc = "done"
=============================================================================
