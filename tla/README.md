# Catamorphic run engine and agent sessions: TLA+ models, checks and proofs

Catamorphic runs durable workflows on a Postgres database that several server
processes share. There is no leader and no broker: every process polls the same
tables, and correctness rests on guarded SQL statements, row locks and leases
that lapse. This directory models that core, checks it with TLC on small
instances and proves its central safety properties with TLAPS for every size.

Source paths below are relative to `src/packages/core/src/services/` unless
they start with `src/` or `docs/`.

## 1. The system

| Component | State it keeps | Operations that change it |
| --- | --- | --- |
| Execution job queue (`execution-jobs-service.ts`) | `execution_jobs`: status, lease (`leased_by`, `lease_token`, `lease_generation`, `lease_expires_at`), `attempt`, `lease_expiries`, `available_at`, exhaustion stamp and receipt; `active_run_invocations` | enqueue, revival of an ended row, claim, claimById, heartbeat, complete, fail, release, cancel, makeAvailable, redrive, requeueExpired, claimExhausted, claimExhaustionFor, confirmExhaustionHandled, releaseExhaustionClaim |
| Execution workers (`execution-worker-service.ts`) | in memory: the jobs a loop claimed, the lease snapshot, two abort signals | poll, run a job, heartbeat, fence timer, settle, sweep, terminal handler inline and by sweep, stop |
| Run coordinator (`run-coordinator.ts`) | `workflow_runs`, `workflow_run_states`, `workflow_step_attempts`, `workflow_pauses`, `workflow_signals` | initialize, beginAttempt, boundaryDeadline, invokeRuntime, setPhase, completeStep, failStep, suspendForPause, suspendForChild, resolvePauseTimeout, signalByKey, resumePause, pauseOperator, resumeOperator, cancel, failRunTree, handleExhaustedJob |
| Boundary handler (`boundary-execution-handler.ts`) | none of its own | loads the run, parks, throttles, begins the attempt, invokes the runtime, reports the outcome |
| Batch handler (`batch-execution-handler.ts`) | `batch_execution_states` (cursor, counters, sink state), `batch_items`, `batch_item_steps`, `batch_step_invocations` and their members, `batch_sink_chunks` | acceptSourcePage, scheduleSourcePage, executeItem, parkAtPhysicalStep, executePhysicalStep, persistPhysicalOutcomes, completeItem, finalizeIfComplete, startSink, writeSinkChunk, finalizeSink |
| Agent sessions (`agent-sessions-service.ts`, `sessions/session-log.ts`) | `agent_items`, `agent_turns`, `agent_turn_commands`, the session's log | deliver (queue, steer, interrupt), interrupt, steer_now, edit_queued, cancel_queued, send_now, retry |
| Turn queue and leases (`sessions/turn-queue.ts`, `agent-turn-leases.ts`) | the lease of a turn, `available_at` | claim, renew, hand back, scheduleRetry |
| Turn engine (`sessions/turn-engine.ts`) | `agent_turn_attempts` with the recorded runner; in memory the runner's state and channel | drive, prepareAndLaunch, pump, sendCommands, applyFrames, restart, retryFailure, finalize, settle, lose, requeueSteers |
| Replica claims (`replica-claims.ts`) | `replica_claims`: holder, `expires_at`; in memory an expiry timer and at most one renewal in flight | take, renew, release, lose |
| Rate reservations, allocations and placement, node recovery, mailboxes, schedules and other sources of runs, remote sync | tables of their own | see `PROJECT.json` |

How they interact. A run has a plan of steps; `createStepAttempt` inserts an
attempt and enqueues its job. A worker claims the job, its handler loads the run
and calls the coordinator, whose transaction locks the run's row, checks that
the attempt is still the active one and that the handler still owns the job's
lease, moves the run, and may enqueue the next job. The worker then settles the
job in a separate statement. A job that runs out of attempts or leases calls
`handleExhaustedJob`, which fails the step. A step may suspend on a pause, which
a signal, a person or a timeout job ends, or on a child run, whose end reaches
the parent in the child's own transaction (`finishParent`). An operator may
pause a run in a batch step; jobs that meet a paused run are parked for an hour
and `resumeOperator` wakes them. A trigger on `workflow_runs` discards the
signals an ended run has not consumed
(`src/packages/db/migrations/072_workflow_signal_inbox.sql`).

A batch step is driven by several jobs at a time: one reads source pages, one
per item processes it, one per coalesced invocation runs a batch step for many
items, and sink jobs write chunks. They meet in the counters of one state row,
which say when the sink may start.

An agent session has turns, of which one works at a time. Sending a message
makes a turn or joins ("steers") the one that works. A replica leases the turn,
prepares a workspace, launches a runner, records it, sends it its start, and then
pumps: frames of the harness come in and are applied with the cursor that read
them, commands go out. When the lease lapses another replica takes the turn over
from what was recorded: it attaches to the runner, prepares again, or declares
the attempt lost and continues the turn.

What is hard here, and what `PROJECT.json` lists as hazards line by line:

* a handler acts on what it read before: its lease may have lapsed and been
  granted again, its run paused, canceled or moved on;
* a commit whose answer is lost makes the handler throw after it succeeded, and
  the job is delivered again;
* a lease ends in five ways and each must clean up after it in one transaction;
* attempts are charged at the claim and refunded on release and on a lapse;
* two tables (jobs and runs) are settled in two transactions, and a cancel of a
  child run in two more;
* signals, pauses, timeouts and people meet in any order;
* a lease lapses under a holder that is only slow, and not every commit looks at
  the lease again;
* a batch item, its counters and the decision to start the sink are three
  transactions; outcomes of a coalesced invocation are committed for all members
  and then applied to each;
* a steered message is in the session's log, in an open command, in a runner's
  inbox and in an attempt's consumed list, which change at different moments
  while the turn restarts, fails, is stopped, or changes hands;
* the engine checks its lease before it takes the session's lock, so a stalled
  replica may still write;
* terminal handlers run at least once, by whoever exhausted the job or by a
  sweep, under a claim that itself expires.

What makes each part correct: the queue grants a lease once and charges exactly what
happened; the coordinator keeps one live attempt, in order, with outcomes that never
change, and never leaves an active run without anything to move it; a batch counts every
item once, hands all of them to its sink once, in order, and comes to an end; a session
runs one turn at a time, reads every message once on a thread, obeys a stop, and keeps
account of every harness at work; a claim keeps two processes from working at once.

## 2. Modules

| Module | What it is |
| --- | --- |
| `JobLease` | Abstract specification: what the queue promises to code that runs on it |
| `ExecutionJobs` | The queue and its workers, statement by statement; implements `JobLease` |
| `MCExecutionJobs` | symmetry for TLC |
| `ExecutionJobsProofs` | Inductive invariant of the queue and the theorems that follow from it |
| `ExecutionJobsRefinement` | `ExecutionJobs` implements `JobLease`, proved |
| `RunCoordinator` | Runs, attempts, pauses, signals, children and the handlers that drive them, on jobs that behave as `JobLease` says |
| `MCRunCoordinator` | step plans and symmetry for TLC |
| `RunCoordinatorProofs` | Inductive invariant of the coordinator and a theorem for each of its safety properties |
| `BatchExecution` | One batch step with its jobs, from the first page to the sink's artifact, on jobs that behave as `JobLease` says, with operator pauses |
| `MCBatchExecution` | sources and symmetry for TLC |
| `BatchExecutionProofs` | Inductive invariant of a batch in three layers, and a theorem for each of its safety properties but one |
| `AgentTurns` | The turns of one session: people, queue, leases, engine and, as environment, runners |
| `MCAgentTurns` | symmetry for TLC |
| `AgentTurnsProofs` | Inductive invariant of a session's tables, and the theorems that hold even when transactions stall |
| `AgentOwnersProofs` | On top of it, the invariant of owners and runners while none does |
| `AgentReadsProofs` | On top of both, the invariant of what attempts take in |
| `ReplicaClaims` | `withReplicaClaim` with an explicit clock |
| `MCReplicaClaims` | symmetry for TLC |
| `ReplicaClaimsProofs` | Inductive invariant and theorem for claims |

Each module keeps its mutants (definitions commented `Mutant:`) next to the
definition they alter: a plausible bug of that code that must break a property.
They are not part of the specifications.

### ExecutionJobs and JobLease

`job[j]` is the row of a job, `worker[w]`, `held[w]` and `exh[w]` what a loop or
a synchronous driver has in memory: the job it runs, the lease generations it
claimed, the terminal handlers it is in. A step is one statement or transaction
of the service or one decision of a worker between two of them. The operators on
rows (`Leased`, `Completed`, `Failed`, `Released`, `Canceled`, `Expired`,
`Revived`) are the SET lists; `Owns` is the WHERE clause every settling statement
shares (generation, token and live lease). Time is what statements compare: a
lease is live or lapsed, a job due or not, a stamp fresh or stale, and each may
turn at any moment. A lease token is identified with its worker and generation,
because claim writes both together. `selectClaimableJobs` ranks tenants for
fairness; the model lets claim take any due jobs, up to `ClaimLimit`.

`JobLease` forgets rows, generations and sweeps: a job is ready, leased to one
holder, or ended; failures and lapses are counted. The refinement mapping
(`LeaseState`, `Failures`, ...) reads `attempt` as failures, less the one
attempt that a running job has been charged in advance. That is where an
arithmetic slip in a refund would show.

### RunCoordinator

`db` holds the rows; an operator on `db` is what one method does inside its
transaction, so that a transaction that completes a child's step, ends the child
and finishes the parent is a composition of the same operators as in the code
(`CompleteStep`, `Report`, `FinishParent`, `RetryOrFail`). All coordinator
transactions lock the run's row first, so each is one atomic step. `handler[h]`
is a running handler with the job it was given; between its steps anything may
happen to `db`. `canceling` holds cancels that have done the first of their two
transactions.

Jobs are used under the contract of `JobLease`: one holder; a lapse or a failed
attempt takes the job to pending or, as if the budget were used up, to failed.
The model does not count budgets, so it covers every budget. A failed job is
`landed` once its terminal handler ran and `receipted` once the receipt is
written; the handler may run again between the two.

Run trees have depth two (children start no children); allocations are left
out. Operator pauses exist only in batch steps and are in `BatchExecution`.

### BatchExecution

`db` holds the rows of one batch step: the state row (`cursor`, `done`, `queued`,
`ended`, `failed`, `width`, `state`), the items with their status and attempt in source
order, the attempts of an item that have a row in `batch_item_steps` (`rows`, those that
ended in `closed`, those that ended with an output in `passed`), the invocations with
their members and the item attempt each will resume (`resume`), the chunks and the jobs,
by the suffix of their dedupe key. As in `RunCoordinator`, an operator on `db` is one
transaction (`AcceptSourcePage`, `CompleteItem`, `ParkAtPhysicalStep`,
`PersistPhysicalOutcomes`, `FinalizeIfComplete`, `EnqueueNextSinkWork`) and a handler
goes through the windows between them: it reads and marks (`Begin...`, `ReadMembers`,
`MarkInvocation`, `MarkChunk`), invokes (`InvokeAnswers`, `InvokeFails`, `Fenced`),
commits, and takes the follow-up steps one by one (`ApplyFailurePolicy`, `ScheduleNext`,
`CountEnded` and `QueueSink` after an item, `CompleteMember` for the members of an
invocation, `EnqueuePhysical`). The initialize job stores what the source returned
(`CommitInitialize`) before it reads the first page, which a redelivery does not do
again. The handler keeps the item's attempt it began, and parks and resumes by it. The
tables refuse to reopen a row whose `completed_at` is set, so a transaction that would
only write an open status over an ended row rolls back: `Open` and `MayPark` say when it
may, `ParkRefused` and `OutcomesRefused` are the handlers whose transaction was refused.
What user code answers is a free choice from `Outcomes`.

A job is delivered again after a failure, after its holder died (`Lapse`) and beside
a holder that is still at work (`Stall`): `requeueExpired` goes by the lease alone.
The stalled holder goes on with what it read. Its answer is fenced if the lease is
over by then (`Fenced`); after that only the transactions that name the job look at
the lease. A call to the database may fail, or its answer be lost, at any place
(`DatabaseFails`); in `executePhysicalStep` that opens the invocation again.

An item parks in two steps. `LookForInvocation` takes the advisory lock of the
coalescing key, which others wait for, and reads the clock. The transaction commits
with the windows as they are then (`CommitPark`) or, a fault called "late", with the
windows that were open when it looked (`CommitLate`): `closes_at` is compared before
the commit, and the invocation's job may have started meanwhile. `used` keeps the
faults that happened, those apart that properties speak of ("stall", "late",
"pause"); `Timely` says that no holder went on past its lease, `Stranded` that an
invocation has answered without one of its members.

The state of a sink is the list of chunks folded into it, which is enough to see
one that is lost, repeated or out of order. The batch is the last step of its
plan; byte limits are left out.

### AgentTurns

`turn`, `item`, `attempt` and `command` are the tables, `holder[h]` the memory of one
`run()` of the engine with its program counter, `runner` the processes it launched. A
turn is named by what it does: `<<m, 0>>` is the turn of message `m`, `<<m, k>>` its
k-th continuation. Every transaction takes the session's row lock first, so it is one
step; `May` is `assertOwned`, `Stall` lets a transaction pass it and write after the
lease is over, and `Clash` is the unique index that refuses a second working turn.
`session` is the harness the agent runs on, which a person may change (`SwitchHarness`),
and the harnesses whose native thread was recorded; an attempt that is prepared
continues such a thread or starts one of its own, and is given what was steered
accordingly (`AttemptInput`). `PutActive` is `currentTurns` (`sessions/session-log.ts`),
which every write of a turn goes through.

Runners and harnesses are environment (mapped to `agent-runner/src/runner.ts`
where it decides how commands are answered): they begin, acknowledge or refuse a
steer, read it, end in one of four ways, exit, or vanish, and one of them may begin
without naming its thread ("nameless").

Any step of the engine may throw (`FailUnexpectedly`, the catch of `run`): the turn
fails with the attempt recorded for it. If this process has a channel to the runner
it is told to stop; if it has none, as after a takeover and before the runner was
found again, nobody stops it. A kill itself may be lost, for the channel swallows its
error (`Killed`). A runner that may still be at work for one of these reasons is
`left`: it goes on, and the properties say where it is excepted. `Faults` names what may
go wrong in an instance; each kind happens at most once and `MaxFaults` bounds
how many do. `Timely` holds while no transaction outlived its lease; the
properties say where they need it.

### ReplicaClaims

Every database statement and the arrival of its answer are separate steps, with
a clock `now` and timers that fire on time. One rate for all clocks is assumed:
the code compares `performance.now()` intervals with database intervals of the
same length. `renewed[c]` records whether the timer that runs was set by a
renewal, which is what the code's comment speaks of.

## 3. Runs

| Run | Bounds | What it shows |
| --- | --- | --- |
| `queue` | 1 job, 2 loops, 1 driver, 2 attempts, 2 lapses, 3 leases, 1 redrive, 1 fault | `LeaseUnique`, `InvocationFenced`, `Budget`, refinement of `JobLease` |
| `queue_live` | 1 job, 2 loops, 2 faults | every lease ends, every exhausted job is handled, receipts are true without a redrive |
| `queue_redrive` | 1 job, 1 loop, 1 redrive | violation, finding 1 |
| `coord_child` | a one-step parent with 2 attempts, 2 possible children, 2 handlers, 1 fault | `OneLiveAttempt`, `Driven`, `OneChildPerAttempt`, `OutcomesAreFinal`, `RunsSettle` |
| `coord_pause` | 2 pausing steps, 2 signals of one name, 2 handlers, 1 fault | `StepsInOrder`, `Driven`, `NoMissedSignal`, `SignalsInOrder`, `OutcomesAreFinal` |
| `batch` | 2 pages, of 1 key and of 3 with repetitions, one of the 2 items meets a batch step for 1, outcomes succeeded and failed, a sink of width 1 or 2 with chunks of 1, high and low water 1, 2 attempts, 2 invocations, 2 handlers, 1 fault: an invocation that fails, a crash, a holder that stalls past its lease, a failed call to the database, a pause or a cancel | `CountsExact`, `SinkSeesAll`, `SinkWindow`, `StateThreaded`, `ParkedWhilePaused`, `OutcomesAreFinal` |
| `batch_steps` | 1 page, 2 items that both meet a batch step for 2, outcomes success and retry, no sink, 4 invocations, 2 handlers, 1 failed or throttled invocation or late join | `MembersFit`, `NoneLeftOut`, `BatchSettles` |
| `batch_lost` | 2 items without a batch step, no sink, one crash | violation, finding 2 |
| `turns` | 2 messages, queued or steered, 1 more act of a person of 7 kinds, 2 harnesses, 2 holders, 1 fault of 13 kinds, 2 tries | `SteersKept`, `ReadOnce`, `HarnessAccounted`, `StopStands`, `SettledIsFinal` |
| `turns_live` | 2 messages, steered or interrupting, at most one `steer_now`, 1 harness, 2 holders, 1 fault of 12 kinds (no stall), 2 tries | `TurnsSettle` |
| `turns_dropped` | 2 messages, 1 holder, one passing failure, one cancel | violation, finding 3 |
| `claims` | 2 calls, ttl 2, 6 instants | `RenewedWorkHolds` |

Why the bounds are enough. A stale actor needs two workers, a lease that ended
and one granted after it: three generations leave room for one more. Both limits
are 2, so that a counter below its limit, at it and reset by a redrive all
occur. Two attempts are needed for a retry of the parent's step, and two
children for the second attempt, or a redelivery, to start another one. Two
signals and two pauses are needed for order. A fault is a lapse under a running
handler, a failed attempt, a deferral, a lost answer or a crash; one suffices
for a redelivery to overlap the first handler. In
`claims` six instants hold three ttl's: a take, a renewal that outlives it and a
takeover. A batch needs two pages for the cursor and a repeated key, two items to
have one end while another runs, two chunks and widths 1 and 2 for a serial and a
concurrent sink, high- and low-water marks of 1 so that paging stops and resumes,
and two items at a batch step with room for two so that an invocation is joined
while its job is on its way; four invocations are the most that two items with
two attempts each can open. A stall needs a second handler to take the job over, and
a late join a second item whose handler has filled or started the invocation. A
session needs two harnesses for a thread that is not continued, two messages for one to be
steered into the other's turn, two holders for a takeover, and two tries for one
requeue and a last one. Symmetry is over holders, loops, jobs, handlers, children
and calls, and only in runs without liveness properties.

`batch_steps` leaves out crashes, stalls, failed calls and pauses: with the first three
a batch may stop for the reason of `batch_lost`, and pauses, under which `NoneLeftOut`
and `BatchSettles` say nothing of interest, make it too large. The other properties of
batches are checked with all of them in `batch`, and proved. `turns` and `turns_live`
divide the modes of sending between them for the same reason of size; the theorems about
sessions cover all modes together. `batch` leaves out the outcome `skipped` and larger
chunks and windows, which the theorems of `BatchExecutionProofs` cover.

Deadlock is not checked: a queue without jobs, a run that ended and a clock at
its bound stand still.

Fairness. `queue_live` and `coord_child` assume weak fairness of: a handler's
next step (a boundary attempt has a deadline of five minutes and every statement
returns or throws), polling and the sweep that `pollOnce` starts with, restarts
of stopped processes, and time. Nothing is assumed of people: signals, resumes,
operator commands and redrives have no fairness, and `RunsSettle` lets a run wait
for a person. A lease is only sure to lapse when no one holds it in memory,
since a live holder renews it. `CancelReconciles` is fair but
`CancelCrashes` may pre-empt it, and `RunsSettle` excuses a parent whose child
was canceled: only a repeated cancel of that child reaches it then
(`reconcileTerminalChild`, which could, has no caller).

`batch_steps`, `batch_lost` and `turns_live` assume only `WF_vars(Proceed)`: while
the workers, sweeps and clocks together can do something, something is done. It
is weaker than fairness to each of them, so what settles under it settles under
any scheduler. In `AgentTurns` it includes that a harness which was started says
something or ends: the code has no deadline for a working agent. People and
faults are outside of it. It also includes that the owner of a session may act
and that a machine that is gone is found gone: otherwise the code hands the turn back
(`turn-engine.ts:545` and 593), as often as it is claimed. Nobody has to resume a
paused batch; `BatchSettles` is about a batch that is not paused and strands no item.

## 4. What the checks found

Three statements of the code's comments, tests or decision records do not hold:

1. `queue_redrive`: `confirmExhaustionHandled` updates by id alone. A redrive
   between a terminal handler's end and its confirm puts the old receipt on the
   new life, whose own exhaustion is then never handled.
2. `batch_lost`: `completeItem` ends the item in one transaction and calls
   `scheduleSourcePage` and `finalizeIfComplete` after it. A crash in between
   redelivers a job that finds the item terminal and returns before either call.
   If it was the last item, or the one the source waited for, the run stays
   active with no job. The loop of `persistPhysicalOutcomes` has the same window.
3. `turns_dropped`: `cancel_queued` of a turn that waits to be tried again leaves
   the messages steered into it with the cancelled turn, unread.
   `interruptIn` requeues them in the same situation.

Behaviours the models have and no run claims or refutes, worth a reader's
attention:

* `releaseExhaustionClaim` clears the stamp of whoever holds it. A claimer that
  overran its claim and throws frees its successor's fresh claim, and a third
  runs the handler beside it (`execution-worker-service.ts:300`). The handlers are
  idempotent.
* The first expiry timer of a replica claim starts when the answer of the take
  arrives, so a slow answer lets work outlive the claim until the first renewal
  (`replica-claims.ts:160`).
* An operator pause between the batch handler's `loadContext` and `beginAttempt`
  (or `completeStep`) makes it answer false; the handler returns, the job
  completes, and the resume finds nothing to wake (`run-coordinator.ts:889`).
* A job that exhausts while its run is paused has its terminal handler do nothing,
  and the receipt is written.
* An item may join a coalesced invocation after its members were read: its
  transaction compared `closes_at` in time and committed after the job had started
  (`batch-execution-handler.ts:1976` and 676), or a resume made the job due while the
  window was open (`makeRunAvailable`). The invocation is completed without it, its
  job is absorbed by the live row or finds the invocation completed, and the item
  stays a pending member: the batch never ends. `NoneLeftOut` says that there is no
  other way.
* `writeSinkChunk` commits a chunk without looking at its lease
  (`batch-execution-handler.ts:1463`). A holder that stalls between the sink's answer
  and the commit, while its chunk is delivered again and later ones are written, puts
  back the state of its own chunk and counts it twice; the check on
  `sink_completed_chunks` then refuses the last chunk
  (`src/packages/db/migrations/001_initial.sql:199`).
* The catch of `executePhysicalStep` opens an invocation again even when its outcomes
  were committed and a later call failed; the next delivery finds no pending members
  and returns.
* A step that throws after a takeover and before the runner is found again fails the
  turn and leaves its sandbox harness at work (`turn-engine.ts:540` and 3660). So does
  a kill whose signal is lost (`sessions/runner-channels.ts:334`).
* After a change of harness and back, an attempt continues the older thread and counts
  what its turn read on the other one as taken: the filter goes by `started` and not by
  thread (`turn-engine.ts:1327`), while the comment above it says "nor is anything on a
  thread this attempt does not continue".
* An attempt is recorded as completed before its turn is finalizing. A crash in
  between makes the next holder find an exited runner and call `lose`: the turn is
  interrupted and continued although its work was finished.
* `pump` loses a turn whose runner exited before its harness began, while a
  takeover in the same situation prepares it again (`turn-engine.ts:1900` and
  1629).
* `assertOwned` comes before the session's lock. A `settle` that waited for it
  past its lease overwrites the outcome its successor recorded, and with a passing
  failure queues a settled turn again; `currentTurns` keeps such a turn from
  working, not from being queued.

## 5. What is proved

All theorems hold for every value of the constants; the only assumptions are the
named `ASSUME`s of the modules (limits are positive numbers, a source has a page, a
sink is there or is not, there is a harness, the null values are not members of their
sets), which TLC evaluates in every run.

* `ExecutionJobsProofs`: `TypeCorrect`, `LeasesAreUnique`,
  `InvocationsAreFenced`, `BudgetsHold`. None of the three properties is
  inductive. That a settling worker owns the row it settles follows from
  `LeaseUnique`, but only with the facts of each row by itself: a row is running
  exactly when it has a holder, its generation is positive once granted, its
  counters are within limits in every status. So the invariant is
  `IInv == TypeOK /\ (\A j : RowInv(job[j])) /\ LeaseUnique`. The proof has one
  lemma per row update (it keeps `RowInv`, and except for `Leased` grants no
  lease), one that combines changes of rows and of held leases
  (`StepKeepsIInv`), and one per action.
* `ExecutionJobsRefinement`: `Refinement`, that `Spec` implies `JobLease`'s
  `Spec` under the mapping, one lemma per action, each mapping to a `JobLease`
  step or a stutter; `IInv` supplies what the mapping needs, in particular that
  a worker whose `Owns` holds is the mapped holder and that a failed row stands
  at a limit. It covers batches of any size, whose later jobs wait their turn
  without a heartbeat; the run `queue` claims one job at a time.
* `RunCoordinatorProofs`: `TypeCorrect`, `OneLiveAttemptHolds`,
  `StepsInOrderHolds`, `OneChildPerAttemptHolds`, `DrivenHolds`,
  `NoMissedSignalHolds`, `SignalsInOrderHolds` and `OutcomesAreFinalHolds`: every
  safety property of the coordinator's runs, for any plan, retry policy, set of
  children, handlers and names, from one inductive invariant
  (`Invariance`), which the next paragraphs explain.
* `AgentTurnsProofs`: `TypeCorrect` (which includes that one turn of a session
  works at a time), `SteersKeptHolds`, `StopStandsHolds` and
  `SettledIsFinalHolds`, for any messages, holders, harnesses, limits, acts of people
  and kinds of faults; `AgentOwnersProofs`: `HarnessAccountedHolds`; and `AgentReadsProofs`:
  `ReadOnceHolds`.
* `ExecutionJobsProofs` also has `ReceiptsHold`: until a failed row is revived or
  redriven, a receipt means that a terminal handler landed. `ReceiptInv` adds that a
  worker about to confirm has seen the handler of the job it names land. A confirm names the row by id alone, so one that comes late is harmless
  only while the row is the same life; the run `queue_redrive` shows what follows a
  redrive.
* `BatchExecutionProofs`: `BatchTypes`, `ParkedOnlyWhilePaused`, `InvocationsFit`,
  `CountersAreExact`, `SinkIsWhole`, `OutcomesStand`, `SinkKeepsItsWindow` and
  `SinkThreadsItsState`, for any pages with any repeated keys, any set of items that
  meet a batch step, limits, widths, chunk size, handlers and kinds of faults, stalls
  and late joins included, from an invariant in three layers (`BatchFits`,
  `BatchWhole`, `BatchSinks`). `SinkThreadsItsState` alone supposes that no holder
  outlives its lease.
* `ReplicaClaimsProofs`: `RenewedClaimsHold`. The strengthening says that the
  answer of a landed renewal, while it is still in flight, carries the claim
  until a ttl after its dispatch (`RenewalCarries`), that timers lie ahead and
  dispatches in the past, and that expiry is never more than a ttl ahead. The
  last is what makes renewals monotonic.

The invariant of the coordinator. `IInv == Good(db, {}) /\ (\A h : HandlerFits(db,
handler[h], h)) /\ types`. The properties are not inductive apart. `Driven` says
that an active run has something to move it on, but a handler that completes its
attempt is fenced by `OneLiveAttempt`; that holds because a retry is created only
after the attempt before it ended and lies ahead of all others (`NoneAhead`), and
because the plan is past the steps of completed attempts and no others
(`DoneOnce`, `DoneAll`, which are `StepsInOrder`). Pauses, jobs and children hang
from attempts that came that far (`RowsFit`, `LinksFit`), so a new attempt starts
without any of them. These parts are `Core`. `SignalsFit` adds the inbox: a
buffered signal has no open pause of its name, a consumed one a pause of its own.

The code composes its methods within a transaction, and the proof does the same.
Each method's operator has a lemma about a database, not about a state. `Core` and
`SignalsFit` hold after every statement; `Moves` does not. Between the statement
that ends an attempt and the one that goes on with the run, the run has nothing to
move it (`Stage(d, r, ended)` excepts run `r`); and between a child's end and its
report, the parent waits for a child that has ended (the set `ended`). At the end
of each transaction both exceptions are gone (`Good(d, {})`). `failRunTree` fails
the root with its children, so no parent is left to hear their reports.

`HandlerFits` is what a handler may rely on after any number of steps of others: a
handler that holds its job's lease and has begun its attempt never finds it pending
or waiting, and one that returns leaves an attempt that needs its job no more. It
survives others because of `Onward(d, e, new)`, which every transaction satisfies:
nothing that ended changes, nothing that began is unbegun, a job that runs after it
ran before it under the same holder, and only the attempts of `new`, those of the
transaction's own handler, begin to wait. `OutcomesAreFinal` is `Onward`, too.

The invariant of sessions has layers. The first, `Inv1`, holds in every behaviour,
also when transactions stall and write under a lease that is over. It is about the
tables: their types, that a row with a lease or a stop is of a turn that works
(`RowFits`), that one turn works (`TurnsFit`, kept by the unique index, `Clash`,
and by `PutActive`, not by the leases, which a stalled writer ignores), that a
message with a turn of its own is in it (`ItemsFit`), what a holder in each place
has (`HolderFits`), and that a turn that ended by itself left nothing unread
(`NoneLeft`, the one part that needs `Timely`). Beside it `SessionFits` says that
harnesses are harnesses. Every step satisfies `Step1`: no turn
disappears, a stop stands or its turn ends, and what settled does not work again.
The lemmas are about what is written: a table with one row changed (`RowKeeps`),
turns put to work (`PutActiveKeeps`), turns closed and their unread messages
requeued (`ClosedCloses`, `RequeueCloses`), and one lemma per action on top.

The second layer, `Inv2`, is about behaviours in which no transaction outlived its
lease. `HarnessAccounted` needs to know which runners may still come to work: one that
is up but was never told counts as well, since a holder that lost its lease may send its
start. `Recorded` says of all of these, but for those that were left, that the last
attempt of a running turn records them. It is inductive only with `Relies`, what the
owner of a turn may rely on in each place: that the attempt it works on is the last,
records the runner state it has in memory, and, wherever it is about to start again, to
settle or to lose the turn, that no runner of the turn may work (`Resting`). A step that
throws puts the owner in the last of these places from any other one, so its lemma
(`FailUnexpectedlyOwners`) goes through all of them: either the one runner that may work
is told to stop, or it is left. For the step from pumping to the end of an attempt
`GoesOnTalking` is needed: a runner that may work has not said that it ended. Nothing is
said of a holder that does not own its turn: `May` keeps it from writing, and
`OwnedBefore` shows that no step of another makes it an owner.

The third layer, `Inv3`, also without stalled transactions, is about messages. A
steered message that nobody read is in the input of the next attempt (`AttemptInput`)
and its command stays open for the runner, so it can reach a harness in two ways, and
`ReadOnce` says that one of them counts. `AttemptsRead` is the property said of
attempts: what one took in joined its turn, one that continues a thread took in
nothing that an earlier one read (`Took`: only an attempt whose harness began read
anything), and what was read has no open command. An attempt on a thread of its own
is given everything again, as the code means it to be. It is inductive with what is on
its way: a prompt about to be launched (`PromptFits`) and a runner's inbox hold only
what no other attempt read, if it goes on with their thread (`Fresh`), a
runner acknowledges a message before the agent reads it (`RunnerReads`), and an
acknowledgement the holder has recorded closed the command (`Followed`). So when
`applyFrames` records a message as consumed, the command that would send it again is
closed already. A turn that settles
or is lost gives up only messages no attempt took in (`ClosedReads`).

The invariant of a batch has three layers, each proved on top of the one before.
`Inv1` is about rows and handlers: a job that waits has an attempt left and one that
runs has used one; a parked job belongs to a paused run; an invocation's counter is the
number of its members; the source order lists every item once; a handler holds the
lease of its job until the run is over, no two work on one job, and what a handler read
(`Reads`, `Members`) is of rows that are still there. `Inv2` relates tables. The
counters are the numbers of ended and failed items; every key of a page before the
cursor has an item; the chunks cover the source order, each item once; and a sink job,
a chunk or a completed run say that the whole source is known and every item has ended
(`SinkFits`), which is `SinkSeesAll`. `Inv3` is the sink: chunks that are queued or
being written (`Busy`) fit the width and were given their slots in order, and finalize
has waited for all of them (`WindowFits`). As long as no holder outlived its lease
(`Timely`), a serial sink has written a prefix of the chunks and its stored
state is that prefix (`ThreadFits`), and the state a handler read before it invoked the
sink is still the stored one (`StillSo`), since no second handler writes a serial sink.
`UsedFits` keeps account of the faults, so that a stall is not forgotten.

As in the coordinator, the lemmas are about databases: one for each operator of a
transaction, composed per transaction, and then one per action. Three relations carry
what handlers remember over the steps of others: `Onward` (no run comes back, members
and items stay, a lease is lost only by settling it or when the run is over) and
`Keeps` (outcomes, acknowledged chunks, jobs and items stay) hold for every
transaction, and `Calm` (the sink's slots and state stay as they are) for those that
are not the sink's. `OutcomesStand` is `Keeps`.

Only model-checked: liveness (`LeaseEnds`, `ExhaustionHandled`, `RunsSettle`,
`BatchSettles`, `TurnsSettle`), which is beyond the prover; and `NoneLeftOut` of a
batch, whose invariant would have to follow the job of an invocation and the clock
through every window of its members.

## 6. Not modelled

* Row locks inside a transaction. Each transaction is atomic; lock cycles
  (`finishParent` locks child then parent, `cancel` parent then children) end in
  an abort by the database, which the models cover as a failed call.
* In batches: byte limits of invocations, and steps that process records inside the
  sandbox.
* In sessions: closing, forking and rolling back a session, questions and
  approvals (a waiting turn is a running one), host tool calls, task
  notifications and riders, which thread of a harness is bound (one per harness is
  kept), a thread that is reported lost and bound again, draining a
  runner that has ended or was superseded, and which replicas may take a turn.
* `LISTEN/NOTIFY` wakeups, poll pacing and the fairness ranking of tenants: they
  change when a job is claimed, not what a claim does.
* Authorization, payloads, idempotency keys beyond "new" and "used".
* The other services, adapters, agents and clients, listed in `PROJECT.json`
  with reasons.

The repository has some 440,000 lines, most of them desktop and web clients,
adapters and generated registries. The models cover the durable core: jobs, runs,
batches, turns and claims. They map a small share of the lines, and the rest is
sequential request handling, user interface and I/O, which a model checker has
little to say about.

## 7. Plan

Done: the queue with its abstract specification, proofs of all its safety properties
and refinement; the run coordinator with its handlers, batches and agent turns, with
proofs of all their safety properties but one of batches; replica claims with their
proof.

What is left, in this order:

1. An abstract `WorkflowRun` (a run moves through its steps and ends once) that
   `RunCoordinator` implements.
2. `NodeRecovery`: allocations, capacity and lost machines, composed with
   `RunCoordinator` through `FailRunTree`.
