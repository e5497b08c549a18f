--------------------------- MODULE RunCoordinator ---------------------------
(***************************************************************************)
(* The run coordinator (run-coordinator.ts) with the handler that calls it *)
(* (boundary-execution-handler.ts): a run moves through the steps of its   *)
(* plan, one step attempt at a time; a step attempt is driven by durable   *)
(* jobs, may suspend on a pause or on a child run, may be retried, and the *)
(* run may be signaled, resumed, canceled or failed from outside at any    *)
(* moment.  Batch steps and the operator pauses that only they allow are   *)
(* in BatchExecution.                                                      *)
(*                                                                         *)
(* A step is one database transaction: every coordinator transaction takes *)
(* the run's row lock first.  db is the database and an operator on it is  *)
(* what one method does to it; handlers act on it with what they read      *)
(* before.  Jobs follow the contract of JobLease: one holder, who loses    *)
(* the lease when it lapses.  Their retry budgets are abstracted: a failed *)
(* attempt or a lapse requeues the job or exhausts it.                     *)
(***************************************************************************)
EXTENDS Naturals, FiniteSets, Sequences

CONSTANTS
    Root,           \* the run under study
    Kids,           \* child runs its steps may start; children start none
    Steps,          \* Steps[r]: how many steps the plan of run r has
    MaxAttempts,    \* MaxAttempts[r]: maxAttempts of the policy of r's steps
    Transitions,    \* what the workflow's boundaries may return: "pause", "child"
    Names,          \* signal names
    MaxReceipts,    \* RUN_SIGNAL_MAX_RECEIPTS
    MaxPending,     \* RUN_SIGNAL_MAX_PENDING
    Handlers,       \* job handlers running at the same time, in all processes
    NoHandler, NoAttempt, NoName,
    MaxFaults       \* bound: lapses, failed and deferred job attempts

Runs == {Root} \cup Kids

(* A step attempt is named by its run, step index and attempt number.      *)
Attempts == UNION {{r} \X (1..Steps[r]) \X (1..MaxAttempts[r]) : r \in Runs}

(* The jobs of an attempt: durable_boundary and durable_pause_timeout.     *)
JobIds == Attempts \X {"step", "timeout"}

ASSUME PlanAssumption ==
    /\ Root \notin Kids
    /\ Steps \in [Runs -> Nat \ {0}]
    /\ MaxAttempts \in [Runs -> Nat \ {0}]
    /\ Transitions \subseteq {"pause", "child"}
ASSUME NoneAssumption ==
    /\ NoHandler \notin Handlers
    /\ NoAttempt \notin Attempts
    /\ NoName \notin Names
ASSUME BoundsAssumption == MaxReceipts \in Nat /\ MaxPending \in Nat /\ MaxFaults \in Nat

VARIABLES
    db,         \* the rows the coordinator writes
    handler,    \* handler[h]: the job h runs and where it is in its code
    canceling,  \* runs whose cancel has its second transaction to do
    faults      \* bounded count of injected faults

vars == <<db, handler, canceling, faults>>

ActiveStatuses == {"pending", "running", "waiting"}
TerminalStatuses == {"completed", "failed", "canceled"}

RunRow == [status : ActiveStatuses \cup TerminalStatuses \cup {"absent"},
           step : Nat,                              \* current_step_index
           active : Nat,                            \* attempt number of the active attempt, 0 if none
           parent : Attempts \cup {NoAttempt}]      \* parent_workflow_step_attempt_id

PauseRow == [status : {"absent", "open", "resumed", "timed_out", "canceled"},
             name : Names \cup {NoName},            \* signal_name
             timed : BOOLEAN,                       \* timeout_at is set
             expired : BOOLEAN]                     \* timeout_at <= now

SignalRow == [name : Names, status : {"buffered", "resumed", "discarded"},
              pause : Attempts \cup {NoAttempt}]

(* A failed job is "landed" once a terminal handler's transaction          *)
(* committed for it and "receipted" once exhaustion_handled is set.        *)
JobRow == [status : {"absent", "pending", "running", "completed",
                     "canceled", "failed", "landed", "receipted"},
           holder : Handlers \cup {NoHandler}]

HandlerState ==
    [pc : {"idle", "begin", "invoke", "outcome", "resolve", "return", "throw", "defer"},
     job : JobIds \cup {NoAttempt}]

DB == [run : [Runs -> RunRow],
       att : [Attempts -> ActiveStatuses \cup TerminalStatuses \cup {"absent"}],
       pause : [Attempts -> PauseRow],
       signal : [Runs -> Seq(SignalRow)],               \* in sequence order
       job : [JobIds -> JobRow]]

TypeOK ==
    /\ db \in DB
    /\ \A r \in Runs : /\ db.run[r].active <= MaxAttempts[r]
                       /\ Len(db.signal[r]) <= MaxReceipts
    /\ handler \in [Handlers -> HandlerState]
    /\ canceling \subseteq Runs
    /\ faults \in 0..MaxFaults

-----------------------------------------------------------------------------
(* What the coordinator's methods do to the database.                      *)

Idle == [pc |-> "idle", job |-> NoAttempt]

Job(s) == [status |-> s, holder |-> NoHandler]

LiveJob(d, j) == d.job[j].status \in {"pending", "running"}

IsActiveAttempt(d, k) == d.run[k[1]].step = k[2] /\ d.run[k[1]].active = k[3]

(* lockActiveAttempt finds the attempt: its run is active and it is the    *)
(* run's active attempt.                                                   *)
LockActiveAttempt(d, k) ==
    /\ d.run[k[1]].status \in ActiveStatuses
    /\ IsActiveAttempt(d, k)

OwnsJob(d, h, j) == d.job[j] = [status |-> "running", holder |-> h]

(* Cancel the pending and running jobs of S.                               *)
CancelJobs(d, S) ==
    [d EXCEPT !.job = [j \in JobIds |-> IF j \in S /\ LiveJob(d, j)
                                        THEN Job("canceled") ELSE d.job[j]]]

(* Attempts in S that are still live end with status s; their open pauses  *)
(* are canceled.                                                           *)
EndAttempts(d, S, s) ==
    LET live == {k \in S : d.att[k] \in ActiveStatuses}
    IN  [d EXCEPT
            !.att = [k \in Attempts |-> IF k \in live THEN s ELSE d.att[k]],
            !.pause = [k \in Attempts |->
                IF k \in live /\ d.pause[k].status = "open"
                THEN [d.pause[k] EXCEPT !.status = "canceled"] ELSE d.pause[k]]]

AttemptsOf(S) == {k \in Attempts : k[1] \in S}

JobsOf(S) == {j \in JobIds : j[1][1] \in S}

(* cleanupStepScope, and the attempt marked failed.  keep holds the job of *)
(* the caller, which settles itself.                                       *)
FailAttempt(d, k, keep) ==
    CancelJobs(EndAttempts(d, {k}, "failed"), {j \in JobIds : j[1] = k} \ keep)

(* cleanupRunScope for the runs of S.                                      *)
CleanupRunScope(d, S, keep) ==
    CancelJobs(EndAttempts(d, AttemptsOf(S), "failed"), JobsOf(S) \ keep)

(* createStepAttempt: k becomes the active attempt and its job is queued.  *)
CreateStepAttempt(d, k) ==
    LET row == d.run[k[1]]
    IN  [d EXCEPT
            !.att[k] = "pending",
            !.run[k[1]] = [row EXCEPT !.step = k[2], !.active = k[3],
                                      !.status = IF @ \in ActiveStatuses THEN "pending" ELSE @],
            !.job[<<k, "step">>] = Job("pending")]

(* The runs of S end with status s; the trigger workflow_runs_discard_signals *)
(* discards the signals they have not consumed.                            *)
EndRuns(d, S, s) ==
    [d EXCEPT
        !.run = [r \in Runs |-> IF r \in S THEN [d.run[r] EXCEPT !.status = s] ELSE d.run[r]],
        !.signal = [r \in Runs |-> [i \in DOMAIN d.signal[r] |->
            IF r \in S /\ d.signal[r][i].status = "buffered"
            THEN [d.signal[r][i] EXCEPT !.status = "discarded"] ELSE d.signal[r][i]]]]

(* advance, up to the end of the run itself.                               *)
Advance(d, k) ==
    LET r == k[1]
    IN  IF d.run[r].status \notin ActiveStatuses \/ d.run[r].step # k[2] THEN d
        ELSE IF k[2] < Steps[r] THEN CreateStepAttempt(d, <<r, k[2] + 1, 1>>)
        ELSE EndRuns([d EXCEPT !.run[r].active = 0], {r}, "completed")

(* Mutant: the run moves on and the attempt stays as it was.               *)
CompleteAttemptUnmarked(d, k) == Advance(d, k)

CompleteAttempt(d, k) == Advance([d EXCEPT !.att[k] = "completed"], k)

(* failRun for the runs of S.                                              *)
FailRuns(d, S, keep) ==
    EndRuns(CleanupRunScope(d, S, keep), {r \in S : d.run[r].status \in ActiveStatuses}, "failed")

(* Mutant: the last retry is one attempt late.                             *)
RetryOrFailOffByOne(d, k, keep, retry) ==
    IF retry /\ k[3] <= MaxAttempts[k[1]]
    THEN CreateStepAttempt(d, <<k[1], k[2], k[3] + 1>>)
    ELSE FailRuns(d, {k[1]}, keep)

(* After attempt k failed: the next attempt of its step, or the run fails. *)
RetryOrFail(d, k, keep, retry) ==
    IF retry /\ k[3] < MaxAttempts[k[1]]
    THEN CreateStepAttempt(d, <<k[1], k[2], k[3] + 1>>)
    ELSE FailRuns(d, {k[1]}, keep)

(* finishParent: the attempt that waits for child run r takes its outcome. *)
FinishParent(d, r) ==
    LET k == d.run[r].parent
    IN  IF k = NoAttempt THEN d
        ELSE IF ~LockActiveAttempt(d, k) \/ d.att[k] # "waiting" THEN d
        ELSE IF d.run[r].status = "completed" THEN CompleteAttempt(d, k)
        ELSE RetryOrFail(FailAttempt(d, k, {}), k, {}, TRUE)

(* Mutant: only a successful child reports to its parent.                  *)
ReportCompletedOnly(d, e, r) ==
    IF d.run[r].status \in ActiveStatuses /\ e.run[r].status = "completed"
    THEN FinishParent(e, r) ELSE e

(* The end of advance and of failRun: a transaction that took the database *)
(* from d to e and ended run r finishes r's parent.                        *)
Report(d, e, r) ==
    IF d.run[r].status \in ActiveStatuses /\ e.run[r].status \in TerminalStatuses
    THEN FinishParent(e, r) ELSE e

CompleteStep(d, k) == Report(d, CompleteAttempt(d, k), k[1])

FailStep(d, k, keep, retry) ==
    Report(d, RetryOrFail(FailAttempt(d, k, keep), k, keep, retry), k[1])

(* resolvePause: the waiting attempt completes with the pause's outcome s. *)
ResolvePause(d, k, s) ==
    LET e == [d EXCEPT !.pause[k].status = s]
    IN  IF LockActiveAttempt(e, k) /\ e.att[k] = "waiting" THEN CompleteStep(e, k) ELSE e

Buffered(d, r, n) ==
    {i \in DOMAIN d.signal[r] : d.signal[r][i].name = n /\ d.signal[r][i].status = "buffered"}

(* Mutant: the newest signal is taken.                                     *)
NextSignalNewest(d, r, n) ==
    CHOOSE i \in Buffered(d, r, n) : \A m \in Buffered(d, r, n) : m <= i

(* The buffered signal with the lowest sequence number.                    *)
NextSignal(d, r, n) ==
    CHOOSE i \in Buffered(d, r, n) : \A m \in Buffered(d, r, n) : i <= m

(* Mutant: a signal sent before the pause opened is not looked for.        *)
ResolveNamedPauseNever(d, k) == d

(* resolveNamedPause, on an open pause.                                    *)
ResolveNamedPause(d, k) ==
    LET r == k[1]
        n == d.pause[k].name
    IN  IF d.pause[k].expired THEN ResolvePause(d, k, "timed_out")
        ELSE IF Buffered(d, r, n) = {} THEN d
        ELSE ResolvePause([d EXCEPT !.signal[r][NextSignal(d, r, n)] =
                                [@ EXCEPT !.status = "resumed", !.pause = k]],
                          k, "resumed")

Init ==
    /\ db = CreateStepAttempt(
                [run |-> [r \in Runs |->
                            [status |-> IF r = Root THEN "pending" ELSE "absent",
                             step |-> 0, active |-> 0, parent |-> NoAttempt]],
                 att |-> [k \in Attempts |-> "absent"],
                 pause |-> [k \in Attempts |-> [status |-> "absent", name |-> NoName,
                                                timed |-> FALSE, expired |-> FALSE]],
                 signal |-> [r \in Runs |-> <<>>],
                 job |-> [j \in JobIds |-> Job("absent")]],
                <<Root, 1, 1>>)
    /\ handler = [h \in Handlers |-> Idle]
    /\ canceling = {}
    /\ faults = 0

-----------------------------------------------------------------------------
(* The job queue, to the coordinator.                                      *)

At(h, pc) == handler[h].pc = pc

Goto(h, pc) == handler' = [handler EXCEPT ![h].pc = pc]

Fault == faults < MaxFaults /\ faults' = faults + 1

(* A due job is leased to a free handler.                                  *)
Claim(h, j) ==
    /\ At(h, "idle")
    /\ db.job[j].status = "pending"
    /\ db' = [db EXCEPT !.job[j] = [status |-> "running", holder |-> h]]
    /\ handler' = [handler EXCEPT ![h] =
            [pc |-> IF j[2] = "timeout" THEN "resolve" ELSE "begin", job |-> j]]
    /\ UNCHANGED <<canceling, faults>>

(* The lease of j lapses, its holder being gone or unable to renew it, and *)
(* the sweep requeues or exhausts the job.                                 *)
Lapse(j) ==
    /\ db.job[j].status = "running"
    /\ IF handler[db.job[j].holder].job = j THEN Fault ELSE UNCHANGED faults
    /\ \E s \in {"pending", "failed"} : db' = [db EXCEPT !.job[j] = Job(s)]
    /\ UNCHANGED <<handler, canceling>>

Crash(h) ==
    /\ ~At(h, "idle")
    /\ Fault
    /\ handler' = [handler EXCEPT ![h] = Idle]
    /\ UNCHANGED <<db, canceling>>

(* The statement that settles the lease changes nothing once h lost it.    *)
Settle(h, S) ==
    LET j == handler[h].job
    IN  /\ \E s \in S : db' = IF OwnsJob(db, h, j)
                              THEN [db EXCEPT !.job[j] = Job(s)] ELSE db
        /\ handler' = [handler EXCEPT ![h] = Idle]
        /\ UNCHANGED <<canceling, faults>>

JobComplete(h) == At(h, "return") /\ Settle(h, {"completed"})

JobFail(h) == At(h, "throw") /\ Settle(h, {"pending", "failed"})

JobDefer(h) == At(h, "defer") /\ Settle(h, {"pending"})

-----------------------------------------------------------------------------
(* The handlers.                                                           *)

AttemptOf(h) == handler[h].job[1]

RunOf(h) == AttemptOf(h)[1]

(* reserveRateCapacity finds no tokens; invokeRuntime is rate limited.     *)
Throttled(h) ==
    /\ At(h, "begin") \/ At(h, "outcome")
    /\ Fault
    /\ Goto(h, "defer")
    /\ UNCHANGED <<db, canceling>>

BeginAttempt(h) ==
    LET k == AttemptOf(h)
        r == RunOf(h)
        begins == /\ db.run[r].status \in ActiveStatuses
                  /\ OwnsJob(db, h, handler[h].job)
                  /\ db.att[k] \in {"pending", "running"}
    IN  /\ At(h, "begin")
        /\ Goto(h, IF begins THEN "invoke" ELSE "return")
        /\ db' = IF begins
                 THEN [db EXCEPT !.att[k] = "running", !.run[r].status = "running"]
                 ELSE db
        /\ UNCHANGED <<canceling, faults>>

(* boundaryDeadline, null for an attempt or a lease that is lost, and      *)
(* invokeRuntime, whose answer counts only if the run is active and the    *)
(* lease held when it arrives.  What is lost stays lost, so one step does  *)
(* for both: the handler returns if the first saw the loss and throws if   *)
(* the second did, or if the runtime or a call fails.                      *)
InvokeRuntime(h) ==
    LET k == AttemptOf(h)
        owned == db.run[RunOf(h)].status \in ActiveStatuses /\ OwnsJob(db, h, handler[h].job)
        deadline == owned /\ LockActiveAttempt(db, k) /\ db.att[k] = "running"
    IN  /\ At(h, "invoke")
        /\ \/ ~deadline /\ Goto(h, "return") /\ UNCHANGED faults
           \/ ~owned /\ Goto(h, "throw") /\ UNCHANGED faults
           \/ owned /\ Goto(h, "outcome") /\ UNCHANGED faults
           \/ owned /\ Goto(h, "throw") /\ Fault
        /\ UNCHANGED <<db, canceling>>

(* The transaction of an outcome takes the database to d; the handler goes *)
(* on, or throws because the answer was lost after the commit.             *)
Commit(h, d) ==
    /\ db' = d
    /\ \/ Goto(h, "return") /\ UNCHANGED faults
       \/ Goto(h, "throw") /\ Fault
    /\ UNCHANGED canceling

(* completeStep, by a boundary that completed.                             *)
HandlerCompletes(h) ==
    LET k == AttemptOf(h)
    IN  /\ At(h, "outcome")
        /\ Commit(h, IF /\ LockActiveAttempt(db, k)
                        /\ db.att[k] \in {"running", "waiting"}
                        /\ OwnsJob(db, h, handler[h].job)
                     THEN CompleteStep(db, k) ELSE db)

(* failStep, by a boundary: its code failed, its state is too large (no    *)
(* retry), or an error surfaced after its deadline.                        *)
HandlerFails(h, retry) ==
    LET k == AttemptOf(h)
    IN  /\ \/ At(h, "outcome")
           \/ At(h, "throw") /\ handler[h].job[2] = "step" /\ retry
        /\ Commit(h, IF /\ LockActiveAttempt(db, k)
                        /\ db.att[k] \in ActiveStatuses
                        /\ OwnsJob(db, h, handler[h].job)
                     THEN FailStep(db, k, {handler[h].job}, retry) ELSE db)

SuspendForPause(h, n, timed) ==
    LET k == AttemptOf(h)
        d == [db EXCEPT !.pause[k] = [status |-> "open", name |-> n,
                                      timed |-> timed, expired |-> FALSE],
                        !.att[k] = "waiting",
                        !.run[k[1]].status = "waiting"]
        e == ResolveNamedPause(d, k)
    IN  /\ At(h, "outcome")
        /\ "pause" \in Transitions
        /\ Commit(h, IF ~(/\ LockActiveAttempt(db, k)
                          /\ db.att[k] = "running"
                          /\ OwnsJob(db, h, handler[h].job)) THEN db
                     ELSE IF timed /\ e = d
                          THEN [d EXCEPT !.job[<<k, "timeout">>] = Job("pending")]
                     ELSE e)

Spawn(d, k, kid) ==
    CreateStepAttempt(
        [d EXCEPT !.run[kid] = [@ EXCEPT !.status = "pending", !.parent = k],
                  !.att[k] = "waiting", !.run[k[1]].status = "waiting"],
        <<kid, 1, 1>>)

(* Mutant: a redelivered step starts its child again.                      *)
SuspendForChildUnfenced(h, kid) ==
    LET k == AttemptOf(h)
    IN  /\ At(h, "outcome")
        /\ RunOf(h) = Root
        /\ "child" \in Transitions
        /\ db.run[kid].status = "absent"
        /\ Commit(h, IF LockActiveAttempt(db, k) THEN Spawn(db, k, kid) ELSE db)

SuspendForChild(h, kid) ==
    LET k == AttemptOf(h)
    IN  /\ At(h, "outcome")
        /\ RunOf(h) = Root
        /\ "child" \in Transitions
        /\ db.run[kid].status = "absent"
        /\ Commit(h, IF /\ LockActiveAttempt(db, k)
                        /\ db.run[Root].status = "running"
                        /\ db.att[k] = "running"
                        /\ OwnsJob(db, h, handler[h].job)
                     THEN Spawn(db, k, kid) ELSE db)

(* Mutant: a pause that someone resumed times out as well.                 *)
ResolvePauseTimeoutAnyStatus(h) ==
    LET k == AttemptOf(h)
        owned == db.run[k[1]].status \in ActiveStatuses /\ OwnsJob(db, h, handler[h].job)
    IN  /\ At(h, "resolve")
        /\ \/ owned /\ db.pause[k].expired /\ Commit(h, ResolvePause(db, k, "timed_out"))
           \/ ~owned /\ Goto(h, "return") /\ UNCHANGED <<db, canceling, faults>>
           \/ owned /\ ~db.pause[k].expired /\ Goto(h, "defer")
              /\ UNCHANGED <<db, canceling, faults>>

(* resolvePauseTimeout, the handler of durable_pause_timeout.              *)
ResolvePauseTimeout(h) ==
    LET k == AttemptOf(h)
        open == /\ db.run[k[1]].status \in ActiveStatuses
                /\ OwnsJob(db, h, handler[h].job)
                /\ db.pause[k].status = "open"
    IN  /\ At(h, "resolve")
        /\ \/ open /\ db.pause[k].expired /\ Commit(h, ResolvePause(db, k, "timed_out"))
           \/ /\ ~open
              /\ Goto(h, "return")
              /\ UNCHANGED <<db, canceling, faults>>
           \/ /\ open /\ ~db.pause[k].expired
              /\ Goto(h, "defer")
              /\ UNCHANGED <<db, canceling, faults>>

(* Mutant: a step that waits is left alone.                                *)
HandleExhaustedJobNotWaiting(j) ==
    LET k == j[1]
        retry == j[2] # "step"
        d == IF LockActiveAttempt(db, k) /\ db.att[k] \in {"pending", "running"}
             THEN FailStep(db, k, {}, retry) ELSE db
    IN  /\ db.job[j].status \in {"failed", "landed"}
        /\ db' = [d EXCEPT !.job[j] = Job("landed")]
        /\ UNCHANGED <<handler, canceling, faults>>

(* handleExhaustedJob, run by whoever exhausted the job and, after a crash *)
(* or a failure, again by a sweep until the receipt is written.            *)
HandleExhaustedJob(j) ==
    LET k == j[1]
        retry == j[2] # "step"
        d == IF LockActiveAttempt(db, k) /\ db.att[k] \in ActiveStatuses
             THEN FailStep(db, k, {}, retry) ELSE db
    IN  /\ db.job[j].status \in {"failed", "landed"}
        /\ db' = [d EXCEPT !.job[j] = Job("landed")]
        /\ UNCHANGED <<handler, canceling, faults>>

ConfirmExhaustionHandled(j) ==
    /\ db.job[j].status = "landed"
    /\ db' = [db EXCEPT !.job[j] = Job("receipted")]
    /\ UNCHANGED <<handler, canceling, faults>>

-----------------------------------------------------------------------------
(* Callers from outside.                                                   *)

PauseExpires(k) ==
    /\ db.pause[k].timed /\ ~db.pause[k].expired
    /\ db' = [db EXCEPT !.pause[k].expired = TRUE]
    /\ UNCHANGED <<handler, canceling, faults>>

(* signalByKey with a new idempotency key; a used key changes nothing.     *)
SignalByKey(r, n) ==
    LET d == [db EXCEPT !.signal[r] =
                Append(@, [name |-> n, status |-> "buffered", pause |-> NoAttempt])]
        open == {k \in AttemptsOf({r}) : d.pause[k].status = "open" /\ d.pause[k].name = n}
    IN  /\ db.run[r].status \in ActiveStatuses
        /\ Len(db.signal[r]) < MaxReceipts
        /\ Cardinality({i \in DOMAIN db.signal[r] : db.signal[r][i].status = "buffered"}) < MaxPending
        /\ db' = IF open = {} THEN d ELSE ResolveNamedPause(d, CHOOSE k \in open : TRUE)
        /\ UNCHANGED <<handler, canceling, faults>>

ResumePause(k) ==
    /\ db.pause[k].status = "open"
    /\ db.run[k[1]].status \in ActiveStatuses
    /\ db' = ResolvePause(db, k, IF db.pause[k].expired THEN "timed_out" ELSE "resumed")
    /\ UNCHANGED <<handler, canceling, faults>>

(* lockRunHierarchy: r and its descendants.                                *)
Hierarchy(r) == {r} \cup {c \in Runs : db.run[c].parent # NoAttempt /\ db.run[c].parent[1] = r}

(* Mutant: attempts that wait are not ended.                               *)
CancelRunsNotWaiting(d, S) ==
    EndRuns(CancelJobs(EndAttempts(d, {k \in AttemptsOf(S) : d.att[k] # "waiting"},
                                   "canceled"), JobsOf(S)),
            S, "canceled")

CancelRuns(d, S) ==
    EndRuns(CancelJobs(EndAttempts(d, AttemptsOf(S), "canceled"), JobsOf(S)), S, "canceled")

(* Mutant: the whole tree ends again, runs that had ended included.        *)
CancelWholeTree(r) ==
    /\ db.run[r].status # "absent"
    /\ db' = CancelRuns(db, Hierarchy(r))
    /\ canceling' = IF db.run[r].parent = NoAttempt THEN canceling ELSE canceling \cup {r}
    /\ UNCHANGED <<handler, faults>>

(* cancel, first transaction: the nonterminal runs of the tree end.        *)
Cancel(r) ==
    LET S == {c \in Hierarchy(r) : db.run[c].status \notin TerminalStatuses}
    IN  /\ db.run[r].status # "absent"
        /\ db' = CancelRuns(db, S)
        /\ canceling' = IF db.run[r].parent = NoAttempt THEN canceling ELSE canceling \cup {r}
        /\ UNCHANGED <<handler, faults>>

(* cancel, second transaction: reconcileParentFromTerminalChild.           *)
CancelReconciles(r) ==
    /\ r \in canceling
    /\ db' = IF db.run[r].status \in TerminalStatuses THEN FinishParent(db, r) ELSE db
    /\ canceling' = canceling \ {r}
    /\ UNCHANGED <<handler, faults>>

(* The process dies between the two transactions of cancel.                *)
CancelCrashes(r) ==
    /\ r \in canceling
    /\ canceling' = canceling \ {r}
    /\ UNCHANGED <<db, handler, faults>>

(* failRunTree: the machine of the tree is lost for good.  The root fails  *)
(* first, so no descendant finds a waiting parent.                         *)
FailRunTree ==
    LET S == {c \in Hierarchy(Root) : db.run[c].status \in ActiveStatuses}
    IN  /\ S # {}
        /\ db' = FailRuns(db, S, {})
        /\ UNCHANGED <<handler, canceling, faults>>

-----------------------------------------------------------------------------
Handle(h) ==
    \/ BeginAttempt(h) \/ InvokeRuntime(h)
    \/ HandlerCompletes(h) \/ HandlerFails(h, TRUE) \/ HandlerFails(h, FALSE)
    \/ \E n \in Names \cup {NoName}, t \in BOOLEAN : SuspendForPause(h, n, t)
    \/ \E kid \in Kids : SuspendForChild(h, kid)
    \/ ResolvePauseTimeout(h)
    \/ JobComplete(h) \/ JobFail(h) \/ JobDefer(h)

Operate(r) ==
    \/ \E n \in Names : SignalByKey(r, n)
    \/ Cancel(r) \/ CancelCrashes(r)

Next ==
    \/ \E h \in Handlers : \/ \E j \in JobIds : Claim(h, j)
                           \/ Handle(h) \/ Throttled(h) \/ Crash(h)
    \/ \E j \in JobIds : Lapse(j) \/ HandleExhaustedJob(j) \/ ConfirmExhaustionHandled(j)
    \/ \E k \in Attempts : PauseExpires(k) \/ ResumePause(k)
    \/ \E r \in Runs : Operate(r) \/ CancelReconciles(r)
    \/ FailRunTree

Spec == Init /\ [][Next]_vars

(* Workers keep claiming, handlers end, lapsed leases and failed jobs are  *)
(* swept, clocks advance, cancel goes on to its second transaction.        *)
Fairness ==
    /\ WF_vars(\E h \in Handlers, j \in JobIds : Claim(h, j))
    /\ \A h \in Handlers : WF_vars(Handle(h))
    /\ WF_vars(\E j \in JobIds : Lapse(j))
    /\ WF_vars(\E j \in JobIds : HandleExhaustedJob(j))
    /\ WF_vars(\E k \in Attempts : PauseExpires(k))
    /\ WF_vars(\E r \in Runs : CancelReconciles(r))

FairSpec == Spec /\ Fairness

-----------------------------------------------------------------------------
(* What the coordinator promises.                                          *)

(* A run has at most one attempt that may still change, the one its state  *)
(* row names, and a run that ended has none: whatever retries, pauses,     *)
(* children and cancels race (lockActiveAttempt, cleanupRunScope, cancel). *)
OneLiveAttempt ==
    \A k \in Attempts : db.att[k] \in ActiveStatuses =>
        /\ IsActiveAttempt(db, k)
        /\ db.run[k[1]].status \in ActiveStatuses

(* Step s + 1 is reached only through a completed attempt of step s, and   *)
(* no step completes twice (advance, createStepAttempt).                   *)
StepsInOrder ==
    \A r \in Runs : \A s \in 1..Steps[r] :
        LET done == {n \in 1..MaxAttempts[r] : db.att[<<r, s, n>>] = "completed"}
        IN  /\ Cardinality(done) <= 1
            /\ s < db.run[r].step \/ db.run[r].status = "completed" => done # {}

(* A job that still drives attempt k, an exhausted one whose terminal      *)
(* handler has yet to run included.                                        *)
HasJob(d, k, kind) ==
    LiveJob(d, <<k, kind>>) \/ d.job[<<k, kind>>].status = "failed"

(* An open pause: someone may resume it, and a timed one has its job.      *)
OnPause(d, k) ==
    /\ d.pause[k].status = "open"
    /\ d.pause[k].timed => HasJob(d, k, "timeout")

(* A child that will report: it has not ended, or it was canceled and the  *)
(* cancel has not reached the parent (a repeated cancel does).             *)
OnChild(d, k) ==
    \E c \in Kids : /\ d.run[c].parent = k
                    /\ d.run[c].status \notin {"completed", "failed"}

(* An active run is never left with nothing that will move it on: a job of *)
(* its active attempt, an open pause, or a child that will report.         *)
Driven ==
    \A r \in Runs : db.run[r].status \in ActiveStatuses =>
        LET k == <<r, db.run[r].step, db.run[r].active>>
        IN  /\ db.run[r].active # 0
            /\ \/ db.att[k] \in {"pending", "running"} /\ HasJob(db, k, "step")
               \/ db.att[k] = "waiting" /\ (OnPause(db, k) \/ OnChild(db, k))

(* An open pause never waits for a signal that is already there, whichever *)
(* came first, and a run that ended left none unanswered (suspendForPause, *)
(* signalByKey, discard_workflow_signals).                                 *)
NoMissedSignal ==
    /\ \A k \in Attempts :
        db.pause[k].status = "open" => Buffered(db, k[1], db.pause[k].name) = {}
    /\ \A r \in Runs, n \in Names :
        db.run[r].status \in TerminalStatuses => Buffered(db, r, n) = {}

(* Signals of one name are consumed in the order they were accepted, each  *)
(* by a pause of its own that it resumed (resolveNamedPause).              *)
SignalsInOrder ==
    \A r \in Runs : \A i, m \in DOMAIN db.signal[r] :
        LET a == db.signal[r][i]
            b == db.signal[r][m]
        IN  /\ a.status = "resumed" => db.pause[a.pause].status = "resumed"
            /\ i < m /\ a.name = b.name /\ b.status = "resumed" =>
                    a.status = "resumed" /\ a.pause # b.pause

(* A step attempt starts at most one child, however often its job is       *)
(* delivered (suspendForChild).                                            *)
OneChildPerAttempt ==
    \A a, b \in Kids : a # b /\ db.run[a].parent # NoAttempt => db.run[a].parent # db.run[b].parent

(* r waits for a person: it is on a pause without a timeout.               *)
AwaitsPerson(r) ==
    \E k \in AttemptsOf({r}) : /\ LockActiveAttempt(db, k)
                               /\ db.pause[k].status = "open"
                               /\ ~db.pause[k].timed

(* A run comes to an end, or waits for a person, itself or through its     *)
(* child, or its child's cancel died before it told the parent: timeouts,  *)
(* retries, exhausted jobs and children that end always move it on         *)
(* (resolvePauseTimeout, handleExhaustedJob, finishParent).                *)
RunsSettle ==
    \A r \in Runs : []<>(
        \/ db.run[r].status \notin ActiveStatuses
        \/ AwaitsPerson(r)
        \/ \E c \in Kids, k \in AttemptsOf({r}) :
                /\ LockActiveAttempt(db, k)
                /\ db.run[c].parent = k
                /\ db.run[c].status = "canceled" \/ AwaitsPerson(c))

(* Cancellation and completion have one winner: what has ended never       *)
(* changes again, be it a run, an attempt or a pause (ADR 0025).           *)
OutcomesAreFinal ==
    [][/\ \A r \in Runs : db.run[r].status \in TerminalStatuses =>
                db'.run[r].status = db.run[r].status /\ db'.run[r].step = db.run[r].step
       /\ \A k \in Attempts :
            /\ db.att[k] \in TerminalStatuses => db'.att[k] = db.att[k]
            /\ db.pause[k].status \notin {"absent", "open"} =>
                    db'.pause[k].status = db.pause[k].status]_vars
=============================================================================
