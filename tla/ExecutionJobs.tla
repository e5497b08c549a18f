--------------------------- MODULE ExecutionJobs ---------------------------
(***************************************************************************)
(* The durable job queue (execution-jobs-service.ts) and the worker loops  *)
(* and synchronous drivers that run jobs from it                           *)
(* (execution-worker-service.ts).                                          *)
(*                                                                         *)
(* A step is one database transaction or one decision a worker takes       *)
(* between two of them.  Workers act on the snapshot of the lease they     *)
(* claimed; the database row may have moved on since: the lease lapsed and *)
(* a sweep requeued it, the job was canceled, redriven, claimed again.     *)
(*                                                                         *)
(* Time is abstracted to what the statements compare: whether a lease has  *)
(* lapsed (live), whether a pending job is due, and whether an exhaustion  *)
(* stamp is older than EXHAUSTION_CLAIM_MS.  Each may turn at any moment.  *)
(***************************************************************************)
EXTENDS Naturals, FiniteSets

CONSTANTS
    Jobs,               \* rows of execution_jobs, named by their dedupe keys
    Loops,              \* poll loops of all processes
    Drivers,            \* synchronous callers that drive one run's jobs inline
    NoWorker, NoJob,
    MaxAttempts,        \* max_attempts of every job
    MaxLeaseExpiries,   \* MAX_LEASE_EXPIRIES
    ClaimLimit,         \* jobs one poll may claim
    MaxGeneration,      \* bound: leases granted per job
    MaxRevivals,        \* bound: redrives and revivals over a behavior
    MaxFaults           \* bound: crashes, shutdowns and failed calls

Workers == Loops \cup Drivers

ASSUME WorkersAssumption == NoWorker \notin Workers /\ NoJob \notin Jobs
ASSUME LimitsAssumption ==
    /\ MaxAttempts \in Nat \ {0}
    /\ MaxLeaseExpiries \in Nat \ {0}
    /\ ClaimLimit \in Nat \ {0}
    /\ MaxGeneration \in Nat
    /\ MaxRevivals \in Nat
    /\ MaxFaults \in Nat

VARIABLES
    job,        \* job[j]: the row of j
    worker,     \* worker[w]: what w is doing with the job it runs
    held,       \* held[w][j]: generation of the lease w claimed on j, 0 if none
    exh,        \* exh[w][j]: where w is with the terminal handler of j
    handled,    \* history: handled[j], a terminal handler landed for this life of j
    revivals,   \* bounded count of redrives and revivals
    faults      \* bounded count of injected faults

vars == <<job, worker, held, exh, handled, revivals, faults>>

Terminal == {"completed", "failed", "canceled"}

Row == [status : Terminal \cup {"absent", "pending", "running"},
        attempt : Nat,
        expiries : Nat,                         \* lease_expiries
        generation : Nat,                       \* lease_generation
        leasedBy : Workers \cup {NoWorker},     \* leased_by and lease_token
        live : BOOLEAN,                         \* lease_expires_at > now
        due : BOOLEAN,                          \* available_at <= now
        invocation : Nat,                       \* lease of its active_run_invocations row
        stamp : {"none", "fresh", "stale"},     \* exhaustion_handled_at
        receipt : BOOLEAN]                      \* exhaustion_handled

(* What a worker does with the job it runs: its handler runs, then it is   *)
(* about to send the statement that settles the lease.                     *)
WorkerState ==
    [step : {"poll", "handler", "complete", "fail", "release", "defer", "exhausted"},
     job : Jobs \cup {NoJob},
     aborted : BOOLEAN,         \* jobController.signal
     stopped : BOOLEAN]         \* the loop's own signal

TypeOK ==
    /\ job \in [Jobs -> Row]
    /\ worker \in [Workers -> WorkerState]
    /\ held \in [Workers -> [Jobs -> Nat]]
    /\ exh \in [Workers -> [Jobs -> {"none", "handler", "confirm", "unclaim"}]]
    /\ handled \in [Jobs -> BOOLEAN]
    /\ revivals \in Nat
    /\ faults \in Nat

NewRow ==
    [status |-> "absent", attempt |-> 0, expiries |-> 0, generation |-> 0,
     leasedBy |-> NoWorker, live |-> FALSE, due |-> FALSE, invocation |-> 0,
     stamp |-> "none", receipt |-> FALSE]

IdleWorker == [step |-> "poll", job |-> NoJob, aborted |-> FALSE, stopped |-> FALSE]

Init ==
    /\ job = [j \in Jobs |-> NewRow]
    /\ worker = [w \in Workers |-> IdleWorker]
    /\ held = [w \in Workers |-> [j \in Jobs |-> 0]]
    /\ exh = [w \in Workers |-> [j \in Jobs |-> "none"]]
    /\ handled = [j \in Jobs |-> FALSE]
    /\ revivals = 0
    /\ faults = 0

-----------------------------------------------------------------------------
(* The row updates of execution-jobs-service.ts.                           *)

Unleased(r) == [r EXCEPT !.leasedBy = NoWorker, !.live = FALSE]

(* deleteLeaseInvocations: only the row the lease of generation g wrote.   *)
DeleteLeaseInvocations(r, g) ==
    [r EXCEPT !.invocation = IF @ = g THEN 0 ELSE @]

Leased(r, w) ==
    [r EXCEPT !.status = "running", !.leasedBy = w, !.live = TRUE,
              !.generation = @ + 1, !.attempt = @ + 1]

Completed(r, g) ==
    [DeleteLeaseInvocations(Unleased(r), g) EXCEPT !.status = "completed"]

(* Mutant: one attempt too many.                                           *)
FailedOffByOne(r, g) ==
    [DeleteLeaseInvocations(Unleased(r), g) EXCEPT
        !.status = IF r.attempt <= MaxAttempts THEN "pending" ELSE "failed",
        !.due = r.attempt > MaxAttempts]

(* A failed attempt goes back to the queue after a backoff, or ends it.    *)
Failed(r, g) ==
    LET retry == r.attempt < MaxAttempts
    IN  [DeleteLeaseInvocations(Unleased(r), g) EXCEPT
            !.status = IF retry THEN "pending" ELSE "failed",
            !.due = ~retry]

(* Going back without failing refunds the attempt the claim charged.       *)
Released(r, g, d) ==
    [DeleteLeaseInvocations(Unleased(r), g) EXCEPT
        !.status = "pending", !.attempt = @ - 1, !.due = d]

Canceled(r) == [Unleased(r) EXCEPT !.status = "canceled", !.invocation = 0]

(* Mutant: the dead lease's invocation row is left behind.                 *)
ExpiredKeepsInvocation(r) ==
    IF r.expiries + 1 < MaxLeaseExpiries
    THEN [Unleased(r) EXCEPT !.status = "pending", !.due = TRUE,
                             !.attempt = IF @ > 0 THEN @ - 1 ELSE 0,
                             !.expiries = @ + 1]
    ELSE [Unleased(r) EXCEPT !.status = "failed", !.expiries = @ + 1]

(* A lapsed lease refunds its attempt and is charged to its own cap.       *)
Expired(r) ==
    IF r.expiries + 1 < MaxLeaseExpiries
    THEN [Unleased(r) EXCEPT !.status = "pending", !.due = TRUE, !.invocation = 0,
                             !.attempt = IF @ > 0 THEN @ - 1 ELSE 0,
                             !.expiries = @ + 1]
    ELSE [Unleased(r) EXCEPT !.status = "failed", !.invocation = 0,
                             !.expiries = @ + 1]

(* Mutant: a revived row starts its generations over.                      *)
RevivedFromScratch(r, d) == [NewRow EXCEPT !.status = "pending", !.due = d]

(* A terminal row starts over; lease_generation keeps counting.            *)
Revived(r, d) ==
    [Unleased(r) EXCEPT !.status = "pending", !.attempt = 0, !.expiries = 0,
                        !.due = d, !.stamp = "none", !.receipt = FALSE]

(* Mutant: a crashed claimer's stamp is honoured for ever.                 *)
ExhaustedUnclaimed(r) ==
    /\ r.status = "failed"
    /\ ~r.receipt
    /\ r.stamp = "none"

(* Claimable for its terminal handler: no receipt and no claim in force.   *)
Exhausted(r) ==
    /\ r.status = "failed"
    /\ ~r.receipt
    /\ r.stamp # "fresh"

-----------------------------------------------------------------------------
(* Mutant: a lapsed lease may still be settled.                            *)
OwnsLapsed(w, j) ==
    /\ job[j].status = "running"
    /\ job[j].leasedBy = w
    /\ job[j].generation = held[w][j]

(* Mutant: only the generation is compared.                                *)
OwnsGeneration(w, j) == job[j].generation = held[w][j]

(* w's snapshot of its lease on j is the lease the row carries, unlapsed:  *)
(* the WHERE clause of heartbeat, complete, fail and release, and ownsJob. *)
(* lease_token is fresh for every claim, so it agrees exactly when the     *)
(* worker and the generation do.                                           *)
Owns(w, j) ==
    /\ job[j].status = "running"
    /\ job[j].leasedBy = w
    /\ job[j].generation = held[w][j]
    /\ job[j].live

Busy(w, j, step) == worker[w].job = j /\ worker[w].step = step

(* Between two jobs: no handler of either kind is still running.           *)
BetweenJobs(w) ==
    /\ worker[w].step = "poll"
    /\ \A j \in Jobs : exh[w][j] = "none"

(* Between two polls: every job of the last batch has had its turn.        *)
Polling(w) ==
    /\ BetweenJobs(w)
    /\ \A j \in Jobs : held[w][j] = 0

(* runClaimedJobInner returned: the loop goes on to its next claimed job.  *)
Done(w, j) ==
    /\ worker' = [worker EXCEPT ![w] = [@ EXCEPT !.step = "poll", !.job = NoJob,
                                                 !.aborted = FALSE]]
    /\ held' = [held EXCEPT ![w][j] = 0]

SetStep(w, step) == worker' = [worker EXCEPT ![w].step = step]

exhVars == <<exh, handled>>
counters == <<revivals, faults>>

Fault ==
    /\ faults < MaxFaults
    /\ faults' = faults + 1

-----------------------------------------------------------------------------
(* Producers and operators.                                                *)

(* enqueue and enqueueMany: a live row absorbs the duplicate and nothing   *)
(* changes; a new row is inserted, a terminal one is revived.              *)
Enqueue(j) ==
    /\ \E d \in BOOLEAN :
        \/ /\ job[j].status = "absent"
           /\ job' = [job EXCEPT ![j] = [NewRow EXCEPT !.status = "pending", !.due = d]]
           /\ UNCHANGED <<handled, revivals>>
        \/ /\ job[j].status \in Terminal
           /\ revivals < MaxRevivals
           /\ job' = [job EXCEPT ![j] = Revived(@, d)]
           /\ handled' = [handled EXCEPT ![j] = FALSE]
           /\ revivals' = revivals + 1
    /\ UNCHANGED <<worker, held, exh, faults>>

Redrive(j) ==
    /\ job[j].status = "failed"
    /\ revivals < MaxRevivals
    /\ \E d \in BOOLEAN : job' = [job EXCEPT ![j] = Revived(@, d)]
    /\ handled' = [handled EXCEPT ![j] = FALSE]
    /\ revivals' = revivals + 1
    /\ UNCHANGED <<worker, held, exh, faults>>

(* cancel, cancelByDedupeKey, cancelByDedupePrefix.                        *)
Cancel(j) ==
    /\ job[j].status \in {"pending", "running"}
    /\ job' = [job EXCEPT ![j] = Canceled(@)]
    /\ UNCHANGED <<worker, held, exhVars, counters>>

(* available_at passes, or makeAvailable, makeRunAvailable or              *)
(* makeJobsAvailable pulls it forward.                                     *)
MakeAvailable(j) ==
    /\ job[j].status = "pending"
    /\ ~job[j].due
    /\ job' = [job EXCEPT ![j].due = TRUE]
    /\ UNCHANGED <<worker, held, exhVars, counters>>

-----------------------------------------------------------------------------
(* Claims.                                                                 *)

Claimable(j) ==
    /\ job[j].status = "pending"
    /\ job[j].due
    /\ job[j].generation < MaxGeneration

TakeLeases(w, S) ==
    /\ job' = [j \in Jobs |-> IF j \in S THEN Leased(job[j], w) ELSE job[j]]
    /\ held' = [held EXCEPT ![w] = [j \in Jobs |-> IF j \in S THEN job[j].generation + 1
                                                             ELSE @[j]]]
    /\ UNCHANGED <<worker, exhVars, counters>>

(* claim by a poll loop.  selectClaimableJobs narrows the choice by tenant *)
(* floor, weight, ceiling, priority and placement, and skips locked rows.  *)
Claim(w) ==
    /\ Polling(w)
    /\ ~worker[w].stopped
    /\ \E S \in SUBSET {j \in Jobs : Claimable(j)} :
        /\ S # {}
        /\ Cardinality(S) <= ClaimLimit
        /\ TakeLeases(w, S)

(* claimById by a synchronous driver.                                      *)
ClaimById(w, j) ==
    /\ Polling(w)
    /\ ~worker[w].stopped
    /\ Claimable(j)
    /\ TakeLeases(w, {j})

(* A job of the claimed batch gets its turn.                               *)
StartJob(w, j) ==
    /\ BetweenJobs(w)
    /\ ~worker[w].stopped
    /\ held[w][j] # 0
    /\ worker' = [worker EXCEPT ![w] = [@ EXCEPT !.step = "handler", !.job = j]]
    /\ UNCHANGED <<job, held, exhVars, counters>>

(* A stopping loop gives back the claimed jobs it has not started.         *)
ReleaseUnstarted(w, j) ==
    /\ BetweenJobs(w)
    /\ worker[w].stopped
    /\ held[w][j] # 0
    /\ job' = IF Owns(w, j)
              THEN [job EXCEPT ![j] = Released(@, held[w][j], TRUE)]
              ELSE job
    /\ held' = [held EXCEPT ![w][j] = 0]
    /\ UNCHANGED <<worker, exhVars, counters>>

-----------------------------------------------------------------------------
(* Running a claimed job.                                                  *)

(* lease_expires_at passes: no heartbeat of its holder landed in time.     *)
LeaseLapses(j) ==
    /\ job[j].status = "running"
    /\ job[j].live
    /\ job' = [job EXCEPT ![j].live = FALSE]
    /\ UNCHANGED <<worker, held, exhVars, counters>>

(* A heartbeat that finds the lease gone aborts the handler.  One that     *)
(* lands only keeps the lease live.                                        *)
Heartbeat(w, j) ==
    /\ Busy(w, j, "handler")
    /\ ~worker[w].aborted
    /\ ~Owns(w, j)
    /\ worker' = [worker EXCEPT ![w].aborted = TRUE]
    /\ UNCHANGED <<job, held, exhVars, counters>>

(* The fence timer fires, or a heartbeat fails, before the lease is lost.  *)
FenceFires(w, j) ==
    /\ Busy(w, j, "handler")
    /\ ~worker[w].aborted
    /\ worker' = [worker EXCEPT ![w].aborted = TRUE]
    /\ Fault
    /\ UNCHANGED <<job, held, exhVars, revivals>>

(* registerInvocation: inserts unless another lease's row is still there.  *)
RegisterInvocation(w, j) ==
    /\ Busy(w, j, "handler")
    /\ Owns(w, j)
    /\ job[j].invocation = 0
    /\ job' = [job EXCEPT ![j].invocation = held[w][j]]
    /\ UNCHANGED <<worker, held, exhVars, counters>>

UnregisterInvocation(w, j) ==
    /\ Busy(w, j, "handler")
    /\ Owns(w, j)
    /\ job[j].invocation = held[w][j]
    /\ job' = [job EXCEPT ![j] = DeleteLeaseInvocations(@, held[w][j])]
    /\ UNCHANGED <<worker, held, exhVars, counters>>

(* The handler returns, throws, or defers; an aborted one is given back    *)
(* whatever it did.                                                        *)
HandlerSettles(w, j) ==
    /\ Busy(w, j, "handler")
    /\ \/ /\ worker[w].aborted
          /\ SetStep(w, "release")
       \/ /\ ~worker[w].aborted
          /\ \E s \in {"complete", "fail", "defer"} : SetStep(w, s)
    /\ UNCHANGED <<job, held, exhVars, counters>>

Complete(w, j) ==
    /\ Busy(w, j, "complete")
    /\ job' = IF Owns(w, j)
              THEN [job EXCEPT ![j] = Completed(@, held[w][j])]
              ELSE job
    /\ Done(w, j)
    /\ UNCHANGED <<exhVars, counters>>

(* complete throws, its transaction committed or not: the catch block      *)
(* treats the job as failed, or gives it back if it was aborted meanwhile. *)
CompleteThrows(w, j) ==
    /\ Busy(w, j, "complete")
    /\ \/ UNCHANGED job
       \/ /\ Owns(w, j)
          /\ job' = [job EXCEPT ![j] = Completed(@, held[w][j])]
    /\ \E s \in {"fail", "release"} : SetStep(w, s)
    /\ Fault
    /\ UNCHANGED <<held, exhVars, revivals>>

Fail(w, j) ==
    /\ Busy(w, j, "fail")
    /\ \/ /\ ~Owns(w, j)
          /\ Done(w, j)
          /\ UNCHANGED job
       \/ /\ Owns(w, j)
          /\ job' = [job EXCEPT ![j] = Failed(@, held[w][j])]
          /\ IF job'[j].status = "failed"
             THEN SetStep(w, "exhausted") /\ UNCHANGED held
             ELSE Done(w, j)
    /\ UNCHANGED <<exhVars, counters>>

(* release: an aborted job comes back at once, a deferred one when its     *)
(* availableAt passes, or at once when what it parked for has arrived.     *)
Release(w, j) ==
    /\ \E d \in BOOLEAN :
        /\ (Busy(w, j, "release") /\ d) \/ Busy(w, j, "defer")
        /\ job' = IF Owns(w, j)
                  THEN [job EXCEPT ![j] = Released(@, held[w][j], d)]
                  ELSE job
    /\ Done(w, j)
    /\ UNCHANGED <<exhVars, counters>>

(* A settling statement throws without committing; processJob swallows it. *)
SettleThrows(w, j) ==
    /\ \E s \in {"fail", "release", "defer", "exhausted"} : Busy(w, j, s)
    /\ Done(w, j)
    /\ Fault
    /\ UNCHANGED <<job, exhVars, revivals>>

-----------------------------------------------------------------------------
(* The maintenance sweep, which every loop runs between polls.             *)

(* Mutant: a job on its last attempt is not swept.                         *)
RequeueRetryable(w, j) ==
    /\ Polling(w)
    /\ ~worker[w].stopped
    /\ job[j].status = "running"
    /\ ~job[j].live
    /\ job[j].attempt < MaxAttempts
    /\ job' = [job EXCEPT ![j] = Expired(@)]
    /\ UNCHANGED <<worker, held, exhVars, counters>>

(* requeueExpired: rows are updated independently of one another.          *)
RequeueExpired(w, j) ==
    /\ Polling(w)
    /\ ~worker[w].stopped
    /\ job[j].status = "running"
    /\ ~job[j].live
    /\ job' = [job EXCEPT ![j] = Expired(@)]
    /\ UNCHANGED <<worker, held, exhVars, counters>>

StampAll(w, S) ==
    /\ job' = [j \in Jobs |-> IF j \in S THEN [job[j] EXCEPT !.stamp = "fresh"] ELSE job[j]]
    /\ exh' = [exh EXCEPT ![w] = [j \in Jobs |-> IF j \in S THEN "handler" ELSE @[j]]]

(* claimExhausted by drainExhausted.                                       *)
ClaimExhausted(w) ==
    /\ Polling(w)
    /\ ~worker[w].stopped
    /\ \E S \in SUBSET {j \in Jobs : Exhausted(job[j])} :
        /\ S # {}
        /\ StampAll(w, S)
    /\ UNCHANGED <<worker, held, handled, counters>>

(* claimExhaustionFor by the worker that exhausted the job.                *)
ClaimExhaustionFor(w, j) ==
    /\ Busy(w, j, "exhausted")
    /\ IF Exhausted(job[j]) THEN StampAll(w, {j}) ELSE UNCHANGED <<job, exh>>
    /\ Done(w, j)
    /\ UNCHANGED <<handled, counters>>

(* Mutant: an error of the terminal handler is swallowed.                  *)
ExhaustedHandlerSwallows(w, j) ==
    /\ exh[w][j] = "handler"
    /\ exh' = [exh EXCEPT ![w][j] = "confirm"]
    /\ \/ handled' = [handled EXCEPT ![j] = TRUE] /\ UNCHANGED faults
       \/ UNCHANGED handled /\ Fault
    /\ UNCHANGED <<job, worker, held, revivals>>

(* exhaustedHandler lands, or throws.                                      *)
ExhaustedHandler(w, j) ==
    /\ exh[w][j] = "handler"
    /\ \/ /\ exh' = [exh EXCEPT ![w][j] = "confirm"]
          /\ handled' = [handled EXCEPT ![j] = TRUE]
          /\ UNCHANGED faults
       \/ /\ exh' = [exh EXCEPT ![w][j] = "unclaim"]
          /\ Fault
          /\ UNCHANGED handled
    /\ UNCHANGED <<job, worker, held, revivals>>

(* confirmExhaustionHandled names the row by its id alone.                 *)
ConfirmExhaustionHandled(w, j) ==
    /\ exh[w][j] = "confirm"
    /\ \/ /\ job' = [job EXCEPT ![j].receipt = TRUE]
          /\ exh' = [exh EXCEPT ![w][j] = "none"]
          /\ UNCHANGED faults
       \/ /\ exh' = [exh EXCEPT ![w][j] = "unclaim"]
          /\ Fault
          /\ UNCHANGED job
    /\ UNCHANGED <<worker, held, handled, revivals>>

(* releaseExhaustionClaim clears the stamp of a failed row, whoever wrote  *)
(* it; an error of its own is swallowed.                                   *)
ReleaseExhaustionClaim(w, j) ==
    /\ exh[w][j] = "unclaim"
    /\ \/ /\ job' = IF job[j].status = "failed"
                    THEN [job EXCEPT ![j].stamp = "none"]
                    ELSE job
          /\ UNCHANGED faults
       \/ /\ Fault
          /\ UNCHANGED job
    /\ exh' = [exh EXCEPT ![w][j] = "none"]
    /\ UNCHANGED <<worker, held, handled, revivals>>

(* EXHAUSTION_CLAIM_MS passes on a stamp.                                  *)
ExhaustionClaimExpires(j) ==
    /\ job[j].stamp = "fresh"
    /\ job' = [job EXCEPT ![j].stamp = "stale"]
    /\ UNCHANGED <<worker, held, exh, handled, counters>>

-----------------------------------------------------------------------------
(* A process dies with all it held in memory; the same is lost when a      *)
(* claim's answer is, or when pollOnce throws before its batch is done.   *)
Crash(w) ==
    /\ ~Polling(w)
    /\ worker' = [worker EXCEPT ![w] = IdleWorker]
    /\ held' = [held EXCEPT ![w] = [j \in Jobs |-> 0]]
    /\ exh' = [exh EXCEPT ![w] = [j \in Jobs |-> "none"]]
    /\ Fault
    /\ UNCHANGED <<job, handled, revivals>>

(* stop: the loop's signal aborts the running handler too.                 *)
Stop(w) ==
    /\ ~worker[w].stopped
    /\ worker' = [worker EXCEPT ![w] = [@ EXCEPT !.stopped = TRUE,
                                                 !.aborted = (worker[w].step = "handler")]]
    /\ Fault
    /\ UNCHANGED <<job, held, exhVars, revivals>>

(* The stopped loop has drained; a new one starts in its place.            *)
Restart(w) ==
    /\ Polling(w)
    /\ worker[w].stopped
    /\ worker' = [worker EXCEPT ![w].stopped = FALSE]
    /\ UNCHANGED <<job, held, exhVars, counters>>

-----------------------------------------------------------------------------
RunJob(w, j) ==
    \/ StartJob(w, j)
    \/ ReleaseUnstarted(w, j)
    \/ Heartbeat(w, j)
    \/ RegisterInvocation(w, j)
    \/ UnregisterInvocation(w, j)
    \/ HandlerSettles(w, j)
    \/ Complete(w, j)
    \/ Fail(w, j)
    \/ Release(w, j)

Exhaustion(w, j) ==
    \/ ClaimExhaustionFor(w, j)
    \/ ExhaustedHandler(w, j)
    \/ ConfirmExhaustionHandled(w, j)
    \/ ReleaseExhaustionClaim(w, j)

Sweep(w) ==
    \/ ClaimExhausted(w)
    \/ \E j \in Jobs : RequeueExpired(w, j)

Faults(w) ==
    \/ Crash(w)
    \/ Stop(w)
    \/ \E j \in Jobs : FenceFires(w, j) \/ CompleteThrows(w, j) \/ SettleThrows(w, j)

Next ==
    \/ \E j \in Jobs : \/ Enqueue(j) \/ Redrive(j) \/ Cancel(j) \/ MakeAvailable(j)
                       \/ LeaseLapses(j) \/ ExhaustionClaimExpires(j)
    \/ \E w \in Loops : Claim(w) \/ Sweep(w)
    \/ \E w \in Drivers, j \in Jobs : ClaimById(w, j)
    \/ \E w \in Workers : \/ Faults(w)
                          \/ Restart(w)
                          \/ \E j \in Jobs : RunJob(w, j) \/ Exhaustion(w, j)

Spec == Init /\ [][Next]_vars

(* A lease whose holder is gone from memory: no heartbeat will renew it.   *)
AbandonedLeaseLapses(j) ==
    /\ \A w \in Workers : held[w][j] # job[j].generation
    /\ LeaseLapses(j)

Settle(w) ==
    \E j \in Jobs : \/ StartJob(w, j) \/ ReleaseUnstarted(w, j) \/ HandlerSettles(w, j)
                    \/ Complete(w, j) \/ Fail(w, j) \/ Release(w, j)

(* Handlers end (a boundary attempt has a deadline), loops keep polling and *)
(* sweep before each poll, stopped processes are started again, and clocks  *)
(* advance.                                                                *)
Fairness ==
    /\ \A w \in Workers : /\ WF_vars(Settle(w))
                           /\ WF_vars(\E j \in Jobs : Exhaustion(w, j))
                           /\ WF_vars(Restart(w))
    /\ \A w \in Loops : /\ WF_vars(ClaimExhausted(w))
                         /\ WF_vars(\E j \in Jobs : RequeueExpired(w, j))
    /\ \A j \in Jobs : /\ WF_vars(AbandonedLeaseLapses(j))
                        /\ WF_vars(ExhaustionClaimExpires(j))

FairSpec == Spec /\ Fairness

-----------------------------------------------------------------------------
(* Properties.                                                             *)

(* No two workers hold the same lease: across requeues, cancels, revivals  *)
(* and redrives of a row, a lease generation is granted once, and a lease  *)
(* that the row carries is the one its leased_by claimed.  The generation  *)
(* comparison of every guarded statement rests on it.                      *)
LeaseUnique ==
    \A j \in Jobs, w \in Workers :
        /\ held[w][j] <= job[j].generation
        /\ held[w][j] # 0 =>
            /\ \A v \in Workers \ {w} : held[v][j] # held[w][j]
            /\ job[j].status = "running" /\ held[w][j] = job[j].generation
                    => job[j].leasedBy = w

(* An invocation row outlives no lease: whichever way a lease ends         *)
(* (complete, fail, release, requeueExpired, cancel), its row in           *)
(* active_run_invocations goes with it.  A row left behind would make      *)
(* registerInvocation, which does nothing on conflict, refuse every later  *)
(* lease of the same step attempt.                                         *)
InvocationFenced ==
    \A j \in Jobs : job[j].invocation # 0 =>
        job[j].status = "running" /\ job[j].invocation = job[j].generation

(* A job waiting in the queue always has an attempt and a lapse left, and  *)
(* a failed one has used one of the two up: releases and requeues refund   *)
(* exactly what claims charge.                                             *)
Budget ==
    \A j \in Jobs :
        /\ job[j].status = "pending" =>
                job[j].attempt < MaxAttempts /\ job[j].expiries < MaxLeaseExpiries
        /\ job[j].status = "running" =>
                job[j].attempt \in 1 .. MaxAttempts /\ job[j].expiries < MaxLeaseExpiries
        /\ job[j].status = "failed" =>
                job[j].attempt = MaxAttempts \/ job[j].expiries = MaxLeaseExpiries

(* A receipt on a failed job means a terminal handler landed for it: what  *)
(* confirmExhaustionHandled writes and redrive and revival take back.      *)
ReceiptMeansHandled ==
    \A j \in Jobs : job[j].status = "failed" /\ job[j].receipt => handled[j]

(* Every lease ends: it is settled by its holder, or lapses and is swept.  *)
LeaseEnds ==
    \A j \in Jobs : \A g \in 1 .. MaxGeneration :
        (job[j].status = "running" /\ job[j].generation = g)
            ~> ~(job[j].status = "running" /\ job[j].generation = g)

(* Every exhausted job gets its terminal handler, through crashed claimers *)
(* and handlers that throw.                                                *)
ExhaustionHandled ==
    \A j \in Jobs : (job[j].status = "failed") ~> (job[j].status # "failed" \/ handled[j])

-----------------------------------------------------------------------------
(* A row read as JobLease sees it: attempt counts the failures of a        *)
(* pending job and one more while it runs.                                 *)
StateOf(r) ==
    CASE r.status = "pending" -> "ready"
      [] r.status = "running" -> "leased"
      [] OTHER -> r.status
FailuresOf(r) ==
    CASE r.status = "pending" -> r.attempt
      [] r.status = "running" -> r.attempt - 1
      [] OTHER -> 0
LapsesOf(r) == IF r.status \in {"pending", "running"} THEN r.expiries ELSE 0

LeaseState == [j \in Jobs |-> StateOf(job[j])]
LeaseHolder == [j \in Jobs |-> job[j].leasedBy]
LeaseLive == [j \in Jobs |-> job[j].live]
Failures == [j \in Jobs |-> FailuresOf(job[j])]
Lapses == [j \in Jobs |-> LapsesOf(job[j])]

Lease == INSTANCE JobLease WITH
    state <- LeaseState, holder <- LeaseHolder, live <- LeaseLive,
    failures <- Failures, lapses <- Lapses

(* The queue keeps JobLease's promise: stale snapshots settle nothing, and *)
(* attempt and lease_expiries account for failures and lapses exactly.     *)
ImplementsJobLease == Lease!Spec
=============================================================================
