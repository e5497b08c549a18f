--------------------------- MODULE BatchExecution ---------------------------
(***************************************************************************)
(* One batch step of a run (batch-execution-handler.ts) with the jobs that *)
(* drive it: a paged source discovers items, each item is processed by a   *)
(* job of its own, items may wait at a physical batch step that coalesces  *)
(* several of them into one invocation, and when all of them have ended    *)
(* the sink writes them in chunks and the step completes.                  *)
(*                                                                         *)
(* db is the database; an operator on it is one transaction.  A handler    *)
(* acts on it with what it read before.  Jobs keep to JobLease: a lease    *)
(* lapses when its holder is gone, or beside a holder that is only slow    *)
(* and goes on with what it read (Stall); a lapse and a deferral give the  *)
(* attempt back.  The batch is the last step of its plan and the           *)
(* active statuses pending, running and waiting of the run are one here;   *)
(* the sizes of inputs (maxBytes) are left out.  The tables' completion    *)
(* constraints are kept: a row that has ended has its completed_at, so an  *)
(* update that only gives it an open status is refused, its transaction    *)
(* rolls back and the handler throws.                                      *)
(***************************************************************************)
EXTENDS Naturals, FiniteSets, SequencesExt

CONSTANTS
    Pages,          \* the pages of the source, sequences of item keys
    Physical,       \* items whose process calls a batch step
    MaxItems,       \* policy.maxItems of that step
    Outcomes,       \* what user code may answer: "succeeded", "failed", "skipped", "retry"
    MaxFailures,    \* policy.maxFailures; 1 for fail_fast
    HighWater,      \* SOURCE_HIGH_WATER_MARK
    LowWater,       \* SOURCE_LOW_WATER_MARK
    ChunkSize,      \* SINK_CHUNK_SIZE
    Widths,         \* concurrency inspect may find of the sink; {0} when there is none
    MaxAttempts,    \* MAX_BATCH_ITEM_ATTEMPTS, and max_attempts of the other jobs
    MaxInvocations, \* bound: physical invocations of the batch
    Handlers,       \* job handlers running at the same time, in all processes
    NoHandler, NoJob,
    Faults,         \* what may go wrong or intervene: an invocation for a job of a kind fails
                    \* ("source", "item", ...), a call to the "database" fails, a holder outlives
                    \* its lease ("stall"), an item joins an invocation as its window closes
                    \* ("late"), "throttle", "crash", "pause", "cancel"
    MaxFaults       \* bound: how often, in all

Items == UNION {Range(Pages[p]) : p \in DOMAIN Pages}
Invocations == 1..MaxInvocations
Chunks == 1..Cardinality(Items)

(* The jobs of the attempt, by the suffix of their dedupe key.             *)
(* <<"source", 1, 0>> is the initialize job, <<"source", 0, 0>> reads a    *)
(* page without a cursor; <<"item", i, v>> resumes i after invocation v,   *)
(* or starts it when v = 0.                                                *)
Start == <<"start", 0, 0>>
Finalize == <<"finalize", 0, 0>>
SinkJobs == {Start, Finalize} \cup ({"write"} \X Chunks \X {0})
JobIds == UNION {{"source"} \X (0..Len(Pages)) \X {0}, {"item"} \X Items \X (0..MaxInvocations),
                 {"physical"} \X Invocations \X {0}, SinkJobs}

ASSUME BatchAssumption ==
    /\ Pages \in Seq(Seq(Items)) \ {<<>>} /\ IsFiniteSet(Items)
    /\ Physical \subseteq Items
    /\ Outcomes \subseteq {"succeeded", "failed", "skipped", "retry"}
    /\ {MaxItems, HighWater, LowWater, ChunkSize, MaxAttempts, MaxFailures} \subseteq Nat \ {0}
    /\ Widths \subseteq Nat /\ (0 \in Widths => Widths = {0})
    /\ {MaxInvocations, MaxFaults} \subseteq Nat
    /\ NoHandler \notin Handlers

VARIABLES db, handler, used

vars == <<db, handler, used>>

BacklogStatuses == {"pending", "running", "waiting"}
EndedStatuses == {"succeeded", "failed", "skipped"}
TerminalRun == {"completed", "failed", "canceled"}

(* "parked": pending, an hour away for a paused run.  "later": pending,    *)
(* due when the coalescing window closes.  A failed job is "handled" once  *)
(* its terminal handler ran.                                               *)
LiveStatuses == {"pending", "parked", "later", "running"}

(* Kinds of faults that are kept apart in used.                            *)
Told == {"stall", "late", "pause"}

TypeOK ==
    /\ db.run \in {"active", "paused"} \cup TerminalRun
    /\ db.cursor \in 0..Len(Pages)                       \* 0: source_cursor_present is false
    /\ db.snapshot \in BOOLEAN                          \* source_snapshot_present
    /\ db.done \in BOOLEAN /\ db.queued \in BOOLEAN      \* source_done, source_page_queued
    /\ db.order \in Seq(Items)                           \* items by source_order
    /\ db.item \in [Items -> BacklogStatuses \cup EndedStatuses \cup {"absent", "canceled"}]
    /\ db.attempt \in [Items -> Nat]
    /\ db.rows \in [Items -> SUBSET Nat]                \* attempts with a batch_item_steps row,
    /\ db.closed \in [Items -> SUBSET Nat]              \* that has ended,
    /\ db.passed \in [Items -> SUBSET Nat]              \* completed with the step's output
    /\ db.ended \in Nat /\ db.failed \in 0..db.ended     \* the counters of the state row
    /\ db.inv \in [Invocations ->
            [status : {"absent", "pending", "running", "completed", "failed", "canceled"},
             size : Nat, closed : BOOLEAN,
             member : [Items -> {"absent", "pending", "resolved"}],
             resume : [Items -> Nat]]]                   \* itemAttempt of the jobs it resumes
    /\ db.width \in Widths \cup {0}                      \* 0 until a sink has started
    /\ db.state \in Seq(Chunks)                          \* sink_state: the chunks folded into it
    /\ \A c \in DOMAIN db.chunk :
            db.chunk[c] \in [status : {"pending", "running", "completed", "failed"},
                             first : Chunks, last : Chunks]
    /\ db.written \in 0..Len(db.chunk)                  \* sink_completed_chunks
    /\ db.job \in [JobIds -> [status : LiveStatuses \cup {"absent", "completed", "canceled",
                                                          "failed", "handled"},
                              holder : Handlers \cup {NoHandler}, attempt : 0..MaxAttempts]]
    /\ used \in Seq(Told \cup {"fault"}) /\ Len(used) <= MaxFaults

-----------------------------------------------------------------------------
(* Queries and statements.                                                 *)

Idle == [pc |-> "idle", job |-> NoJob, attempt |-> 0, cursor |-> 0, items |-> <<>>, state |-> <<>>,
         out |-> "none", left |-> {}]

Job(s) == [status |-> s, holder |-> NoHandler, attempt |-> 0]

LiveJob(d, j) == d.job[j].status \in LiveStatuses

(* enqueue and enqueueMany: a live row absorbs the duplicate, a terminal   *)
(* one is revived (reviveTerminalJob).                                     *)
Enqueue(d, S, s) ==
    [d EXCEPT !.job = [j \in JobIds |-> IF j \in S /\ ~LiveJob(d, j) THEN Job(s) ELSE d.job[j]]]

OwnsJob(d, h, j) == d.job[j].status = "running" /\ d.job[j].holder = h

(* chk_batch_item_completion: an update may give item i an open status.    *)
Open(d, i) == d.item[i] \in BacklogStatuses

Backlog(d) == Cardinality({i \in Items : Open(d, i)})

(* The part of cancel that cleanupStepScope does as well: jobs, items and  *)
(* invocations that are still open end with the run.                       *)
EndScope(d, s, keep) ==
    [d EXCEPT
        !.run = s,
        !.job = [j \in JobIds |-> IF LiveJob(d, j) /\ j \notin keep
                                  THEN [d.job[j] EXCEPT !.status = "canceled", !.holder = NoHandler]
                                  ELSE d.job[j]],
        !.item = [i \in Items |-> IF d.item[i] \in BacklogStatuses THEN "canceled" ELSE d.item[i]],
        !.inv = [v \in Invocations |->
                    IF d.inv[v].status \in {"pending", "running"}
                    THEN [d.inv[v] EXCEPT !.status = "canceled"] ELSE d.inv[v]]]

(* failStep with cleanupStepScope, which ends members, rows and chunks     *)
(* too; a batch step is not retried, so the run fails.                     *)
FailStep(d, keep) ==
    LET e == EndScope(d, "failed", keep)
        resolved(m) == [i \in Items |-> IF m[i] = "pending" THEN "resolved" ELSE m[i]]
    IN  IF d.run # "active" THEN d
        ELSE [e EXCEPT
                !.inv = [v \in Invocations |->
                            [e.inv[v] EXCEPT !.member = resolved(e.inv[v].member)]],
                !.closed = d.rows,
                !.chunk = [c \in DOMAIN d.chunk |->
                            IF d.chunk[c].status \in {"pending", "running"}
                            THEN [d.chunk[c] EXCEPT !.status = "failed"] ELSE d.chunk[c]]]

(* completeStep and advance, for the holder h of job j.                    *)
CompleteStep(d, h, j) ==
    IF d.run = "active" /\ OwnsJob(d, h, j) THEN [d EXCEPT !.run = "completed"] ELSE d

(* The k-th smallest of a set of numbers.                                  *)
Nth(S, k) == CHOOSE n \in S : Cardinality({m \in S : m <= n}) = k

(* uniqueSourceItems without the keys that are there already: the places   *)
(* of a page that bring a new item, which order then takes in.             *)
NewPlaces(order, page) ==
    {n \in DOMAIN page : page[n] \notin Range(order) /\ \A m \in 1..(n - 1) : page[m] # page[n]}

Discover(order, page) ==
    LET new == NewPlaces(order, page)
    IN  order \o [k \in 1..Cardinality(new) |-> page[Nth(new, k)]]

(* acceptSourcePage, its transaction.                                      *)
AcceptSourcePage(d, p) ==
    LET order == Discover(d.order, Pages[p])
        fresh == {i \in Range(Pages[p]) : d.item[i] = "absent"}
        last == p = Len(Pages)
        e == [d EXCEPT !.order = order,
                       !.item = [i \in Items |-> IF i \in fresh THEN "pending" ELSE d.item[i]]]
        queueNext == ~last /\ Backlog(e) < HighWater
    IN  Enqueue([e EXCEPT !.cursor = IF last THEN 0 ELSE p + 1, !.done = last, !.queued = queueNext],
                ({"item"} \X fresh \X {0}) \cup {j \in {<<"source", p + 1, 0>>} : queueNext},
                "pending")

ScheduleSourcePage(d) ==
    IF d.done \/ d.queued \/ Backlog(d) >= LowWater THEN d
    ELSE [Enqueue(d, {<<"source", d.cursor, 0>>}, "pending") EXCEPT !.queued = TRUE]

(* The transaction of finalizeIfComplete.                                  *)
FinalizeIfComplete(d) ==
    IF \E j \in SinkJobs : LiveJob(d, j) \/ d.job[j].status = "completed" THEN d
    ELSE Enqueue(d, {Start}, "pending")

(* Mutant: items that failed are not counted as ended.                     *)
CompleteItemUncounted(d, i, s) ==
    IF d.item[i] \in EndedStatuses \cup {"canceled"} THEN d
    ELSE [d EXCEPT !.item[i] = s, !.ended = IF s = "failed" THEN @ ELSE @ + 1,
                   !.failed = IF s = "failed" THEN @ + 1 ELSE @]

(* completeItem, its transaction: an item that has ended stays as it is.   *)
CompleteItem(d, i, s) ==
    IF d.item[i] \in EndedStatuses \cup {"canceled"} THEN d
    ELSE [d EXCEPT !.item[i] = s, !.ended = @ + 1, !.failed = IF s = "failed" THEN @ + 1 ELSE @]

(* Mutant: closes_at is not looked at.                                     *)
FindCompatibleInvocationAny(d, W) ==
    {v \in Invocations : d.inv[v].status = "pending" /\ d.inv[v].size < MaxItems}

(* findCompatibleInvocation, to a clock that reads W as the invocations    *)
(* whose window is open.                                                   *)
FindCompatibleInvocation(d, W) ==
    {v \in W : d.inv[v].status = "pending" /\ d.inv[v].size < MaxItems}

OpenWindows(d) == {v \in Invocations : ~d.inv[v].closed}

Least(S) == CHOOSE v \in S : \A w \in S : v <= w

(* The invocation that parkAtPhysicalStep admits to: an open one, oldest   *)
(* first, or a new one, of which the bound leaves some or none.            *)
Candidates(d, W) ==
    IF FindCompatibleInvocation(d, W) # {} THEN FindCompatibleInvocation(d, W)
    ELSE {v \in Invocations : d.inv[v].status = "absent"}

Admitting(d, W) == Least(Candidates(d, W))

(* Mutant: only the first member is counted.                               *)
ParkAtPhysicalStepUncounted(d, i, n, v) ==
    [d EXCEPT !.inv[v].status = "pending", !.inv[v].size = 1,
              !.inv[v].member[i] = IF @ = "absent" THEN "pending" ELSE @,
              !.rows[i] = @ \cup {n},
              !.item[i] = "waiting"]

(* parkAtPhysicalStep, its transaction, for attempt n of item i.  A        *)
(* redelivered job finds itself a member already and does not count again. *)
ParkAtPhysicalStep(d, i, n, v) ==
    LET r == d.inv[v]
        new == r.member[i] = "absent"
    IN  [d EXCEPT !.inv[v] = [r EXCEPT !.status = "pending",
                                       !.size = IF new THEN r.size + 1 ELSE r.size,
                                       !.member[i] = IF new THEN "pending" ELSE r.member[i]],
                  !.rows[i] = @ \cup {n},
                  !.item[i] = "waiting"]

(* The members to be retried, and those that resume: a success as well.    *)
(* seen[i] is the attempt of member i and out[i] its outcome.              *)
Retried(seen, out) == {i \in DOMAIN out : out[i] = "retry" /\ seen[i] < MaxAttempts}

Resuming(seen, out) == Retried(seen, out) \cup {i \in DOMAIN out : out[i] = "succeeded"}

(* persistPhysicalOutcomes, its transaction: the members and their rows    *)
(* take their outcomes, those that resume go on as jobs of their own.      *)
PersistPhysicalOutcomes(d, v, seen, out) ==
    LET resuming == Resuming(seen, out)
        next(i) == IF i \in Retried(seen, out) THEN seen[i] + 1 ELSE seen[i]
        hit == {i \in DOMAIN out : seen[i] \in d.rows[i]}
        done(i) == IF out[i] = "succeeded" THEN d.passed[i] \cup {seen[i]} ELSE d.passed[i] \ {seen[i]}
        r == d.inv[v]
    IN  Enqueue([d EXCEPT
            !.inv[v] = [r EXCEPT
                !.status = "completed",
                !.member = [i \in Items |-> IF i \in DOMAIN out THEN "resolved" ELSE r.member[i]],
                !.resume = [i \in Items |-> IF i \in DOMAIN out THEN next(i) ELSE r.resume[i]]],
            !.closed = [i \in Items |-> IF i \in hit THEN d.closed[i] \cup {seen[i]} ELSE d.closed[i]],
            !.passed = [i \in Items |-> IF i \in hit THEN done(i) ELSE d.passed[i]],
            !.item = [i \in Items |-> IF i \in resuming THEN "pending" ELSE d.item[i]],
            !.attempt = [i \in Items |-> IF i \in resuming THEN next(i) ELSE d.attempt[i]]],
            {"item"} \X resuming \X {v}, "pending")

(* Mutant: the last attempt but one counts as the last.                    *)
TerminalOutcomesEarly(seen, out) ==
    {<<i, IF out[i] = "skipped" THEN "skipped" ELSE "failed">> :
        i \in {m \in DOMAIN out : out[m] \in {"failed", "skipped", "retry"}}}

(* The members whose outcome ends them, with how they end.                 *)
TerminalOutcomes(seen, out) ==
    {<<i, IF out[i] = "skipped" THEN "skipped" ELSE "failed">> :
        i \in {m \in DOMAIN out : out[m] \in {"failed", "skipped"}
                                  \/ (out[m] = "retry" /\ seen[m] >= MaxAttempts)}}

(* createSinkChunks: the ended items, ChunkSize at a time.                 *)
CreateSinkChunks(d) ==
    LET ended == {n \in DOMAIN d.order : d.item[d.order[n]] \in EndedStatuses}
        size == Cardinality(ended)
        count == (size + ChunkSize - 1) \div ChunkSize
    IN  IF Len(d.chunk) > 0 THEN d
        ELSE [d EXCEPT !.chunk = [c \in 1..count |->
                [status |-> "pending", first |-> Nth(ended, (c - 1) * ChunkSize + 1),
                 last |-> Nth(ended, IF c = count THEN size ELSE c * ChunkSize)]]]

ChunksIn(d, s) == {c \in DOMAIN d.chunk : d.chunk[c].status = s}

(* Mutant: running chunks do not use up slots.                             *)
EnqueueNextSinkWorkUncounted(d) ==
    LET next == {c \in ChunksIn(d, "pending") :
                    Cardinality({b \in ChunksIn(d, "pending") : b < c}) < d.width}
    IN  IF next # {} THEN Enqueue(d, {"write"} \X next \X {0}, "pending")
        ELSE IF ChunksIn(d, "completed") # DOMAIN d.chunk THEN d
        ELSE Enqueue(d, {Finalize}, "pending")

(* enqueueNextSinkWork: the first pending chunks, as many as there are     *)
(* slots; finalize when every chunk is completed.                          *)
EnqueueNextSinkWork(d) ==
    LET running == Cardinality(ChunksIn(d, "running"))
        next == {c \in ChunksIn(d, "pending") :
                    running + Cardinality({b \in ChunksIn(d, "pending") : b < c}) < d.width}
    IN  IF next # {} THEN Enqueue(d, {"write"} \X next \X {0}, "pending")
        ELSE IF ChunksIn(d, "completed") # DOMAIN d.chunk THEN d
        ELSE Enqueue(d, {Finalize}, "pending")

Init ==
    /\ db = Enqueue(
            [run |-> "active", cursor |-> 0, snapshot |-> FALSE, done |-> FALSE, queued |-> FALSE, order |-> <<>>,
             item |-> [i \in Items |-> "absent"], attempt |-> [i \in Items |-> 0],
             rows |-> [i \in Items |-> {}], closed |-> [i \in Items |-> {}],
             passed |-> [i \in Items |-> {}],
             ended |-> 0, failed |-> 0,
             inv |-> [v \in Invocations |-> [status |-> "absent", size |-> 0, closed |-> FALSE,
                                             member |-> [i \in Items |-> "absent"],
                                             resume |-> [i \in Items |-> 0]]],
             width |-> 0, state |-> <<>>, chunk |-> <<>>, written |-> 0,
             job |-> [j \in JobIds |-> Job("absent")]],
            {<<"source", 1, 0>>}, "pending")
    /\ handler = [h \in Handlers |-> Idle]
    /\ used = <<>>

-----------------------------------------------------------------------------
(* The job queue, to the handlers.                                         *)

At(h, pc) == handler[h].pc = pc

Kind(h) == handler[h].job[1]

(* h goes on at pc; a handler that ends forgets what it read.              *)
Goto(h, pc) ==
    handler' = [handler EXCEPT ![h] =
        IF pc \in {"return", "throw", "defer", "park"}
        THEN [Idle EXCEPT !.pc = pc, !.job = handler[h].job] ELSE [handler[h] EXCEPT !.pc = pc]]

(* A fault happens.                                                        *)
Spend(f) ==
    /\ f \in Faults
    /\ Len(used) < MaxFaults
    /\ used' = Append(used, IF f \in Told THEN f ELSE "fault")

(* No handler went on with a job whose lease it had lost.                  *)
Timely == "stall" \notin Range(used)

(* A due job may be leased to a free handler; a parked one is due after    *)
(* its hour, a later one when the window of its invocation is closed.      *)
Claimable(h, j) ==
    /\ At(h, "idle")
    /\ \/ db.job[j].status \in {"pending", "parked"}
       \/ db.job[j].status = "later" /\ db.inv[j[2]].closed

(* claim.                                                                  *)
Claimed(h, j) ==
    [db EXCEPT !.job[j] = [status |-> "running", holder |-> h, attempt |-> @.attempt + 1]]

(* requeueExpired, which goes by the lease alone.                          *)
Requeued(j) ==
    [db EXCEPT !.job[j] = [status |-> "pending", holder |-> NoHandler, attempt |-> @.attempt - 1]]

(* The holder of j is gone: its lease lapses and the sweep requeues j.     *)
Lapse(j) ==
    /\ db.job[j].status = "running"
    /\ handler[db.job[j].holder].job # j
    /\ db' = Requeued(j)
    /\ UNCHANGED <<handler, used>>

(* The lease lapses while its holder is still at work on j.                *)
Stall(j) ==
    /\ db.job[j].status = "running"
    /\ handler[db.job[j].holder].job = j
    /\ Spend("stall")
    /\ db' = Requeued(j)
    /\ UNCHANGED handler

Crash(h) ==
    /\ ~At(h, "idle")
    /\ Spend("crash")
    /\ handler' = [handler EXCEPT ![h] = Idle]
    /\ UNCHANGED db

(* The handler ends and the worker settles the lease, if h still holds it. *)
Settle(h, d, row) ==
    LET j == handler[h].job
    IN  /\ db' = IF OwnsJob(db, h, j) THEN [d EXCEPT !.job[j] = row] ELSE d
        /\ handler' = [handler EXCEPT ![h] = Idle]
        /\ UNCHANGED used

Pending(s, n) == [status |-> s, holder |-> NoHandler, attempt |-> n]

JobComplete(h) ==
    /\ At(h, "return")
    /\ Settle(h, db, Job("completed"))

(* fail: another attempt, or none is left.  A sink job on its last attempt *)
(* fails the step first (executeSink).                                     *)
JobFail(h) ==
    LET j == handler[h].job
        n == db.job[j].attempt
        last == n >= MaxAttempts
    IN  /\ At(h, "throw")
        /\ Settle(h, IF last /\ j \in SinkJobs /\ OwnsJob(db, h, j) THEN FailStep(db, {j}) ELSE db,
                   IF last THEN Job("failed") ELSE Pending("pending", n))

JobDefer(h) ==
    /\ At(h, "defer")
    /\ Settle(h, db, Pending("pending", db.job[handler[h].job].attempt - 1))

(* Mutant: release trusts what the handler read.                           *)
JobParkUnchecked(h) ==
    /\ At(h, "park")
    /\ Settle(h, db, Pending("parked", db.job[handler[h].job].attempt - 1))

(* Mutant: the attempt that met the pause is charged.                      *)
JobParkCharged(h) ==
    /\ At(h, "park")
    /\ Settle(h, db, Pending(IF db.run = "paused" THEN "parked" ELSE "pending",
                             db.job[handler[h].job].attempt))

(* release of a job parked for a paused run reads the run again.           *)
JobPark(h) ==
    /\ At(h, "park")
    /\ Settle(h, db, Pending(IF db.run = "paused" THEN "parked" ELSE "pending",
                             db.job[handler[h].job].attempt - 1))

(* handleExhaustedJob: failStep, whatever the run is doing by then.        *)
HandleExhaustedJob(j) ==
    /\ db.job[j].status = "failed"
    /\ db' = [FailStep(db, {}) EXCEPT !.job[j].status = "handled"]
    /\ UNCHANGED <<handler, used>>

-----------------------------------------------------------------------------
(* The handlers.  Each reads, marks its row, invokes user code and commits *)
(* what came of it.                                                        *)

(* h takes up job j at pc, on its next attempt.                            *)
Enter(h, j, pc) == [Idle EXCEPT !.pc = pc, !.job = j, !.attempt = db.job[j].attempt + 1]

(* h claims a job of this kind, loadContext finds its run active.          *)
Loads(h, j, kind) == j[1] = kind /\ Claimable(h, j) /\ db.run = "active"

(* h claims j, loadContext and assertRunnable find its run paused or over. *)
LoadContext(h, j) ==
    /\ Claimable(h, j) /\ db.run # "active"
    /\ db' = Claimed(h, j)
    /\ handler' = [handler EXCEPT ![h] = Enter(h, j, IF db.run = "paused" THEN "park" ELSE "return")]
    /\ UNCHANGED used

(* executeSource: a page job reads the cursor, the initialize job has the  *)
(* attempt to begin first, and the source to initialize if nothing is      *)
(* stored of it.                                                           *)
BeginSource(h, j) ==
    /\ Loads(h, j, "source")
    /\ db' = Claimed(h, j)
    /\ handler' = [handler EXCEPT ![h] =
            [Enter(h, j, IF j[2] = 1 THEN "begin" ELSE "invoke") EXCEPT
                !.cursor = IF j[2] = 1 THEN 0 ELSE db.cursor]]
    /\ UNCHANGED used

BeginAttempt(h) ==
    /\ At(h, "begin")
    /\ IF db.run = "active" /\ OwnsJob(db, h, handler[h].job)
       THEN handler' = [handler EXCEPT ![h].cursor = db.cursor, ![h].pc = "invoke",
                                       ![h].out = IF db.snapshot THEN "none" ELSE "initialize"]
       ELSE Goto(h, "return")
    /\ UNCHANGED <<db, used>>

(* The attempt of item i in job j, of the payload and of the row.          *)
ItemAttempt(j) ==
    LET base == IF j[3] = 0 THEN 1 ELSE db.inv[j[3]].resume[j[2]]
    IN  IF db.attempt[j[2]] > base THEN db.attempt[j[2]] ELSE base

(* executeItem up to its invocation: an item that has ended is left alone, *)
(* another is marked running; loadReplay.                                  *)
BeginItem(h, j) ==
    LET i == j[2]
        n == ItemAttempt(j)
    IN  /\ Loads(h, j, "item")
        /\ db' = IF Open(db, i) THEN [Claimed(h, j) EXCEPT !.item[i] = "running", !.attempt[i] = n]
                 ELSE Claimed(h, j)
        /\ handler' = [handler EXCEPT ![h] =
                IF ~Open(db, i) THEN Enter(h, j, "return")
                ELSE [Enter(h, j, "invoke") EXCEPT
                        !.cursor = n,
                        !.out = IF i \in Physical /\ db.passed[i] = {} THEN "suspended" ELSE "none"]]
        /\ UNCHANGED used

(* executePhysicalStep reads the pending members with their attempts.      *)
ReadMembers(h, j) ==
    LET inv == db.inv[j[2]]
        members == {i \in Items : inv.member[i] = "pending"}
    IN  /\ Loads(h, j, "physical")
        /\ db' = Claimed(h, j)
        /\ handler' = [handler EXCEPT ![h] =
                IF inv.status \in {"completed", "canceled"} \/ members = {} THEN Enter(h, j, "return")
                ELSE [Enter(h, j, "mark") EXCEPT !.items = [i \in members |-> db.attempt[i]]]]
        /\ UNCHANGED used

(* reserve finds no capacity.                                              *)
Throttled(h) ==
    /\ At(h, "mark") /\ Kind(h) = "physical"
    /\ Spend("throttle")
    /\ Goto(h, "defer")
    /\ UNCHANGED db

(* The update is refused for an invocation that has ended.                 *)
MarkInvocation(h) ==
    LET v == handler[h].job[2]
        open == db.inv[v].status \in {"pending", "running"}
    IN  /\ At(h, "mark") /\ Kind(h) = "physical"
        /\ db' = IF open THEN [db EXCEPT !.inv[v].status = "running"] ELSE db
        /\ Goto(h, IF open THEN "invoke" ELSE "throw")
        /\ UNCHANGED used

(* startSink: a sink that has chunks is under way already.                 *)
BeginStart(h, j) ==
    LET started == Len(db.chunk) > 0
    IN  /\ Loads(h, j, "start")
        /\ db' = IF started THEN EnqueueNextSinkWork(Claimed(h, j)) ELSE Claimed(h, j)
        /\ handler' = [handler EXCEPT ![h] = Enter(h, j, IF started THEN "return" ELSE "invoke")]
        /\ UNCHANGED used

(* writeSinkChunk up to its invocation: a chunk that was written schedules *)
(* what comes next, another is marked running; the update is refused for   *)
(* one that has ended since it was read.                                   *)
BeginChunk(h, j) ==
    LET written == db.chunk[j[2]].status = "completed"
    IN  /\ Loads(h, j, "write")
        /\ db' = IF written THEN EnqueueNextSinkWork(Claimed(h, j)) ELSE Claimed(h, j)
        /\ handler' = [handler EXCEPT ![h] =
                IF written THEN Enter(h, j, "return")
                ELSE [Enter(h, j, "mark") EXCEPT !.state = db.state]]
        /\ UNCHANGED used

MarkChunk(h) ==
    LET c == handler[h].job[2]
        open == db.chunk[c].status \in {"pending", "running"}
    IN  /\ At(h, "mark") /\ Kind(h) = "write"
        /\ db' = IF open THEN [db EXCEPT !.chunk[c].status = "running"] ELSE db
        /\ Goto(h, IF open THEN "invoke" ELSE "throw")
        /\ UNCHANGED used

BeginFinalize(h, j) ==
    /\ Loads(h, j, "finalize")
    /\ db' = Claimed(h, j)
    /\ handler' = [handler EXCEPT ![h] = [Enter(h, j, "invoke") EXCEPT !.state = db.state]]
    /\ UNCHANGED used

(* invokeRuntime: the answer counts only if the run is active and the      *)
(* lease held when it arrives.                                             *)
Answers(h) == At(h, "invoke") /\ db.run = "active" /\ OwnsJob(db, h, handler[h].job)

Fenced(h) ==
    /\ At(h, "invoke") /\ ~Answers(h)
    /\ Goto(h, "throw")
    /\ UNCHANGED <<db, used>>

(* The catch of executePhysicalStep: the invocation is open again, even    *)
(* one that has ended, or this was the last attempt.                       *)
Reopened(h) ==
    [db EXCEPT !.inv[handler[h].job[2]].status =
        IF handler[h].attempt >= MaxAttempts THEN "failed" ELSE "pending"]

(* The runtime or a call fails.                                            *)
InvokeFails(h) ==
    /\ Answers(h)
    /\ Spend(Kind(h))
    /\ db' = IF Kind(h) = "physical" THEN Reopened(h) ELSE db
    /\ Goto(h, "throw")

InvokeAnswers(h) ==
    LET i == handler[h].job[2]
    IN  /\ Answers(h)
        /\ IF Kind(h) = "item" /\ handler[h].out # "suspended"
           THEN \E o \in Outcomes \ {"retry"} :
                    handler' = [handler EXCEPT ![h].pc = "commit", ![h].out = o]
           ELSE IF Kind(h) = "physical"
           THEN \E o \in [DOMAIN handler[h].items -> Outcomes] :
                    handler' = [handler EXCEPT ![h].pc = "commit", ![h].out = o]
           ELSE Goto(h, "commit")
        /\ UNCHANGED <<db, used>>

(* A call to the database fails, or its answer is lost, outside the        *)
(* transaction it belongs to or with it.  The catch of executePhysicalStep *)
(* has all that follows the mark.                                          *)
DatabaseFails(h) ==
    /\ handler[h].pc \in {"begin", "mark", "commit", "join", "enqueue", "members",
                          "after", "schedule", "count", "finalize"}
    /\ Spend("database")
    /\ db' = IF Kind(h) = "physical" /\ ~At(h, "mark") THEN Reopened(h) ELSE db
    /\ Goto(h, "throw")

(* What initialize returned is stored, and the first page is read.         *)
CommitInitialize(h) ==
    /\ At(h, "commit") /\ Kind(h) = "source" /\ handler[h].out = "initialize"
    /\ db' = [db EXCEPT !.snapshot = TRUE, !.cursor = 0, !.queued = FALSE]
    /\ handler' = [handler EXCEPT ![h].pc = "invoke", ![h].cursor = 0, ![h].out = "none"]
    /\ UNCHANGED used

(* acceptSourcePage, then finalizeIfComplete for the last page.  Without a *)
(* cursor the source starts over.                                          *)
CommitPage(h) ==
    LET p == IF handler[h].cursor = 0 THEN 1 ELSE handler[h].cursor
    IN  /\ At(h, "commit") /\ Kind(h) = "source" /\ handler[h].out # "initialize"
        /\ db' = AcceptSourcePage(db, p)
        /\ Goto(h, IF p = Len(Pages) THEN "count" ELSE "return")
        /\ UNCHANGED used

(* executeItem: process failed and the job has attempts left.  The update  *)
(* does not look at the item's status: one that has ended refuses it.      *)
RetryItem(h) ==
    LET j == handler[h].job
    IN  /\ At(h, "commit") /\ Kind(h) = "item" /\ handler[h].out = "failed"
        /\ handler[h].attempt < MaxAttempts
        /\ db' = IF Open(db, j[2])
                 THEN [db EXCEPT !.item[j[2]] = "pending", !.attempt[j[2]] = handler[h].cursor + 1]
                 ELSE db
        /\ Goto(h, "throw")
        /\ UNCHANGED used

CommitItem(h) ==
    LET i == handler[h].job[2]
        o == handler[h].out
    IN  /\ At(h, "commit") /\ Kind(h) = "item" /\ o # "suspended"
        /\ o = "failed" => handler[h].attempt >= MaxAttempts
        /\ db' = CompleteItem(db, i, o)
        /\ Goto(h, IF Open(db, i) THEN "after" ELSE "return")
        /\ UNCHANGED used

(* completeItem goes on after its transaction, for a member of a physical  *)
(* step in the loop over them: applyFailurePolicy, scheduleSourcePage and  *)
(* finalizeIfComplete, which reads the state row before its transaction.   *)
Back(h) == IF Kind(h) = "physical" THEN "members" ELSE "return"

ApplyFailurePolicy(h) ==
    LET j == handler[h].job
        stop == handler[h].out = "failed" /\ db.failed >= MaxFailures
    IN  /\ At(h, "after")
        /\ db' = IF stop /\ OwnsJob(db, h, j) THEN FailStep(db, {j}) ELSE db
        /\ Goto(h, IF stop THEN Back(h) ELSE "schedule")
        /\ UNCHANGED used

ScheduleNext(h) ==
    /\ At(h, "schedule")
    /\ db' = ScheduleSourcePage(db)
    /\ Goto(h, "count")
    /\ UNCHANGED used

(* Mutant: the source may still have pages.                                *)
CountEndedEarly(h) ==
    /\ At(h, "count")
    /\ Goto(h, IF db.ended >= Len(db.order) THEN "finalize" ELSE Back(h))
    /\ UNCHANGED <<db, used>>

CountEnded(h) ==
    /\ At(h, "count")
    /\ Goto(h, IF db.done /\ db.ended >= Len(db.order) THEN "finalize" ELSE Back(h))
    /\ UNCHANGED <<db, used>>

QueueSink(h) ==
    /\ At(h, "finalize")
    /\ db' = FinalizeIfComplete(db)
    /\ Goto(h, Back(h))
    /\ UNCHANGED used

(* parkAtPhysicalStep takes the lock on its invocations, which others wait *)
(* for until it commits, and reads the clock: an invocation whose window   *)
(* is open then may be joined after it has closed.                         *)
LookForInvocation(h) ==
    /\ At(h, "commit") /\ Kind(h) = "item" /\ handler[h].out = "suspended"
    /\ \A g \in Handlers : ~At(g, "join")
    /\ handler' = [handler EXCEPT ![h].pc = "join", ![h].left = OpenWindows(db)]
    /\ UNCHANGED <<db, used>>

(* Mutant: the update reopens an item and a row that have ended.           *)
MayParkAgain(h) == TRUE

(* The item and its row of this attempt, if there is one, have not ended.  *)
MayPark(h) ==
    LET i == handler[h].job[2]
    IN  Open(db, i) /\ handler[h].cursor \notin db.closed[i]

(* The item of h joins v, which may be full then.                          *)
Joins(h, v) ==
    LET d == ParkAtPhysicalStep(db, handler[h].job[2], handler[h].cursor, v)
        out == IF d.inv[v].size >= MaxItems THEN "full" ELSE "none"
    IN  /\ db' = d
        /\ handler' = [handler EXCEPT ![h].pc = "enqueue", ![h].cursor = v, ![h].left = {},
                                      ![h].out = out]

CommitPark(h) ==
    LET W == OpenWindows(db)
    IN  /\ At(h, "join") /\ MayPark(h)
        /\ Candidates(db, W) # {}                         \* bound: MaxInvocations
        /\ Joins(h, Admitting(db, W))
        /\ UNCHANGED used

(* The window closes before the transaction commits; the row is locked, so *)
(* the status and the size are still as they were read.                    *)
CommitLate(h) ==
    LET W == handler[h].left
    IN  /\ At(h, "join") /\ MayPark(h)
        /\ \E v \in FindCompatibleInvocation(db, W) : v = Admitting(db, W) /\ db.inv[v].closed
        /\ Joins(h, Admitting(db, W))
        /\ Spend("late")

ParkRefused(h) ==
    /\ At(h, "join") /\ ~MayPark(h)
    /\ Goto(h, "throw")
    /\ UNCHANGED <<db, used>>

(* Mutant: the job is enqueued when the invocation is full.                *)
EnqueuePhysicalWhenFull(h) ==
    LET j == <<"physical", handler[h].cursor, 0>>
    IN  /\ At(h, "enqueue")
        /\ db' = IF handler[h].out = "full" THEN Enqueue(db, {j}, "pending") ELSE db
        /\ Goto(h, "return")
        /\ UNCHANGED used

(* parkAtPhysicalStep after its transaction: the invocation's job, due now *)
(* if it was full then (makeAvailable pulls a waiting one forward).        *)
EnqueuePhysical(h) ==
    LET j == <<"physical", handler[h].cursor, 0>>
        full == handler[h].out = "full"
        d == Enqueue(db, {j}, IF full THEN "pending" ELSE "later")
    IN  /\ At(h, "enqueue")
        /\ db' = IF full /\ d.job[j].status \in {"later", "parked"}
                 THEN [d EXCEPT !.job[j].status = "pending"] ELSE d
        /\ Goto(h, "return")
        /\ UNCHANGED used

CommitOutcomes(h) ==
    LET seen == handler[h].items
        out == handler[h].out
    IN  /\ At(h, "commit") /\ Kind(h) = "physical"
        /\ \A i \in Resuming(seen, out) : Open(db, i)
        /\ db' = PersistPhysicalOutcomes(db, handler[h].job[2], seen, out)
        /\ handler' = [handler EXCEPT ![h].pc = "members", ![h].left = TerminalOutcomes(seen, out),
                                      ![h].out = "none", ![h].items = <<>>]
        /\ UNCHANGED used

(* One of the members that resume has ended by then.                       *)
OutcomesRefused(h) ==
    /\ At(h, "commit") /\ Kind(h) = "physical"
    /\ \E i \in Resuming(handler[h].items, handler[h].out) : ~Open(db, i)
    /\ db' = Reopened(h)
    /\ Goto(h, "throw")
    /\ UNCHANGED used

(* The loop of persistPhysicalOutcomes over the members that ended.        *)
CompleteMember(h) ==
    \E m \in handler[h].left :
        /\ At(h, "members")
        /\ db' = CompleteItem(db, m[1], m[2])
        /\ handler' = [handler EXCEPT ![h].left = @ \ {m}, ![h].out = m[2],
                         ![h].pc = IF Open(db, m[1]) THEN "after" ELSE "members"]
        /\ UNCHANGED used

MembersDone(h) ==
    /\ At(h, "members") /\ handler[h].left = {}
    /\ Goto(h, "return")
    /\ UNCHANGED <<db, used>>

(* startSink after inspect and initialize: the chunks and the first jobs;  *)
(* without a sink the step completes.  Its concurrency is found to be the  *)
(* same by every delivery.                                                 *)
CommitStart(h) ==
    /\ At(h, "commit") /\ Kind(h) = "start"
    /\ \E w \in IF Len(db.chunk) > 0 THEN {db.width} ELSE Widths :
        db' = IF w = 0 THEN CompleteStep(db, h, handler[h].job)
              ELSE EnqueueNextSinkWork(CreateSinkChunks([db EXCEPT !.width = w, !.state = <<>>]))
    /\ Goto(h, "return")
    /\ UNCHANGED used

(* Mutant: the state the sink returned is dropped.                         *)
CommitChunkStateless(h) ==
    LET c == handler[h].job[2]
    IN  /\ At(h, "commit") /\ Kind(h) = "write"
        /\ db.written < Len(db.chunk)
        /\ db' = EnqueueNextSinkWork([db EXCEPT !.chunk[c].status = "completed", !.written = @ + 1])
        /\ Goto(h, "return")
        /\ UNCHANGED used

(* writeSinkChunk: the acknowledged chunk, the state a serial sink threads *)
(* from chunk to chunk, the next jobs.  The lease is not looked at again.  *)
CommitChunk(h) ==
    LET c == handler[h].job[2]
    IN  /\ At(h, "commit") /\ Kind(h) = "write"
        /\ db.written < Len(db.chunk)
        /\ db' = EnqueueNextSinkWork(
                    [db EXCEPT !.chunk[c].status = "completed", !.written = @ + 1,
                               !.state = IF db.width = 1 THEN Append(handler[h].state, c) ELSE <<>>])
        /\ Goto(h, "return")
        /\ UNCHANGED used

(* chk_batch_sink_chunk_progress: no more chunks are written than there    *)
(* are.                                                                    *)
ChunkRefused(h) ==
    /\ At(h, "commit") /\ Kind(h) = "write"
    /\ db.written >= Len(db.chunk)
    /\ Goto(h, "throw")
    /\ UNCHANGED <<db, used>>

(* finalizeSink: the artifact and completeBatchStep.                       *)
CommitFinalize(h) ==
    /\ At(h, "commit") /\ Kind(h) = "finalize"
    /\ db' = CompleteStep(db, h, handler[h].job)
    /\ Goto(h, "return")
    /\ UNCHANGED used

-----------------------------------------------------------------------------
(* Time and callers from outside.                                          *)

(* closes_at passes.  It is looked at while the invocation has room, and   *)
(* while its job waits for it.                                             *)
WindowCloses(v) ==
    /\ db.inv[v].status = "pending" /\ ~db.inv[v].closed
    /\ db.inv[v].size < MaxItems \/ db.job[<<"physical", v, 0>>].status = "later"
    /\ db' = [db EXCEPT !.inv[v].closed = TRUE]
    /\ UNCHANGED <<handler, used>>

PauseOperator ==
    /\ db.run = "active"
    /\ Spend("pause")
    /\ db' = [db EXCEPT !.run = "paused"]
    /\ UNCHANGED handler

(* resumeOperator and makeRunAvailable, which pulls forward every pending  *)
(* job of the run.                                                         *)
ResumeOperator ==
    /\ db.run = "paused"
    /\ db' = [db EXCEPT !.run = "active",
                        !.job = [j \in JobIds |->
                            IF db.job[j].status \in {"parked", "later"}
                            THEN [db.job[j] EXCEPT !.status = "pending"] ELSE db.job[j]]]
    /\ UNCHANGED <<handler, used>>

Cancel ==
    /\ db.run \notin TerminalRun
    /\ Spend("cancel")
    /\ db' = EndScope(db, "canceled", {})
    /\ UNCHANGED handler

-----------------------------------------------------------------------------
Take(h, j) ==
    \/ LoadContext(h, j) \/ BeginSource(h, j) \/ BeginItem(h, j) \/ ReadMembers(h, j)
    \/ BeginStart(h, j) \/ BeginChunk(h, j) \/ BeginFinalize(h, j)

Handle(h) ==
    \/ BeginAttempt(h) \/ MarkInvocation(h) \/ MarkChunk(h) \/ Fenced(h) \/ InvokeAnswers(h)
    \/ CommitInitialize(h) \/ CommitPage(h) \/ RetryItem(h) \/ CommitItem(h)
    \/ ApplyFailurePolicy(h) \/ ScheduleNext(h) \/ CountEnded(h) \/ QueueSink(h)
    \/ LookForInvocation(h) \/ CommitPark(h) \/ ParkRefused(h) \/ EnqueuePhysical(h)
    \/ CommitOutcomes(h) \/ OutcomesRefused(h) \/ CompleteMember(h) \/ MembersDone(h)
    \/ CommitStart(h) \/ CommitChunk(h) \/ ChunkRefused(h) \/ CommitFinalize(h)
    \/ JobComplete(h) \/ JobFail(h) \/ JobDefer(h) \/ JobPark(h)

(* What goes on by itself: workers claim and handle jobs, lapsed leases    *)
(* and failed jobs are swept, clocks advance.                              *)
Proceed ==
    \/ \E h \in Handlers : Handle(h) \/ \E j \in JobIds : Claimable(h, j) /\ Take(h, j)
    \/ \E j \in JobIds : Lapse(j) \/ HandleExhaustedJob(j)
    \/ \E v \in Invocations : WindowCloses(v)

Next ==
    \/ Proceed
    \/ \E h \in Handlers : Throttled(h) \/ InvokeFails(h) \/ DatabaseFails(h) \/ CommitLate(h) \/ Crash(h)
    \/ \E j \in JobIds : Stall(j)
    \/ PauseOperator \/ ResumeOperator \/ Cancel

Spec == Init /\ [][Next]_vars

(* The workers as a whole do not stop while there is something to do,      *)
(* which is less than fairness to each of them.  Nobody has to resume or   *)
(* to cancel a run.                                                        *)
FairSpec == Spec /\ WF_vars(Proceed)

-----------------------------------------------------------------------------
(* What a batch step promises.                                             *)

(* The counters of the state row, which decide when the sink starts, say   *)
(* exactly how many items have ended and how many failed, whatever is      *)
(* delivered twice (completeItem).                                         *)
CountsExact ==
    db.run \notin {"failed", "canceled"} =>
        /\ db.ended = Cardinality({i \in Items : db.item[i] \in EndedStatuses})
        /\ db.failed = Cardinality({i \in Items : db.item[i] = "failed"})

(* The sink never starts over a part of the batch: once it has chunks, or  *)
(* the step is complete, every key of every page is an item that has ended *)
(* and the chunks cover the items in source order, each once               *)
(* (finalizeIfComplete, createSinkChunks).                                 *)
SinkSeesAll ==
    Len(db.chunk) > 0 \/ db.run = "completed" =>
        /\ Range(db.order) = Items /\ Len(db.order) = Cardinality(Items)
        /\ \A i \in Items : db.item[i] \in EndedStatuses
        /\ db.width > 0 =>
            \A n \in DOMAIN db.order : \E c \in DOMAIN db.chunk :
                /\ db.chunk[c].first <= n /\ n <= db.chunk[c].last
                /\ \A b \in DOMAIN db.chunk : b < c => db.chunk[b].last < n

(* No more chunks are queued or being written than the sink declared, and  *)
(* finalize waits for every one of them (enqueueNextSinkWork, ADR 0034).   *)
SinkWindow ==
    /\ db.run = "active" => Cardinality(
            {c \in DOMAIN db.chunk : /\ db.chunk[c].status # "completed"
                                     /\ LiveJob(db, <<"write", c, 0>>)}) <= db.width
    /\ LiveJob(db, Finalize) \/ (db.run = "completed" /\ db.width > 0) =>
            ChunksIn(db, "completed") = DOMAIN db.chunk

(* As long as no holder outlives its lease, the state of a serial sink has *)
(* been through every written chunk once, in source order, whatever fails, *)
(* crashes or is delivered again (writeSinkChunk: "State is one value      *)
(* threaded from chunk to chunk").  The commit does not look at the lease: *)
(* after a stall it may put back a state that later chunks have left.      *)
StateThreaded ==
    db.width = 1 /\ Timely => db.state = [n \in 1..Cardinality(ChunksIn(db, "completed")) |-> n]

(* A job is parked only while its run is paused, so a resume never has to  *)
(* wait out the hour: "Either the resume sees the job pending and wakes it, *)
(* or the release sees the resumed status" (ADR 0034; release).            *)
ParkedWhilePaused ==
    \A j \in JobIds : db.job[j].status = "parked" => db.run = "paused"

(* An invocation never holds more members than its policy allows, and its  *)
(* counter is exact (parkAtPhysicalStep: "a redelivered job must not       *)
(* double-add").                                                           *)
MembersFit ==
    \A v \in Invocations :
        /\ db.inv[v].size <= MaxItems
        /\ db.inv[v].size = Cardinality({i \in Items : db.inv[v].member[i] # "absent"})

(* An invocation has answered without a member that waits for it still:    *)
(* its job finds it completed, and nothing brings the item forward.        *)
Stranded ==
    \E v \in Invocations, i \in Items :
        db.inv[v].status = "completed" /\ db.inv[v].member[i] = "pending"

(* Members are read, capacity is reserved and only then is the invocation  *)
(* marked and answered.  No member joins in between, but for one whose     *)
(* transaction outlasts the window, or when a resume has pulled the job    *)
(* forward while the window is open (executePhysicalStep, resumeOperator). *)
NoneLeftOut == Stranded => Range(used) \cap {"late", "pause"} # {}

(* An outcome is final: an item that ended keeps its outcome, and a chunk  *)
(* the sink acknowledged is not written again (completeItem, ADR 0015:     *)
(* "retry only unacknowledged chunks").                                    *)
OutcomesAreFinal ==
    [][/\ \A i \in Items : db.item[i] \in EndedStatuses => db'.item[i] = db.item[i]
       /\ \A c \in DOMAIN db.chunk : db.chunk[c].status = "completed" =>
                db'.chunk[c].status = "completed"]_vars

(* A batch that nobody paused comes to an end: some job always brings it   *)
(* forward (scheduleSourcePage, parkAtPhysicalStep, finalizeIfComplete,    *)
(* enqueueNextSinkWork, handleExhaustedJob), unless an item is stranded.   *)
BatchSettles == <>(db.run # "active" \/ Stranded)
=============================================================================
