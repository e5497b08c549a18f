------------------------ MODULE BatchExecutionProofs ------------------------
(***************************************************************************)
(* Proofs about a batch step, for any source, outcomes, limits and kinds   *)
(* of faults.                                                              *)
(***************************************************************************)
EXTENDS BatchExecution, Integers, FiniteSetTheorems, SequenceTheorems, WellFoundedInduction, TLAPS

-----------------------------------------------------------------------------
(* Rows.                                                                   *)

ItemStatuses == BacklogStatuses \cup EndedStatuses \cup {"absent", "canceled"}
Over == {"failed", "canceled"}

JobRow == [status : LiveStatuses \cup {"absent", "completed", "canceled", "failed", "handled"},
           holder : Handlers \cup {NoHandler}, attempt : 0..MaxAttempts]

InvocationRow == [status : {"absent", "pending", "running", "completed", "failed", "canceled"},
                  size : Nat, closed : BOOLEAN, member : [Items -> {"absent", "pending", "resolved"}],
                  resume : [Items -> Nat]]

ChunkRow == [status : {"pending", "running", "completed", "failed"}, first : Chunks, last : Chunks]

Tables == [run : {"active", "paused"} \cup TerminalRun, cursor : 0..Len(Pages),
           snapshot : BOOLEAN, done : BOOLEAN, queued : BOOLEAN, order : Seq(Items),
           item : [Items -> ItemStatuses], attempt : [Items -> Nat],
           rows : [Items -> SUBSET Nat], closed : [Items -> SUBSET Nat], passed : [Items -> SUBSET Nat],
           ended : Nat, failed : Nat, inv : [Invocations -> InvocationRow],
           width : Widths \cup {0}, state : Seq(Chunks), chunk : Seq(ChunkRow), written : Nat,
           job : [JobIds -> JobRow]]

(* What user code answers for an item, and the statuses that it ends with. *)
Answered == {"succeeded", "failed", "skipped"}

Work == {"begin", "mark", "invoke", "commit", "join", "enqueue", "members",
         "after", "schedule", "count", "finalize"}
Leave == {"return", "throw", "defer", "park"}

-----------------------------------------------------------------------------
(* The first layer of the invariant.                                       *)

(* A job that waits has an attempt left, one that runs has used one.       *)
JobFits(r) ==
    /\ r.status \in {"pending", "parked", "later"} => r.attempt < MaxAttempts
    /\ r.status = "running" => r.attempt > 0

(* The counter of an invocation is the number of its members.              *)
Joined(r) == {i \in Items : r.member[i] # "absent"}

InvocationFits(r) ==
    /\ r.size <= MaxItems /\ r.size = Cardinality(Joined(r))
    /\ r.status = "absent" => r.size = 0

(* The order lists the items, each once.                                   *)
OrderFits(d) ==
    /\ \A m, n \in DOMAIN d.order : d.order[m] = d.order[n] => m = n
    /\ \A i \in Items : d.item[i] = "absent" <=> i \notin Range(d.order)

JobsFit(d) ==
    \A j \in JobIds : JobFits(d.job[j]) /\ (d.job[j].status = "parked" => d.run = "paused")

(* Jobs and members are of items that are there.                           *)
Known(d) == {i \in Items : d.item[i] # "absent"}

KnownFit(d) ==
    /\ \A j \in JobIds : j[1] = "item" /\ d.job[j].status # "absent" => j[2] \in Known(d)
    /\ \A v \in Invocations : Joined(d.inv[v]) \subseteq Known(d)

DbFits(d) ==
    /\ d \in Tables
    /\ d.failed <= d.ended /\ d.written <= Len(d.chunk)
    /\ JobsFit(d)
    /\ \A v \in Invocations : InvocationFits(d.inv[v])
    /\ OrderFits(d)
    /\ KnownFit(d)

(* What no transaction undoes: a run that is over stays so, and while it   *)
(* is not, a lease is lost only by settling or lapsing; members and items  *)
(* stay.                                                                   *)
Grows(d, e) ==
    /\ d.run \in Over => e.run \in Over
    /\ \A v \in Invocations : Joined(d.inv[v]) \subseteq Joined(e.inv[v])
    /\ Known(d) \subseteq Known(e)

Onward(d, e) ==
    /\ Grows(d, e)
    /\ \A h \in Handlers, j \in JobIds : OwnsJob(d, h, j) => OwnsJob(e, h, j) \/ e.run \in Over

Columns == {"pc", "job", "attempt", "cursor", "items", "state", "out", "left"}
HandlerRow(r) == r = [x \in Columns |-> r[x]]

(* Where a handler ends items and what follows from it.                    *)
Settling == {"members", "after", "schedule", "count", "finalize"}

(* What a handler in each place works on and has read.                     *)
Reads(r) ==
    /\ r.pc = "begin" => r.job[1] = "source"
    /\ r.pc = "mark" => r.job[1] \in {"physical", "write"}
    /\ r.pc = "members" => r.job[1] = "physical"
    /\ r.pc = "join" => r.job[1] = "item" /\ r.cursor \in Nat /\ r.left \subseteq Invocations
    /\ r.pc = "enqueue" => r.job[1] = "item" /\ r.cursor \in Invocations
    /\ r.pc \in {"schedule", "count", "finalize"} => r.job[1] \in {"source", "item", "physical"}
    /\ r.pc = "after" => r.job[1] \in {"item", "physical"} /\ r.out \in Answered
    /\ r.pc \in {"begin", "invoke", "commit"} /\ r.job[1] = "source" => r.cursor \in 0..Len(Pages)
    /\ r.pc \in {"mark", "invoke", "commit"} /\ r.job[1] \in {"write", "finalize"} =>
            r.state \in Seq(Chunks)
    /\ r.pc \in {"invoke", "commit"} /\ r.job[1] = "item" => r.cursor \in Nat
    /\ r.pc = "commit" /\ r.job[1] = "item" => r.out \in Answered \cup {"suspended"}
    /\ r.pc \in Settling /\ r.job[1] = "physical" => r.left \subseteq Items \X Answered

(* The members a handler read have joined the invocation.                  *)
Members(r, d) ==
    /\ DOMAIN r.items \subseteq Joined(d.inv[r.job[2]])
    /\ \A i \in DOMAIN r.items : r.items[i] \in Nat
    /\ r.pc = "commit" => DOMAIN r.out = DOMAIN r.items

HandlerFits(r, d) ==
    /\ HandlerRow(r)
    /\ r.pc \in {"idle"} \cup Work \cup Leave
    /\ r.pc # "idle" => r.job \in JobIds
    /\ Reads(r)
    /\ r.pc # "idle" /\ r.job[1] = "item" => r.job[2] \in Known(d)
    /\ r.pc \in Settling /\ r.job[1] = "physical" => \A m \in r.left : m[1] \in Known(d)
    /\ r.pc \in {"mark", "invoke", "commit"} /\ r.job[1] = "physical" => Members(r, d)

(* A handler holds the lease of its job until the run fails or is canceled,*)
(* or some handler stalls.                                                 *)
Held(h) == ~At(h, "idle") => ~Timely \/ OwnsJob(db, h, handler[h].job) \/ db.run \in Over

(* Until then no two handlers work on one job, not even when the run is    *)
(* over.                                                                   *)
Apart(g, h) ==
    Timely /\ handler[g].pc \in Work /\ handler[h].pc \in Work /\ handler[g].job = handler[h].job => g = h

HandlersFit ==
    /\ handler = [h \in Handlers |-> handler[h]]
    /\ \A h \in Handlers : HandlerFits(handler[h], db) /\ Held(h)
    /\ \A g, h \in Handlers : Apart(g, h)

Inv1 == DbFits(db) /\ HandlersFit

(* What went wrong is not forgotten.                                       *)
UsedFits == used \in Seq(Told \cup {"fault"}) /\ Len(used) <= MaxFaults

Remembers == Timely' => Timely

-----------------------------------------------------------------------------
(* The operators on the database keep the tables fit.                      *)

LEMMA OnwardTrans ==
    ASSUME NEW d, NEW e, NEW f, Onward(d, e), Onward(e, f)
    PROVE  Onward(d, f)
  BY DEF Onward, Grows, Over

LEMMA OnwardRefl ==
    ASSUME NEW d
    PROVE  Onward(d, d)
  BY DEF Onward, Grows

(* What the parts of a job's key are.                                      *)
LEMMA JobParts ==
    ASSUME NEW j \in JobIds
    PROVE  /\ j[1] \in {"source", "item", "physical", "start", "write", "finalize"}
           /\ j[1] = "source" => j[2] \in 0..Len(Pages)
           /\ j[1] = "item" => j[2] \in Items /\ j[3] \in 0..MaxInvocations /\ j = <<"item", j[2], j[3]>>
           /\ j[1] = "physical" => j[2] \in Invocations /\ j = <<"physical", j[2], 0>>
           /\ j[1] = "write" => j[2] \in Chunks /\ j = <<"write", j[2], 0>>
           /\ j[1] = "start" => j = Start
           /\ j[1] = "finalize" => j = Finalize
           /\ j \in SinkJobs <=> j[1] \in {"start", "write", "finalize"}
  BY DEF JobIds, SinkJobs, Start, Finalize

LEMMA JobFresh ==
    ASSUME NEW s \in {"pending", "later", "absent", "completed", "failed"}
    PROVE  Job(s) \in JobRow /\ JobFits(Job(s)) /\ Job(s).status = s
  BY BatchAssumption DEF Job, JobRow, JobFits, LiveStatuses

(* Other jobs, in tables that are the same otherwise.                      *)
LEMMA WithJobs ==
    ASSUME NEW d, DbFits(d), NEW f \in [JobIds -> JobRow],
           \A j \in JobIds : j[1] = "item" /\ f[j].status # "absent" => j[2] \in Known(d),
           \A j \in JobIds : JobFits(f[j]) /\ (f[j].status = "parked" => d.run = "paused")
    PROVE  DbFits([d EXCEPT !.job = f])
  <1> DEFINE e == [d EXCEPT !.job = f]
  <1>1. e \in Tables
    BY DEF DbFits, Tables
  <1>2. /\ e.run = d.run /\ e.job = f /\ e.inv = d.inv /\ e.order = d.order /\ e.item = d.item
        /\ e.failed = d.failed /\ e.ended = d.ended /\ e.written = d.written /\ e.chunk = d.chunk
    BY DEF DbFits, Tables
  <1> HIDE DEF e
  <1> QED
    BY <1>1, <1>2 DEF DbFits, JobsFit, OrderFits, KnownFit, Known, e

LEMMA EnqueueFits ==
    ASSUME NEW d, DbFits(d), NEW S, NEW s \in {"pending", "later"},
           \A j \in S \cap JobIds : j[1] = "item" => j[2] \in Known(d)
    PROVE  DbFits(Enqueue(d, S, s)) /\ Onward(d, Enqueue(d, S, s))
  <1> DEFINE f == [j \in JobIds |-> IF j \in S /\ ~LiveJob(d, j) THEN Job(s) ELSE d.job[j]]
             e == [d EXCEPT !.job = f]
  <1>1. Enqueue(d, S, s) = e
    BY DEF Enqueue
  <1>2. f \in [JobIds -> JobRow]
    BY JobFresh DEF DbFits, Tables
  <1>3. \A j \in JobIds : JobFits(f[j]) /\ (f[j].status = "parked" => d.run = "paused")
    BY JobFresh DEF DbFits, JobsFit
  <1>8. \A j \in JobIds : j[1] = "item" /\ f[j].status # "absent" => j[2] \in Known(d)
    BY DEF DbFits, KnownFit
  <1>4. \A h \in Handlers, j \in JobIds : OwnsJob(d, h, j) => f[j] = d.job[j]
    BY DEF OwnsJob, LiveJob, LiveStatuses
  <1>5. DbFits(e)
    <2> HIDE DEF f
    <2> QED
      BY <1>2, <1>3, <1>8, WithJobs
  <1>6. e.job = f /\ e.run = d.run /\ e.inv = d.inv /\ e.item = d.item
    BY DEF DbFits, Tables
  <1>7. Onward(d, e)
    <2> HIDE DEF f, e
    <2> QED
      BY <1>4, <1>6 DEF Onward, Grows, OwnsJob, Known
  <1> QED
    BY <1>1, <1>5, <1>7

(* All that Enqueue touches are jobs that are not live.                    *)
LEMMA EnqueueJobs ==
    ASSUME NEW d, DbFits(d), NEW S, NEW s
    PROVE  /\ \A j \in JobIds : j \notin S \/ LiveJob(d, j) => Enqueue(d, S, s).job[j] = d.job[j]
           /\ \A j \in JobIds : j \in S /\ ~LiveJob(d, j) => Enqueue(d, S, s).job[j] = Job(s)
           /\ \A x \in DOMAIN d \ {"job"} : Enqueue(d, S, s)[x] = d[x]
  BY DEF Enqueue, DbFits, Tables

LEMMA EndScopeFits ==
    ASSUME NEW d, DbFits(d), NEW s \in Over, NEW keep,
           \A j \in keep \cap JobIds : d.job[j].status # "parked"
    PROVE  DbFits(EndScope(d, s, keep)) /\ Onward(d, EndScope(d, s, keep))
  <1> DEFINE f == [j \in JobIds |-> IF LiveJob(d, j) /\ j \notin keep
                                    THEN [d.job[j] EXCEPT !.status = "canceled", !.holder = NoHandler]
                                    ELSE d.job[j]]
             items == [i \in Items |-> IF d.item[i] \in BacklogStatuses THEN "canceled" ELSE d.item[i]]
             inv == [v \in Invocations |-> IF d.inv[v].status \in {"pending", "running"}
                                           THEN [d.inv[v] EXCEPT !.status = "canceled"] ELSE d.inv[v]]
             e == [d EXCEPT !.run = s, !.job = f, !.item = items, !.inv = inv]
  <1>1. EndScope(d, s, keep) = e
    BY DEF EndScope
  <1>2. f \in [JobIds -> JobRow]
    <2> SUFFICES ASSUME NEW j \in JobIds
                 PROVE  f[j] \in JobRow
      OBVIOUS
    <2>1. d.job[j] \in JobRow
      BY DEF DbFits, Tables
    <2> QED
      BY <2>1 DEF JobRow
  <1>3. \A j \in JobIds : JobFits(f[j]) /\ f[j].status # "parked"
    BY DEF DbFits, Tables, JobRow, JobsFit, JobFits, LiveJob, LiveStatuses
  <1>4. items \in [Items -> ItemStatuses] /\ \A i \in Items : items[i] = "absent" <=> d.item[i] = "absent"
    BY DEF DbFits, Tables, ItemStatuses, BacklogStatuses
  <1>5. inv \in [Invocations -> InvocationRow]
    <2> SUFFICES ASSUME NEW v \in Invocations
                 PROVE  inv[v] \in InvocationRow
      OBVIOUS
    <2>1. d.inv[v] \in InvocationRow
      BY DEF DbFits, Tables
    <2> QED
      BY <2>1 DEF InvocationRow
  <1>6. \A v \in Invocations : InvocationFits(inv[v]) /\ Joined(inv[v]) = Joined(d.inv[v])
    <2> SUFFICES ASSUME NEW v \in Invocations
                 PROVE  InvocationFits(inv[v]) /\ Joined(inv[v]) = Joined(d.inv[v])
      OBVIOUS
    <2>1. d.inv[v] \in InvocationRow /\ InvocationFits(d.inv[v])
      BY DEF DbFits, Tables
    <2>2. /\ inv[v].member = d.inv[v].member /\ inv[v].size = d.inv[v].size
          /\ inv[v].status = "absent" => d.inv[v].status = "absent"
      BY <2>1 DEF InvocationRow
    <2> HIDE DEF inv
    <2> QED
      BY <2>1, <2>2 DEF InvocationFits, Joined
  <1>7. e \in Tables
    <2> HIDE DEF f, items, inv
    <2> QED
      BY <1>2, <1>4, <1>5 DEF DbFits, Tables, Over, TerminalRun
  <1>8. /\ e.run = s /\ e.job = f /\ e.inv = inv /\ e.order = d.order /\ e.item = items
        /\ e.failed = d.failed /\ e.ended = d.ended /\ e.written = d.written /\ e.chunk = d.chunk
    BY DEF DbFits, Tables
  <1>12. \A j \in JobIds : f[j].status # "absent" => d.job[j].status # "absent"
    BY DEF LiveJob, LiveStatuses
  <1> HIDE DEF f, items, inv, e
  <1>9. DbFits(e)
    BY <1>3, <1>4, <1>6, <1>7, <1>8, <1>12 DEF DbFits, JobsFit, OrderFits, KnownFit, Known
  <1>10. Onward(d, e)
    BY <1>4, <1>6, <1>8 DEF Onward, Grows, Known, Known
  <1> QED
    BY <1>1, <1>9, <1>10

LEMMA FailStepFits ==
    ASSUME NEW d, DbFits(d), NEW keep,
           \A j \in keep \cap JobIds : d.job[j].status # "parked"
    PROVE  DbFits(FailStep(d, keep)) /\ Onward(d, FailStep(d, keep))
  <1>1. CASE d.run # "active"
    BY <1>1, OnwardRefl DEF FailStep
  <1>2. CASE d.run = "active"
    <2> DEFINE e == EndScope(d, "failed", keep)
               resolved(m) == [i \in Items |-> IF m[i] = "pending" THEN "resolved" ELSE m[i]]
               inv == [v \in Invocations |-> [e.inv[v] EXCEPT !.member = resolved(e.inv[v].member)]]
               chunk == [c \in DOMAIN d.chunk |-> IF d.chunk[c].status \in {"pending", "running"}
                                                  THEN [d.chunk[c] EXCEPT !.status = "failed"] ELSE d.chunk[c]]
               f == [e EXCEPT !.inv = inv, !.closed = d.rows, !.chunk = chunk]
    <2>1. FailStep(d, keep) = f
      BY <1>2 DEF FailStep
    <2>2. DbFits(e) /\ Onward(d, e)
      BY EndScopeFits DEF Over
    <2>3. e.run = "failed"
      BY DEF EndScope, DbFits, Tables
    <2> HIDE DEF e
    <2>4. inv \in [Invocations -> InvocationRow]
      <3> SUFFICES ASSUME NEW v \in Invocations
                   PROVE  inv[v] \in InvocationRow
        OBVIOUS
      <3>1. e.inv[v] \in InvocationRow
        BY <2>2 DEF DbFits, Tables
      <3> QED
        BY <3>1 DEF InvocationRow
    <2>5. \A v \in Invocations : InvocationFits(inv[v]) /\ Joined(inv[v]) = Joined(e.inv[v])
      <3> SUFFICES ASSUME NEW v \in Invocations
                   PROVE  InvocationFits(inv[v]) /\ Joined(inv[v]) = Joined(e.inv[v])
        OBVIOUS
      <3>1. e.inv[v] \in InvocationRow /\ InvocationFits(e.inv[v])
        BY <2>2 DEF DbFits, Tables
      <3>2. /\ inv[v].size = e.inv[v].size /\ inv[v].status = e.inv[v].status
            /\ inv[v].member = resolved(e.inv[v].member)
        BY <3>1 DEF InvocationRow
      <3> HIDE DEF inv
      <3>3. Joined(inv[v]) = Joined(e.inv[v])
        BY <3>1, <3>2 DEF Joined, InvocationRow
      <3> QED
        BY <3>1, <3>2, <3>3 DEF InvocationFits
    <2>6. chunk \in Seq(ChunkRow)
      <3>1. d.chunk \in Seq(ChunkRow)
        BY DEF DbFits, Tables
      <3>2. \A c \in DOMAIN d.chunk : d.chunk[c] \in ChunkRow
        BY <3>1
      <3>3. \A c \in DOMAIN d.chunk : chunk[c] \in ChunkRow
        BY <3>2 DEF ChunkRow
      <3>4. DOMAIN d.chunk = 1..Len(d.chunk) /\ Len(d.chunk) \in Nat
        BY <3>1
      <3>5. chunk \in [1..Len(d.chunk) -> ChunkRow]
        BY <3>3, <3>4
      <3> QED
        BY <3>4, <3>5, SeqDef
    <2>11. Len(chunk) = Len(d.chunk) /\ d.written <= Len(d.chunk) /\ e.written = d.written
      <3>1. d.chunk \in Seq(ChunkRow) /\ d.written <= Len(d.chunk)
        BY DEF DbFits, Tables
      <3>2. DOMAIN chunk = 1..Len(d.chunk) /\ Len(d.chunk) \in Nat
        BY <3>1
      <3>3. Len(chunk) = Len(d.chunk)
        <4> HIDE DEF chunk
        <4> QED
          BY <2>6, <3>2
      <3>4. e.written = d.written
        BY DEF e, EndScope, DbFits, Tables
      <3> QED
        BY <3>1, <3>3, <3>4
    <2>7. f \in Tables
      <3>1. d.rows \in [Items -> SUBSET Nat]
        BY DEF DbFits, Tables
      <3> HIDE DEF inv, chunk
      <3> QED
        BY <2>2, <2>4, <2>6, <3>1 DEF DbFits, Tables
    <2>8. /\ f.run = e.run /\ f.job = e.job /\ f.inv = inv /\ f.order = e.order /\ f.item = e.item
          /\ f.failed = e.failed /\ f.ended = e.ended /\ f.written = e.written /\ f.chunk = chunk
      BY <2>2 DEF DbFits, Tables
    <2> HIDE DEF inv, chunk, f
    <2>9. DbFits(f)
      BY <2>2, <2>5, <2>7, <2>8, <2>11 DEF DbFits, JobsFit, OrderFits, KnownFit, Known
    <2>10. Onward(e, f)
      BY <2>5, <2>8, <2>3 DEF Onward, Grows, Known, Over
    <2> QED
      BY <2>1, <2>2, <2>9, <2>10, OnwardTrans
  <1> QED
    BY <1>1, <1>2

(* Changes of other columns.                                               *)
LEMMA WithRun ==
    ASSUME NEW d, DbFits(d), NEW s \in {"active", "paused"} \cup TerminalRun,
           \A j \in JobIds : d.job[j].status = "parked" => s = "paused"
    PROVE  DbFits([d EXCEPT !.run = s])
  <1>1. [d EXCEPT !.run = s] \in Tables
    BY DEF DbFits, Tables
  <1>2. \A x \in DOMAIN d \ {"run"} : [d EXCEPT !.run = s][x] = d[x]
    OBVIOUS
  <1>3. DOMAIN d = {"run", "cursor", "snapshot", "done", "queued", "order", "item", "attempt", "rows",
                    "closed", "passed", "ended", "failed", "inv", "width", "state", "chunk", "written",
                    "job"}
    BY DEF DbFits, Tables
  <1> QED
    BY <1>1, <1>2, <1>3 DEF DbFits, JobsFit, OrderFits, KnownFit, Known

LEMMA CompleteStepFits ==
    ASSUME NEW d, DbFits(d), NEW h, NEW j
    PROVE  DbFits(CompleteStep(d, h, j)) /\ Onward(d, CompleteStep(d, h, j))
  <1>1. CASE d.run = "active" /\ OwnsJob(d, h, j)
    <2> DEFINE e == [d EXCEPT !.run = "completed"]
    <2>1. CompleteStep(d, h, j) = e
      BY <1>1 DEF CompleteStep
    <2>2. DbFits(e)
      BY <1>1, WithRun DEF TerminalRun, DbFits, JobsFit
    <2>3. Onward(d, e)
      BY <1>1 DEF Onward, Grows, Known, OwnsJob, Over, DbFits, Tables
    <2> QED
      BY <2>1, <2>2, <2>3
  <1>2. CASE ~(d.run = "active" /\ OwnsJob(d, h, j))
    BY <1>2, OnwardRefl DEF CompleteStep
  <1> QED
    BY <1>1, <1>2

LEMMA ScheduleFits ==
    ASSUME NEW d, DbFits(d)
    PROVE  DbFits(ScheduleSourcePage(d)) /\ Onward(d, ScheduleSourcePage(d))
  <1> DEFINE e == Enqueue(d, {<<"source", d.cursor, 0>>}, "pending")
             f == [e EXCEPT !.queued = TRUE]
  <1>1. DbFits(e) /\ Onward(d, e)
    <2> \A j \in {<<"source", d.cursor, 0>>} \cap JobIds : j[1] # "item"
      OBVIOUS
    <2> QED
      BY EnqueueFits
  <1> HIDE DEF e
  <1>2. f \in Tables
    BY <1>1 DEF DbFits, Tables
  <1>3. /\ f.run = e.run /\ f.job = e.job /\ f.inv = e.inv /\ f.order = e.order /\ f.item = e.item
        /\ f.failed = e.failed /\ f.ended = e.ended /\ f.written = e.written /\ f.chunk = e.chunk
    BY <1>1 DEF DbFits, Tables
  <1> HIDE DEF f
  <1>4. DbFits(f)
    BY <1>1, <1>2, <1>3 DEF DbFits, JobsFit, OrderFits, KnownFit, Known
  <1>5. Onward(d, f)
    BY <1>1, <1>3 DEF Onward, Grows, OwnsJob, Known
  <1> QED
    BY <1>4, <1>5, OnwardRefl DEF ScheduleSourcePage, e, f

LEMMA FinalizeFits ==
    ASSUME NEW d, DbFits(d)
    PROVE  DbFits(FinalizeIfComplete(d)) /\ Onward(d, FinalizeIfComplete(d))
  <1> \A j \in {Start} \cap JobIds : j[1] # "item"
    BY DEF Start
  <1> QED
    BY EnqueueFits, OnwardRefl DEF FinalizeIfComplete

LEMMA CompleteItemFits ==
    ASSUME NEW d, DbFits(d), NEW i \in Items, NEW s \in Answered, d.item[i] # "absent"
    PROVE  DbFits(CompleteItem(d, i, s)) /\ Onward(d, CompleteItem(d, i, s))
  <1> DEFINE n == IF s = "failed" THEN d.failed + 1 ELSE d.failed
             items == [d.item EXCEPT ![i] = s]
             f == [d EXCEPT !.item = items, !.ended = d.ended + 1, !.failed = n]
  <1>1. CASE d.item[i] \in EndedStatuses \cup {"canceled"}
    BY <1>1, OnwardRefl DEF CompleteItem
  <1>2. CASE d.item[i] \notin EndedStatuses \cup {"canceled"}
    <2>1. CompleteItem(d, i, s) = f
      BY <1>2 DEF CompleteItem, DbFits, Tables
    <2>2. items \in [Items -> ItemStatuses] /\ \A k \in Items : items[k] = "absent" <=> d.item[k] = "absent"
      BY DEF DbFits, Tables, ItemStatuses, EndedStatuses, Answered
    <2>3. d.ended + 1 \in Nat /\ n \in Nat /\ n <= d.ended + 1
      BY DEF DbFits, Tables
    <2>4. f \in Tables
      <3> HIDE DEF items, n
      <3> QED
        BY <2>2, <2>3 DEF DbFits, Tables
    <2>5. /\ f.run = d.run /\ f.job = d.job /\ f.inv = d.inv /\ f.order = d.order /\ f.item = items
          /\ f.failed = n /\ f.ended = d.ended + 1 /\ f.written = d.written /\ f.chunk = d.chunk
      BY DEF DbFits, Tables
    <2> HIDE DEF f, items, n
    <2>6. DbFits(f)
      BY <2>2, <2>3, <2>4, <2>5 DEF DbFits, JobsFit, OrderFits, KnownFit, Known
    <2>7. Onward(d, f)
      BY <2>2, <2>5 DEF Onward, Grows, OwnsJob, Known
    <2> QED
      BY <2>1, <2>6, <2>7
  <1> QED
    BY <1>1, <1>2

-----------------------------------------------------------------------------
(* Numbers and sequences.                                                  *)

(* The k-th smallest of a finite set of numbers exists: ranks are an       *)
(* injection of the set into as many numbers.                              *)
LEMMA NthFits ==
    ASSUME NEW S \in SUBSET Nat, IsFiniteSet(S), NEW k \in 1..Cardinality(S)
    PROVE  Nth(S, k) \in S /\ Cardinality({m \in S : m <= Nth(S, k)}) = k
  <1> DEFINE below(n) == {m \in S : m <= n}
             rank == [n \in S |-> Cardinality(below(n))]
             N == Cardinality(S)
  <1>1. N \in Nat
    BY FS_CardinalityType
  <1>2. \A n \in S : IsFiniteSet(below(n)) /\ Cardinality(below(n)) \in 1..N
    <2> SUFFICES ASSUME NEW n \in S
                 PROVE  IsFiniteSet(below(n)) /\ Cardinality(below(n)) \in 1..N
      OBVIOUS
    <2>1. below(n) \in SUBSET S /\ n \in below(n)
      OBVIOUS
    <2>2. IsFiniteSet(below(n)) /\ Cardinality(below(n)) <= N
      BY <2>1, FS_Subset
    <2>3. Cardinality(below(n)) \in Nat /\ Cardinality(below(n)) # 0
      BY <2>1, <2>2, FS_CardinalityType, FS_EmptySet
    <2> QED
      BY <2>2, <2>3, <1>1
  <1>3. \A m, n \in S : m < n => Cardinality(below(m)) # Cardinality(below(n))
    <2> SUFFICES ASSUME NEW m \in S, NEW n \in S, m < n
                 PROVE  Cardinality(below(m)) # Cardinality(below(n))
      OBVIOUS
    <2> m \in Nat /\ n \in Nat
      OBVIOUS
    <2>2. \A x \in S : x <= m => x <= n
      OBVIOUS
    <2>3. ~(n <= m) /\ n <= n
      OBVIOUS
    <2>1. below(m) \in SUBSET below(n) /\ n \in below(n) /\ n \notin below(m)
      BY <2>2, <2>3
    <2> QED
      BY <2>1, <1>2, FS_Subset
  <1>4. rank \in Injection(S, 1..N)
    <2>1. rank \in [S -> 1..N]
      BY <1>2
    <2>2. \A m, n \in S : rank[m] = rank[n] => m = n
      BY <1>3
    <2> HIDE DEF rank
    <2> QED
      BY <2>1, <2>2, Zenon DEF Injection, IsInjective
  <1>5. IsFiniteSet(1..N) /\ Cardinality(1..N) = N
    BY <1>1, FS_Interval
  <1>6. rank \in Surjection(S, 1..N)
    <2> HIDE DEF rank
    <2> QED
      BY <1>4, <1>5, FS_Injection
  <1>7. PICK n \in S : rank[n] = k
    BY <1>6 DEF Surjection
  <1>8. \E x \in S : Cardinality({m \in S : m <= x}) = k
    BY <1>7
  <1> QED
    BY <1>8, Zenon DEF Nth

LEMMA NthDistinct ==
    ASSUME NEW S \in SUBSET Nat, IsFiniteSet(S),
           NEW k \in 1..Cardinality(S), NEW l \in 1..Cardinality(S), Nth(S, k) = Nth(S, l)
    PROVE  k = l
  <1>1. Cardinality({m \in S : m <= Nth(S, k)}) = k
    BY NthFits
  <1>2. Cardinality({m \in S : m <= Nth(S, l)}) = l
    BY NthFits
  <1> QED
    BY <1>1, <1>2

LEMMA NthOnto ==
    ASSUME NEW S \in SUBSET Nat, IsFiniteSet(S), NEW n \in S
    PROVE  \E k \in 1..Cardinality(S) : Nth(S, k) = n
  <1> DEFINE place == [k \in 1..Cardinality(S) |-> Nth(S, k)]
  <1>1. Cardinality(S) \in Nat
    BY FS_CardinalityType
  <1>2. place \in Injection(1..Cardinality(S), S)
    <2>1. place \in [1..Cardinality(S) -> S]
      BY NthFits
    <2>2. \A k, l \in 1..Cardinality(S) : place[k] = place[l] => k = l
      BY NthDistinct
    <2> HIDE DEF place
    <2> QED
      BY <2>1, <2>2, Zenon DEF Injection, IsInjective
  <1>3. Cardinality(1..Cardinality(S)) = Cardinality(S)
    BY <1>1, FS_Interval
  <1>4. place \in Surjection(1..Cardinality(S), S)
    <2> HIDE DEF place
    <2> QED
      BY <1>2, <1>3, FS_Injection
  <1>5. PICK k \in 1..Cardinality(S) : place[k] = n
    BY <1>4 DEF Surjection
  <1> QED
    BY <1>5

LEMMA LeastExists ==
    ASSUME NEW T \in SUBSET Nat, T # {}
    PROVE  \E n \in T : \A m \in T : n <= m
  <1>1. PICK n \in T : \A m \in T : ~(<<m, n>> \in OpToRel(<, Nat))
    BY WFMin, NatLessThanWellFounded
  <1>2. \A m \in T : ~(m < n)
    BY <1>1 DEF OpToRel
  <1> QED
    BY <1>2

(* A page adds its new keys to the order, each once.                       *)
LEMMA DiscoverFits ==
    ASSUME NEW order \in Seq(Items), \A m, n \in DOMAIN order : order[m] = order[n] => m = n,
           NEW page \in Seq(Items)
    PROVE  /\ Discover(order, page) \in Seq(Items)
           /\ \A m, n \in DOMAIN Discover(order, page) :
                    Discover(order, page)[m] = Discover(order, page)[n] => m = n
           /\ Range(Discover(order, page)) = Range(order) \cup Range(page)
           /\ Range(page) \subseteq Range(order) => Discover(order, page) = order
  <1> DEFINE new == NewPlaces(order, page)
             N == Cardinality(new)
             t == [k \in 1..N |-> page[Nth(new, k)]]
             s == order \o t
  <1>0. Len(order) \in Nat /\ DOMAIN order = 1..Len(order) /\ Len(page) \in Nat /\ DOMAIN page = 1..Len(page)
    OBVIOUS
  <1>1. new \in SUBSET (1..Len(page)) /\ \A n \in new : page[n] \in Items /\ page[n] \notin Range(order)
    BY <1>0 DEF NewPlaces
  <1>2. IsFiniteSet(new) /\ N \in Nat /\ new \in SUBSET Nat
    <2>1. IsFiniteSet(1..Len(page))
      BY <1>0, FS_Interval
    <2>2. IsFiniteSet(new)
      BY <1>1, <2>1, FS_Subset
    <2>3. 1..Len(page) \subseteq Nat
      BY <1>0
    <2> HIDE DEF new
    <2> QED
      BY <1>1, <2>2, <2>3, FS_CardinalityType
  <1>3. \A m, n \in new : page[m] = page[n] => m = n
    <2> SUFFICES ASSUME NEW m \in new, NEW n \in new, page[m] = page[n], m < n
                 PROVE  FALSE
      BY <1>2
    <2>1. m \in 1..(n - 1)
      BY <1>0, <1>1
    <2> QED
      BY <2>1 DEF NewPlaces
  <1> HIDE DEF new
  <1>4. \A k \in 1..N : Nth(new, k) \in new
    BY <1>2, NthFits
  <1>5. t \in Seq(Items) /\ Len(t) = N /\ DOMAIN t = 1..N
    <2>1. t \in [1..N -> Items]
      BY <1>1, <1>4
    <2>2. t \in Seq(Items)
      BY <2>1, <1>2, SeqDef
    <2> HIDE DEF t
    <2> QED
      BY <2>1, <2>2, <1>2
  <1>6. \A k, l \in 1..N : t[k] = t[l] => k = l
    <2> SUFFICES ASSUME NEW k \in 1..N, NEW l \in 1..N, t[k] = t[l]
                 PROVE  k = l
      OBVIOUS
    <2>1. Nth(new, k) = Nth(new, l)
      BY <1>3, <1>4
    <2> QED
      BY <2>1, <1>2, NthDistinct
  <1>7. \A k \in 1..N : t[k] \notin Range(order) /\ t[k] \in Range(page)
    BY <1>0, <1>1, <1>4 DEF Range
  <1>8. \A x \in Range(page) \ Range(order) : \E k \in 1..N : t[k] = x
    <2> SUFFICES ASSUME NEW x \in Range(page) \ Range(order)
                 PROVE  \E k \in 1..N : t[k] = x
      OBVIOUS
    <2> DEFINE T == {n \in 1..Len(page) : page[n] = x}
    <2>1. T # {} /\ T \in SUBSET Nat
      BY <1>0 DEF Range
    <2>2. PICK n \in T : \A m \in T : n <= m
      <3> HIDE DEF T
      <3> QED
        BY <2>1, LeastExists
    <2>3. n \in 1..Len(page) /\ page[n] = x
      OBVIOUS
    <2>4. \A m \in 1..(n - 1) : page[m] # page[n]
      <3> SUFFICES ASSUME NEW m \in 1..(n - 1), page[m] = x
                   PROVE  FALSE
        BY <2>3
      <3>1. m \in 1..Len(page) /\ ~(n <= m)
        BY <1>0, <2>3
      <3> QED
        BY <3>1, <2>2
    <2>5. n \in new
      BY <1>0, <2>3, <2>4 DEF new, NewPlaces
    <2>6. PICK k \in 1..N : Nth(new, k) = n
      BY <1>2, <2>5, NthOnto
    <2> QED
      BY <2>3, <2>6
  <1> HIDE DEF t
  <1>9. /\ s \in Seq(Items) /\ Len(s) = Len(order) + N /\ DOMAIN s = 1..(Len(order) + N)
        /\ \A m \in 1..Len(order) : s[m] = order[m]
        /\ \A m \in (Len(order) + 1)..(Len(order) + N) : s[m] = t[m - Len(order)]
    BY <1>0, <1>2, <1>5
  <1> HIDE DEF s
  <1>10. \A m, n \in DOMAIN s : s[m] = s[n] => m = n
    <2> SUFFICES ASSUME NEW m \in DOMAIN s, NEW n \in DOMAIN s, s[m] = s[n], m < n
                 PROVE  FALSE
      BY <1>0, <1>2, <1>9
    <2>1. CASE n <= Len(order)
      BY <2>1, <1>0, <1>2, <1>9
    <2>2. CASE m > Len(order)
      <3>4. m \in 1..(Len(order) + N) /\ n \in 1..(Len(order) + N)
        BY <1>9
      <3>1. m - Len(order) \in 1..N /\ n - Len(order) \in 1..N
        BY <2>2, <1>0, <1>2, <3>4
      <3>5. m \in (Len(order) + 1)..(Len(order) + N) /\ n \in (Len(order) + 1)..(Len(order) + N)
        BY <2>2, <1>0, <1>2, <3>4
      <3>2. s[m] = t[m - Len(order)] /\ s[n] = t[n - Len(order)]
        BY <1>9, <3>5
      <3>3. m - Len(order) = n - Len(order)
        BY <3>1, <3>2, <1>6
      <3> QED
        BY <3>3, <1>0, <1>2, <1>9
    <2>3. CASE m <= Len(order) /\ n > Len(order)
      <3>1. m \in DOMAIN order /\ s[m] = order[m]
        BY <2>3, <1>0, <1>2, <1>9
      <3>2. n - Len(order) \in 1..N /\ s[n] = t[n - Len(order)]
        BY <2>3, <1>0, <1>2, <1>9
      <3> QED
        BY <3>1, <3>2, <1>7 DEF Range
    <2> QED
      BY <2>1, <2>2, <2>3, <1>0, <1>2, <1>9
  <1>11. Range(s) = Range(order) \cup Range(page)
    <2>1. ASSUME NEW x \in Range(s)
          PROVE  x \in Range(order) \cup Range(page)
      <3>1. PICK n \in DOMAIN s : s[n] = x
        BY DEF Range
      <3>2. CASE n <= Len(order)
        BY <3>1, <3>2, <1>0, <1>2, <1>9 DEF Range
      <3>3. CASE n > Len(order)
        <4>1. n - Len(order) \in 1..N /\ s[n] = t[n - Len(order)]
          BY <3>3, <1>0, <1>2, <1>9
        <4> QED
          BY <3>1, <4>1, <1>7
      <3> QED
        BY <3>2, <3>3, <1>0, <1>2, <1>9
    <2>2. ASSUME NEW x \in Range(order)
          PROVE  x \in Range(s)
      <3>1. PICK n \in 1..Len(order) : order[n] = x
        BY <1>0 DEF Range
      <3>2. n \in DOMAIN s /\ s[n] = x
        BY <3>1, <1>0, <1>2, <1>9
      <3> QED
        BY <3>2 DEF Range
    <2>3. ASSUME NEW x \in Range(page) \ Range(order)
          PROVE  x \in Range(s)
      <3>1. PICK k \in 1..N : t[k] = x
        BY <1>8
      <3>2. Len(order) + k \in DOMAIN s /\ s[Len(order) + k] = t[k]
        BY <1>0, <1>2, <1>9
      <3> QED
        BY <3>1, <3>2 DEF Range
    <2> QED
      BY <2>1, <2>2, <2>3
  <1>12. ASSUME Range(page) \subseteq Range(order)
         PROVE  s = order
    <2>1. new = {}
      <3> SUFFICES ASSUME NEW n \in new
                   PROVE  FALSE
        OBVIOUS
      <3>1. n \in DOMAIN page /\ page[n] \notin Range(order)
        BY <1>0, <1>1
      <3>2. page[n] \in Range(page)
        BY <3>1 DEF Range
      <3> QED
        BY <3>1, <3>2, <1>12
    <2>2. N = 0
      BY <2>1, FS_EmptySet
    <2> QED
      BY <2>2, <1>0, <1>9, <1>5 DEF s
  <1>13. Discover(order, page) = s
    BY DEF Discover, s, t, new
  <1> QED
    BY <1>9, <1>10, <1>11, <1>12, <1>13

LEMMA OrderBound ==
    ASSUME NEW d, DbFits(d)
    PROVE  /\ DOMAIN d.order = 1..Len(d.order)
           /\ Len(d.order) \in 0..Cardinality(Items) /\ Cardinality(Items) \in Nat
           /\ Cardinality(Range(d.order)) = Len(d.order)
  <1>1. d.order \in Seq(Items)
    BY DEF DbFits, Tables
  <1>2. Len(d.order) \in Nat /\ DOMAIN d.order = 1..Len(d.order)
    BY <1>1
  <1>3. d.order \in [1..Len(d.order) -> Items]
    BY <1>1
  <1>4. d.order \in Injection(1..Len(d.order), Items)
    <2> \A m, n \in 1..Len(d.order) : d.order[m] = d.order[n] => m = n
      BY <1>2 DEF DbFits, OrderFits
    <2> QED
      BY <1>3, Zenon DEF Injection, IsInjective
  <1>5. IsFiniteSet(Items) /\ Cardinality(Items) \in Nat
    BY BatchAssumption, FS_CardinalityType
  <1>6. IsFiniteSet(1..Len(d.order)) /\ Cardinality(1..Len(d.order)) = Len(d.order)
    BY <1>2, FS_Interval
  <1>7. Len(d.order) <= Cardinality(Items)
    BY <1>4, <1>5, <1>6, FS_Injection
  <1>8. d.order \in Surjection(1..Len(d.order), Range(d.order)) /\ d.order \in Injection(1..Len(d.order), Range(d.order))
    <2>1. d.order \in [1..Len(d.order) -> Range(d.order)]
      BY <1>2, <1>3 DEF Range
    <2>2. \A x \in Range(d.order) : \E n \in 1..Len(d.order) : d.order[n] = x
      BY <1>2 DEF Range
    <2> QED
      BY <2>1, <2>2, <1>4, Zenon DEF Injection, IsInjective, Surjection
  <1>9. Cardinality(Range(d.order)) = Len(d.order)
    BY <1>6, <1>8, FS_Surjection
  <1> QED
    BY <1>2, <1>5, <1>7, <1>9

(* What acceptSourcePage writes, and then the jobs it queues.              *)
LEMMA PageTaken ==
    ASSUME NEW d, DbFits(d), NEW p \in 1..Len(Pages)
    PROVE  \E f, S :
                /\ AcceptSourcePage(d, p) = Enqueue(f, S, "pending")
                /\ DbFits(f) /\ Onward(d, f)
                /\ \A j \in S \cap JobIds : j[1] = "source" \/ (j[1] = "item" /\ j[2] \in Known(f) /\ j[3] = 0)
                /\ f.run = d.run /\ f.job = d.job /\ f.ended = d.ended /\ f.failed = d.failed
                /\ f.width = d.width /\ f.state = d.state /\ f.chunk = d.chunk
                /\ f.cursor = (IF p = Len(Pages) THEN 0 ELSE p + 1) /\ f.done = (p = Len(Pages))
                /\ Known(f) = Known(d) \cup Range(Pages[p])
                /\ \A i \in Items : IF d.item[i] = "absent" THEN f.item[i] \in {"absent", "pending"}
                                                        ELSE f.item[i] = d.item[i]
                /\ Range(Pages[p]) \subseteq Known(d) => f.order = d.order
  <1> DEFINE order == Discover(d.order, Pages[p])
             fresh == {i \in Range(Pages[p]) : d.item[i] = "absent"}
             last == p = Len(Pages)
             items == [i \in Items |-> IF i \in fresh THEN "pending" ELSE d.item[i]]
             e == [d EXCEPT !.order = order, !.item = items]
             queueNext == ~last /\ Backlog(e) < HighWater
             f == [e EXCEPT !.cursor = IF last THEN 0 ELSE p + 1, !.done = last, !.queued = queueNext]
             S == ({"item"} \X fresh \X {0}) \cup {j \in {<<"source", p + 1, 0>>} : queueNext}
  <1>1. AcceptSourcePage(d, p) = Enqueue(f, S, "pending")
    BY Zenon DEF AcceptSourcePage
  <1>2. Pages[p] \in Seq(Items) /\ d.order \in Seq(Items) /\ Len(Pages) \in Nat
    <2>1. d.order \in Seq(Items)
      BY DEF DbFits, Tables
    <2> DEFINE Sequences == Seq(Items)
    <2>2. Pages \in Seq(Sequences)
      BY BatchAssumption
    <2> HIDE DEF Sequences
    <2>3. Len(Pages) \in Nat /\ Pages[p] \in Sequences
      BY <2>2
    <2> QED
      BY <2>1, <2>3 DEF Sequences
  <1>3. /\ order \in Seq(Items)
        /\ \A m, n \in DOMAIN order : order[m] = order[n] => m = n
        /\ Range(order) = Range(d.order) \cup Range(Pages[p])
        /\ Range(Pages[p]) \subseteq Range(d.order) => order = d.order
    <2>1. \A m, n \in DOMAIN d.order : d.order[m] = d.order[n] => m = n
      BY DEF DbFits, OrderFits
    <2> QED
      BY <1>2, <2>1, DiscoverFits
  <1>4. \A i \in Items : i \in fresh <=> i \in Range(Pages[p]) /\ d.item[i] = "absent"
    OBVIOUS
  <1>5. \A i \in Items : items[i] = "absent" <=> i \notin Range(order)
    BY <1>3, <1>4 DEF DbFits, OrderFits
  <1>6. items \in [Items -> ItemStatuses]
    BY DEF DbFits, Tables, ItemStatuses, BacklogStatuses
  <1>7. fresh \subseteq Items
    BY <1>2 DEF Range
  <1>18. \A i \in Items : IF d.item[i] = "absent" THEN items[i] \in {"absent", "pending"}
                                                  ELSE items[i] = d.item[i]
    OBVIOUS
  <1>8. \A i \in Items : i \in fresh \/ d.item[i] # "absent" => items[i] # "absent"
    OBVIOUS
  <1> HIDE DEF order, items, fresh
  <1>9. e \in Tables
    BY <1>3, <1>6 DEF DbFits, Tables
  <1>10. queueNext \in BOOLEAN /\ last \in BOOLEAN
    OBVIOUS
  <1> HIDE DEF e
  <1>11. f \in Tables
    <2>1. (IF last THEN 0 ELSE p + 1) \in 0..Len(Pages)
      BY <1>2
    <2> HIDE DEF last, queueNext
    <2> QED
      BY <1>9, <1>10, <2>1 DEF Tables
  <1>12. /\ f.run = e.run /\ f.job = e.job /\ f.inv = e.inv /\ f.order = e.order /\ f.item = e.item
         /\ f.failed = e.failed /\ f.ended = e.ended /\ f.width = e.width /\ f.state = e.state
         /\ f.chunk = e.chunk /\ f.written = e.written
         /\ f.cursor = (IF last THEN 0 ELSE p + 1) /\ f.done = last
    BY <1>9 DEF Tables
  <1>13. /\ e.run = d.run /\ e.job = d.job /\ e.inv = d.inv /\ e.order = order /\ e.item = items
         /\ e.failed = d.failed /\ e.ended = d.ended /\ e.width = d.width /\ e.state = d.state
         /\ e.chunk = d.chunk /\ e.written = d.written
    BY DEF DbFits, Tables, e
  <1> HIDE DEF f, queueNext
  <1>14. f.item = items /\ Known(d) \subseteq Known(f) /\ fresh \subseteq Known(f)
    BY <1>7, <1>8, <1>12, <1>13 DEF Known
  <1>15. DbFits(f)
    BY <1>3, <1>5, <1>11, <1>12, <1>13, <1>14 DEF DbFits, JobsFit, OrderFits, KnownFit
  <1>16. \A j \in S \cap JobIds : j[1] = "source" \/ (j[1] = "item" /\ j[2] \in Known(f) /\ j[3] = 0)
    BY <1>14
  <1>19. Known(f) = Known(d) \cup Range(Pages[p])
    <2>1. Range(Pages[p]) \subseteq Items /\ Range(d.order) \subseteq Items /\ Range(order) \subseteq Items
      BY <1>2, <1>3, RangeOfSeq
    <2>2. Known(d) = Range(d.order)
      BY <2>1 DEF DbFits, OrderFits, Known
    <2>3. Known(f) = Range(order)
      BY <1>5, <1>14, <2>1 DEF Known
    <2> QED
      BY <1>3, <2>2, <2>3
  <1>20. Range(Pages[p]) \subseteq Known(d) => order = d.order
    <2>1. Range(d.order) \subseteq Items
      BY <1>2, RangeOfSeq
    <2> QED
      BY <1>3, <2>1 DEF DbFits, OrderFits, Known
  <1>17. Onward(d, f)
    BY <1>12, <1>13, <1>14 DEF Onward, Grows, OwnsJob
  <1> HIDE DEF S
  <1>21. /\ f.run = d.run /\ f.job = d.job /\ f.ended = d.ended /\ f.failed = d.failed
         /\ f.width = d.width /\ f.state = d.state /\ f.chunk = d.chunk /\ f.item = items /\ f.order = order
         /\ f.cursor = (IF p = Len(Pages) THEN 0 ELSE p + 1) /\ f.done = (p = Len(Pages))
    BY <1>12, <1>13
  <1>22. /\ \A i \in Items : IF d.item[i] = "absent" THEN f.item[i] \in {"absent", "pending"}
                                                 ELSE f.item[i] = d.item[i]
         /\ Range(Pages[p]) \subseteq Known(d) => f.order = d.order
    BY <1>18, <1>20, <1>21
  <1> QED
    BY <1>1, <1>15, <1>16, <1>17, <1>19, <1>21, <1>22

LEMMA AcceptFits ==
    ASSUME NEW d, DbFits(d), NEW p \in 1..Len(Pages)
    PROVE  DbFits(AcceptSourcePage(d, p)) /\ Onward(d, AcceptSourcePage(d, p))
  <1>1. PICK f, S :
            /\ AcceptSourcePage(d, p) = Enqueue(f, S, "pending")
            /\ DbFits(f) /\ Onward(d, f)
            /\ \A j \in S \cap JobIds : j[1] = "source" \/ (j[1] = "item" /\ j[2] \in Known(f) /\ j[3] = 0)
    BY PageTaken
  <1> QED
    BY <1>1, EnqueueFits, OnwardTrans

LEMMA CreateFits ==
    ASSUME NEW d, DbFits(d)
    PROVE  DbFits(CreateSinkChunks(d)) /\ Onward(d, CreateSinkChunks(d))
  <1> DEFINE ended == {n \in DOMAIN d.order : d.item[d.order[n]] \in EndedStatuses}
             size == Cardinality(ended)
             count == (size + ChunkSize - 1) \div ChunkSize
             chunk == [c \in 1..count |->
                        [status |-> "pending", first |-> Nth(ended, (c - 1) * ChunkSize + 1),
                         last |-> Nth(ended, IF c = count THEN size ELSE c * ChunkSize)]]
             e == [d EXCEPT !.chunk = chunk]
  <1>1. CreateSinkChunks(d) = IF Len(d.chunk) > 0 THEN d ELSE e
    BY DEF CreateSinkChunks
  <1>2. ended \in SUBSET Chunks /\ Chunks \in SUBSET Nat /\ IsFiniteSet(Chunks)
    <2>1. DOMAIN d.order \subseteq Chunks
      BY OrderBound DEF Chunks
    <2>2. Chunks \in SUBSET Nat /\ IsFiniteSet(Chunks)
      BY OrderBound, FS_Interval DEF Chunks
    <2> QED
      BY <2>1, <2>2
  <1> HIDE DEF ended
  <1>3. IsFiniteSet(ended) /\ size \in Nat /\ ended \in SUBSET Nat
    BY <1>2, FS_Subset, FS_CardinalityType
  <1> HIDE DEF size
  <1>4. /\ count \in Nat /\ count * ChunkSize <= size + ChunkSize - 1
        /\ \A c \in 1..count : /\ (c - 1) * ChunkSize + 1 \in 1..size
                               /\ (IF c = count THEN size ELSE c * ChunkSize) \in 1..size
    <2>1. ChunkSize \in Nat \ {0}
      BY BatchAssumption
    <2>2. size + ChunkSize - 1 \in Nat
      BY <1>3, <2>1
    <2>3. \A n \in Nat : n \div ChunkSize \in Nat /\ (n \div ChunkSize) * ChunkSize <= n
      BY <2>1
    <2>4. count \in Nat /\ count * ChunkSize <= size + ChunkSize - 1
      BY <2>2, <2>3
    <2> HIDE DEF count
    <2>5. ASSUME NEW c \in 1..count
          PROVE  /\ (c - 1) * ChunkSize + 1 \in 1..size
                 /\ (IF c = count THEN size ELSE c * ChunkSize) \in 1..size
      <3>1. (c - 1) * ChunkSize \in Nat /\ c * ChunkSize = (c - 1) * ChunkSize + ChunkSize
        BY <2>1, <2>4
      <3>2. c * ChunkSize <= count * ChunkSize
        BY <2>1, <2>4
      <3>3. (c - 1) * ChunkSize + 1 \in 1..size
        BY <3>1, <3>2, <2>1, <2>4, <1>3
      <3>4. c # count => (c + 1) * ChunkSize <= count * ChunkSize /\ (c + 1) * ChunkSize = c * ChunkSize + ChunkSize
        BY <2>1, <2>4
      <3>5. c # count => c * ChunkSize \in 1..size
        BY <3>1, <3>4, <2>1, <2>4, <1>3
      <3> QED
        BY <3>3, <3>5, <1>3
    <2> QED
      BY <2>4, <2>5
  <1> HIDE DEF count
  <1>5. chunk \in Seq(ChunkRow)
    <2>1. \A k \in 1..size : Nth(ended, k) \in Chunks
      BY <1>2, <1>3, NthFits DEF size
    <2>2. ASSUME NEW c \in 1..count
          PROVE  chunk[c] \in ChunkRow
      BY <1>4, <2>1 DEF ChunkRow
    <2>3. chunk \in [1..count -> ChunkRow]
      BY <2>2
    <2> HIDE DEF chunk
    <2> QED
      BY <2>3, <1>4, SeqDef
  <1> HIDE DEF chunk
  <1>6. e \in Tables
    BY <1>5 DEF DbFits, Tables
  <1>7. /\ e.run = d.run /\ e.job = d.job /\ e.inv = d.inv /\ e.order = d.order /\ e.item = d.item
        /\ e.failed = d.failed /\ e.ended = d.ended /\ e.written = d.written /\ e.chunk = chunk
    BY DEF DbFits, Tables
  <1> HIDE DEF e
  <1>10. Len(d.chunk) \in Nat /\ Len(chunk) \in Nat /\ d.written \in Nat /\ d.written <= Len(d.chunk)
    BY <1>5 DEF DbFits, Tables
  <1>8. Len(d.chunk) <= 0 => DbFits(e)
    BY <1>6, <1>7, <1>10 DEF DbFits, JobsFit, OrderFits, KnownFit, Known
  <1>9. Onward(d, e)
    BY <1>7 DEF Onward, Grows, OwnsJob, Known
  <1> QED
    BY <1>1, <1>8, <1>9, <1>10, OnwardRefl

LEMMA NextSinkFits ==
    ASSUME NEW d, DbFits(d)
    PROVE  DbFits(EnqueueNextSinkWork(d)) /\ Onward(d, EnqueueNextSinkWork(d))
  <1> DEFINE next == {c \in ChunksIn(d, "pending") :
                        Cardinality(ChunksIn(d, "running"))
                        + Cardinality({b \in ChunksIn(d, "pending") : b < c}) < d.width}
  <1>1. \A j \in ({"write"} \X next \X {0}) \cap JobIds : j[1] # "item"
    OBVIOUS
  <1>2. \A j \in {Finalize} \cap JobIds : j[1] # "item"
    BY DEF Finalize
  <1>3. /\ EnqueueNextSinkWork(d) = IF next # {} THEN Enqueue(d, {"write"} \X next \X {0}, "pending")
                                    ELSE IF ChunksIn(d, "completed") # DOMAIN d.chunk THEN d
                                    ELSE Enqueue(d, {Finalize}, "pending")
    BY DEF EnqueueNextSinkWork
  <1> HIDE DEF next
  <1> QED
    BY <1>1, <1>2, <1>3, EnqueueFits, OnwardRefl

(* Rows of invocations.                                                    *)
LEMMA JoinFits ==
    ASSUME NEW r \in InvocationRow, InvocationFits(r), r.size < MaxItems, NEW i \in Items,
           NEW q, q = [r EXCEPT !.status = "pending",
                                !.size = IF r.member[i] = "absent" THEN r.size + 1 ELSE r.size,
                                !.member[i] = IF r.member[i] = "absent" THEN "pending" ELSE r.member[i]]
    PROVE  q \in InvocationRow /\ InvocationFits(q) /\ Joined(q) = Joined(r) \cup {i}
  <1> DEFINE m == [r.member EXCEPT ![i] = IF r.member[i] = "absent" THEN "pending" ELSE r.member[i]]
             n == IF r.member[i] = "absent" THEN r.size + 1 ELSE r.size
  <1>7. r.member \in [Items -> {"absent", "pending", "resolved"}] /\ r.size \in Nat
    BY DEF InvocationRow
  <1>8. m \in [Items -> {"absent", "pending", "resolved"}] /\ n \in Nat
    BY <1>7
  <1>9. /\ q \in InvocationRow
        /\ q.member = m /\ q.size = n /\ q.status = "pending"
    <2> HIDE DEF m, n
    <2> QED
      BY <1>8 DEF InvocationRow, m, n
  <1>1. q \in InvocationRow
    BY <1>9
  <1>2. Joined(q) = Joined(r) \cup {i}
    BY <1>7, <1>9 DEF Joined
  <1>3. IsFiniteSet(Joined(r))
    BY BatchAssumption, FS_Subset DEF Joined
  <1>4. Cardinality(Joined(q)) = IF i \in Joined(r) THEN Cardinality(Joined(r)) ELSE Cardinality(Joined(r)) + 1
    BY <1>2, <1>3, FS_AddElement
  <1>5. i \in Joined(r) <=> r.member[i] # "absent"
    BY DEF Joined
  <1>6. q.status = "pending" /\ q.size = IF r.member[i] = "absent" THEN r.size + 1 ELSE r.size
    BY <1>9
  <1> HIDE DEF m, n
  <1> QED
    BY <1>1, <1>2, <1>4, <1>5, <1>6, BatchAssumption DEF InvocationFits, InvocationRow

(* An invocation there is room in exists, when the bound leaves one.       *)
LEMMA AdmittingFits ==
    ASSUME NEW d, DbFits(d), NEW W \in SUBSET Invocations, Candidates(d, W) # {}
    PROVE  /\ Admitting(d, W) \in Invocations
           /\ d.inv[Admitting(d, W)].size < MaxItems
  <1>1. Candidates(d, W) \subseteq Invocations /\ Invocations \subseteq Nat
    <2>1. Candidates(d, W) \subseteq Invocations
      BY DEF Candidates, FindCompatibleInvocation
    <2>2. Invocations \subseteq Nat
      BY DEF Invocations
    <2> QED
      BY <2>1, <2>2
  <1>2. \E v \in Candidates(d, W) : \A w \in Candidates(d, W) : v <= w
    BY <1>1, LeastExists
  <1>3. Admitting(d, W) \in Candidates(d, W)
    BY <1>2, Zenon DEF Admitting, Least
  <1>4. \A v \in Candidates(d, W) : d.inv[v].size < MaxItems
    BY <1>1, BatchAssumption DEF Candidates, FindCompatibleInvocation, DbFits, InvocationFits
  <1> QED
    BY <1>1, <1>3, <1>4

LEMMA ParkFits ==
    ASSUME NEW d, DbFits(d), NEW i \in Known(d), NEW n \in Nat,
           NEW v \in Invocations, d.inv[v].size < MaxItems
    PROVE  DbFits(ParkAtPhysicalStep(d, i, n, v)) /\ Onward(d, ParkAtPhysicalStep(d, i, n, v))
  <1> DEFINE r == d.inv[v]
             q == [r EXCEPT !.status = "pending",
                            !.size = IF r.member[i] = "absent" THEN r.size + 1 ELSE r.size,
                            !.member[i] = IF r.member[i] = "absent" THEN "pending" ELSE r.member[i]]
             inv == [d.inv EXCEPT ![v] = q]
             rows == [d.rows EXCEPT ![i] = d.rows[i] \cup {n}]
             items == [d.item EXCEPT ![i] = "waiting"]
             e == [d EXCEPT !.inv = inv, !.rows = rows, !.item = items]
  <1>0. i \in Items /\ d.item[i] # "absent"
    BY DEF Known
  <1>1. r \in InvocationRow /\ InvocationFits(r)
    BY DEF DbFits, Tables
  <1>2. ParkAtPhysicalStep(d, i, n, v) = e
    <2>1. ParkAtPhysicalStep(d, i, n, v) =
            [d EXCEPT !.inv[v] = q, !.rows[i] = d.rows[i] \cup {n}, !.item[i] = "waiting"]
      BY Zenon DEF ParkAtPhysicalStep
    <2> HIDE DEF q
    <2> QED
      BY <2>1, <1>0 DEF DbFits, Tables
  <1>3. q \in InvocationRow /\ InvocationFits(q) /\ Joined(q) = Joined(r) \cup {i}
    <2> HIDE DEF r
    <2> QED
      BY <1>0, <1>1, JoinFits DEF r
  <1> HIDE DEF q
  <1>4. inv \in [Invocations -> InvocationRow]
    BY <1>3 DEF DbFits, Tables
  <1>5. \A w \in Invocations : InvocationFits(inv[w]) /\ (inv[w] = d.inv[w] \/ (w = v /\ inv[w] = q))
    BY <1>3 DEF DbFits, Tables
  <1>6. \A w \in Invocations : Joined(d.inv[w]) \subseteq Joined(inv[w]) /\ Joined(inv[w]) \subseteq Joined(d.inv[w]) \cup {i}
    BY <1>3, <1>5
  <1>7. items \in [Items -> ItemStatuses] /\ \A k \in Items : items[k] = "absent" <=> d.item[k] = "absent"
    BY <1>0 DEF DbFits, Tables, ItemStatuses, BacklogStatuses
  <1>8. rows \in [Items -> SUBSET Nat]
    BY <1>0 DEF DbFits, Tables
  <1> HIDE DEF r, inv, rows, items
  <1>9. e \in Tables
    BY <1>4, <1>7, <1>8 DEF DbFits, Tables
  <1>10. /\ e.run = d.run /\ e.job = d.job /\ e.inv = inv /\ e.order = d.order /\ e.item = items
         /\ e.failed = d.failed /\ e.ended = d.ended /\ e.written = d.written /\ e.chunk = d.chunk
    BY DEF DbFits, Tables
  <1> HIDE DEF e
  <1>11. Known(e) = Known(d)
    BY <1>7, <1>10 DEF Known
  <1>12. DbFits(e)
    BY <1>5, <1>6, <1>7, <1>9, <1>10, <1>11 DEF DbFits, JobsFit, OrderFits, KnownFit
  <1>13. Onward(d, e)
    BY <1>6, <1>10, <1>11 DEF Onward, Grows, OwnsJob
  <1> QED
    BY <1>2, <1>12, <1>13

(* What a waiting item's transaction writes.                               *)
LEMMA ParkWrites ==
    ASSUME NEW d, DbFits(d), NEW i, NEW n, NEW v
    PROVE  LET e == ParkAtPhysicalStep(d, i, n, v)
           IN  /\ e.item = [d.item EXCEPT ![i] = "waiting"]
               /\ \A x \in DOMAIN d \ {"inv", "rows", "item"} : e[x] = d[x]
  BY DEF ParkAtPhysicalStep, DbFits, Tables

(* What the answer of a physical step writes, and then the jobs it queues. *)
Taken(d, v, seen, out, f) ==
    /\ PersistPhysicalOutcomes(d, v, seen, out)
            = Enqueue(f, {"item"} \X Resuming(seen, out) \X {v}, "pending")
    /\ DbFits(f) /\ Onward(d, f)
    /\ Resuming(seen, out) \subseteq Known(f)
    /\ f.item = [i \in Items |-> IF i \in Resuming(seen, out) THEN "pending" ELSE d.item[i]]
    /\ \A x \in DOMAIN d \ {"inv", "closed", "passed", "item", "attempt"} : f[x] = d[x]

LEMMA OutcomesTaken ==
    ASSUME NEW d, DbFits(d), NEW v \in Invocations, NEW seen, NEW out,
           DOMAIN out \subseteq Joined(d.inv[v]), \A i \in DOMAIN out : seen[i] \in Nat
    PROVE  \E f : Taken(d, v, seen, out, f)
  <1> DEFINE resuming == Resuming(seen, out)
             next(i) == IF i \in Retried(seen, out) THEN seen[i] + 1 ELSE seen[i]
             hit == {i \in DOMAIN out : seen[i] \in d.rows[i]}
             done(i) == IF out[i] = "succeeded" THEN d.passed[i] \cup {seen[i]} ELSE d.passed[i] \ {seen[i]}
             r == d.inv[v]
             member == [i \in Items |-> IF i \in DOMAIN out THEN "resolved" ELSE r.member[i]]
             resume == [i \in Items |-> IF i \in DOMAIN out THEN next(i) ELSE r.resume[i]]
             q == [r EXCEPT !.status = "completed", !.member = member, !.resume = resume]
             inv == [d.inv EXCEPT ![v] = q]
             closed == [i \in Items |-> IF i \in hit THEN d.closed[i] \cup {seen[i]} ELSE d.closed[i]]
             passed == [i \in Items |-> IF i \in hit THEN done(i) ELSE d.passed[i]]
             items == [i \in Items |-> IF i \in resuming THEN "pending" ELSE d.item[i]]
             attempt == [i \in Items |-> IF i \in resuming THEN next(i) ELSE d.attempt[i]]
             e == [d EXCEPT !.inv = inv, !.closed = closed, !.passed = passed, !.item = items,
                            !.attempt = attempt]
             S == {"item"} \X resuming \X {v}
  <1>1. r \in InvocationRow /\ InvocationFits(r)
    BY DEF DbFits, Tables
  <1>2. PersistPhysicalOutcomes(d, v, seen, out) = Enqueue(e, S, "pending")
    <2>1. PersistPhysicalOutcomes(d, v, seen, out) =
            Enqueue([d EXCEPT !.inv[v] = q, !.closed = closed, !.passed = passed, !.item = items,
                              !.attempt = attempt], S, "pending")
      BY Zenon DEF PersistPhysicalOutcomes
    <2>2. e = [d EXCEPT !.inv[v] = q, !.closed = closed, !.passed = passed, !.item = items,
                        !.attempt = attempt]
      OBVIOUS
    <2> HIDE DEF e, S, q, closed, passed, items, attempt
    <2> QED
      BY <2>1, <2>2
  <1>3. DOMAIN out \subseteq Joined(r) /\ Joined(r) \subseteq Known(d) /\ Known(d) \subseteq Items
    BY DEF DbFits, KnownFit, Known
  <1>4. \A i \in DOMAIN out : next(i) \in Nat
    OBVIOUS
  <1>14. resuming \subseteq DOMAIN out
    BY DEF Resuming, Retried
  <1> HIDE DEF next, resuming
  <1>5. /\ member \in [Items -> {"absent", "pending", "resolved"}] /\ resume \in [Items -> Nat]
    BY <1>1, <1>4 DEF InvocationRow
  <1>21. closed \in [Items -> SUBSET Nat] /\ passed \in [Items -> SUBSET Nat]
    BY DEF DbFits, Tables
  <1>11. items \in [Items -> ItemStatuses]
    BY DEF DbFits, Tables, ItemStatuses, BacklogStatuses
  <1>12. \A k \in Items : items[k] = "absent" <=> d.item[k] = "absent"
    BY <1>3, <1>14 DEF Known
  <1>13. attempt \in [Items -> Nat]
    BY <1>4, <1>14 DEF DbFits, Tables
  <1>23. \A i \in Items : member[i] = "absent" <=> r.member[i] = "absent"
    BY <1>3 DEF Joined
  <1> HIDE DEF member, resume, closed, passed, items, attempt
  <1>22. q \in InvocationRow /\ q.member = member /\ q.size = r.size /\ q.status = "completed"
    BY <1>1, <1>5 DEF InvocationRow
  <1> HIDE DEF q
  <1>6. Joined(q) = Joined(r)
    BY <1>22, <1>23 DEF Joined
  <1>7. InvocationFits(q)
    BY <1>1, <1>6, <1>22 DEF InvocationFits
  <1>8. inv \in [Invocations -> InvocationRow]
    BY <1>22 DEF DbFits, Tables
  <1>9. \A w \in Invocations : InvocationFits(inv[w]) /\ Joined(inv[w]) = Joined(d.inv[w])
    BY <1>6, <1>7 DEF DbFits, Tables
  <1> HIDE DEF r, inv
  <1>15. e \in Tables
    BY <1>8, <1>11, <1>13, <1>21 DEF DbFits, Tables
  <1>16. /\ e.run = d.run /\ e.job = d.job /\ e.inv = inv /\ e.order = d.order /\ e.item = items
         /\ e.failed = d.failed /\ e.ended = d.ended /\ e.written = d.written /\ e.chunk = d.chunk
    BY DEF DbFits, Tables
  <1> HIDE DEF e
  <1>17. Known(e) = Known(d)
    BY <1>12, <1>16 DEF Known
  <1>18. DbFits(e)
    BY <1>9, <1>12, <1>15, <1>16, <1>17 DEF DbFits, JobsFit, OrderFits, KnownFit
  <1>19. Onward(d, e)
    BY <1>9, <1>16, <1>17 DEF Onward, Grows, OwnsJob
  <1>20. resuming \subseteq Known(e)
    BY <1>3, <1>14, <1>17
  <1>24. /\ e.item = [i \in Items |-> IF i \in resuming THEN "pending" ELSE d.item[i]]
         /\ \A x \in DOMAIN d \ {"inv", "closed", "passed", "item", "attempt"} : e[x] = d[x]
    BY <1>16 DEF items, e
  <1>25. PersistPhysicalOutcomes(d, v, seen, out) = Enqueue(e, {"item"} \X resuming \X {v}, "pending")
    BY <1>2
  <1> QED
    BY <1>18, <1>19, <1>20, <1>24, <1>25 DEF resuming, Taken

LEMMA PersistFits ==
    ASSUME NEW d, DbFits(d), NEW v \in Invocations, NEW seen, NEW out,
           DOMAIN out \subseteq Joined(d.inv[v]), \A i \in DOMAIN out : seen[i] \in Nat
    PROVE  /\ DbFits(PersistPhysicalOutcomes(d, v, seen, out))
           /\ Onward(d, PersistPhysicalOutcomes(d, v, seen, out))
  <1> DEFINE S == {"item"} \X Resuming(seen, out) \X {v}
  <1>7. PICK f : Taken(d, v, seen, out, f)
    BY OutcomesTaken
  <1>1. /\ PersistPhysicalOutcomes(d, v, seen, out) = Enqueue(f, S, "pending")
        /\ DbFits(f) /\ Onward(d, f) /\ Resuming(seen, out) \subseteq Known(f)
    BY <1>7, Zenon DEF Taken
  <1>2. \A j \in S \cap JobIds : j[1] = "item" => j[2] \in Known(f)
    BY <1>1
  <1> HIDE DEF S
  <1> QED
    BY <1>1, <1>2, EnqueueFits, OnwardTrans


-----------------------------------------------------------------------------
(* Single columns.                                                         *)

LEMMA SameFits ==
    ASSUME NEW d, DbFits(d), NEW e \in Tables,
           e.run = d.run, e.job = d.job, e.inv = d.inv, e.order = d.order, e.item = d.item,
           e.failed = d.failed, e.ended = d.ended, e.written <= Len(e.chunk)
    PROVE  DbFits(e) /\ Onward(d, e)
  BY DEF DbFits, JobsFit, OrderFits, KnownFit, Known, Onward, Grows, OwnsJob

LEMMA WithRow ==
    ASSUME NEW d, DbFits(d), NEW j \in JobIds, NEW row \in JobRow, JobFits(row),
           row.status = "parked" => d.run = "paused",
           j[1] = "item" /\ row.status # "absent" => j[2] \in Known(d)
    PROVE  /\ DbFits([d EXCEPT !.job[j] = row])
           /\ Grows(d, [d EXCEPT !.job[j] = row])
           /\ [d EXCEPT !.job[j] = row].job[j] = row
           /\ \A k \in JobIds : k # j => [d EXCEPT !.job[j] = row].job[k] = d.job[k]
           /\ \A x \in DOMAIN d \ {"job"} : [d EXCEPT !.job[j] = row][x] = d[x]
  <1> DEFINE f == [d.job EXCEPT ![j] = row]
  <1>1. [d EXCEPT !.job[j] = row] = [d EXCEPT !.job = f]
    OBVIOUS
  <1>2. f \in [JobIds -> JobRow] /\ f[j] = row /\ \A k \in JobIds : k # j => f[k] = d.job[k]
    BY DEF DbFits, Tables
  <1>3. \A k \in JobIds : /\ JobFits(f[k]) /\ (f[k].status = "parked" => d.run = "paused")
                          /\ k[1] = "item" /\ f[k].status # "absent" => k[2] \in Known(d)
    BY <1>2 DEF DbFits, JobsFit, KnownFit
  <1> DEFINE e == [d EXCEPT !.job = f]
  <1> HIDE DEF f
  <1>4. DbFits(e)
    BY <1>2, <1>3, WithJobs
  <1>5. e.job = f /\ \A x \in DOMAIN d \ {"job"} : e[x] = d[x]
    BY DEF DbFits, Tables
  <1>6. e.run = d.run /\ e.inv = d.inv /\ e.item = d.item
    BY DEF DbFits, Tables
  <1> HIDE DEF e
  <1>7. Grows(d, e)
    BY <1>6 DEF Grows, Known
  <1> QED
    BY <1>1, <1>2, <1>4, <1>5, <1>7 DEF e

LEMMA WithItem ==
    ASSUME NEW d, DbFits(d), NEW i \in Known(d), NEW s \in ItemStatuses \ {"absent"}, NEW n \in Nat
    PROVE  /\ DbFits([d EXCEPT !.item[i] = s, !.attempt[i] = n])
           /\ Onward(d, [d EXCEPT !.item[i] = s, !.attempt[i] = n])
           /\ DbFits([d EXCEPT !.item[i] = s])
           /\ Onward(d, [d EXCEPT !.item[i] = s])
  <1> DEFINE items == [d.item EXCEPT ![i] = s]
             attempt == [d.attempt EXCEPT ![i] = n]
  <1>1. i \in Items /\ d.item[i] # "absent"
    BY DEF Known
  <1>2. items \in [Items -> ItemStatuses] /\ attempt \in [Items -> Nat]
    BY DEF DbFits, Tables
  <1>3. \A k \in Items : items[k] = "absent" <=> d.item[k] = "absent"
    BY <1>1 DEF DbFits, Tables
  <1> HIDE DEF items, attempt
  <1>4. ASSUME NEW e \in {[d EXCEPT !.item = items, !.attempt = attempt], [d EXCEPT !.item = items]}
        PROVE  DbFits(e) /\ Onward(d, e)
    <2>1. e \in Tables
      <3>1. d \in Tables
        BY DEF DbFits
      <3>2. CASE e = [d EXCEPT !.item = items]
        BY <1>2, <3>1, <3>2 DEF Tables
      <3>3. CASE e = [d EXCEPT !.item = items, !.attempt = attempt]
        BY <1>2, <3>1, <3>3 DEF Tables
      <3> QED
        BY <3>2, <3>3
    <2>2. /\ e.run = d.run /\ e.job = d.job /\ e.inv = d.inv /\ e.order = d.order /\ e.item = items
          /\ e.failed = d.failed /\ e.ended = d.ended /\ e.written = d.written /\ e.chunk = d.chunk
      BY DEF DbFits, Tables
    <2>3. Known(e) = Known(d)
      BY <1>3, <2>2 DEF Known
    <2>4. DbFits(e)
      BY <1>3, <2>1, <2>2, <2>3 DEF DbFits, JobsFit, OrderFits, KnownFit
    <2> QED
      BY <2>2, <2>3, <2>4 DEF Onward, Grows, OwnsJob
  <1>5. /\ [d EXCEPT !.item[i] = s, !.attempt[i] = n] = [d EXCEPT !.item = items, !.attempt = attempt]
        /\ [d EXCEPT !.item[i] = s] = [d EXCEPT !.item = items]
    BY DEF items, attempt
  <1> QED
    BY <1>4, <1>5

LEMMA WithInvocation ==
    ASSUME NEW d, DbFits(d), NEW v \in Invocations, NEW row \in InvocationRow,
           row.member = d.inv[v].member, row.size = d.inv[v].size,
           row.status # "absent" \/ row.status = d.inv[v].status
    PROVE  /\ DbFits([d EXCEPT !.inv[v] = row])
           /\ Onward(d, [d EXCEPT !.inv[v] = row])
  <1> DEFINE inv == [d.inv EXCEPT ![v] = row]
             e == [d EXCEPT !.inv = inv]
  <1>1. [d EXCEPT !.inv[v] = row] = e
    OBVIOUS
  <1>2. inv \in [Invocations -> InvocationRow]
    BY DEF DbFits, Tables
  <1>3. InvocationFits(row) /\ Joined(row) = Joined(d.inv[v])
    BY DEF DbFits, InvocationFits, Joined
  <1>4. \A w \in Invocations : InvocationFits(inv[w]) /\ Joined(inv[w]) = Joined(d.inv[w])
    BY <1>3 DEF DbFits, Tables
  <1> HIDE DEF inv
  <1>5. e \in Tables
    BY <1>2 DEF DbFits, Tables
  <1>6. /\ e.run = d.run /\ e.job = d.job /\ e.inv = inv /\ e.order = d.order /\ e.item = d.item
        /\ e.failed = d.failed /\ e.ended = d.ended /\ e.written = d.written /\ e.chunk = d.chunk
    BY DEF DbFits, Tables
  <1> HIDE DEF e
  <1>7. DbFits(e)
    BY <1>4, <1>5, <1>6 DEF DbFits, JobsFit, OrderFits, KnownFit, Known
  <1>8. Onward(d, e)
    BY <1>4, <1>6 DEF Onward, Grows, OwnsJob, Known
  <1> QED
    BY <1>1, <1>7, <1>8

LEMMA WithChunk ==
    ASSUME NEW d, DbFits(d), NEW c, NEW s \in {"pending", "running", "completed", "failed"},
           NEW q \in Seq(Chunks), NEW n \in Nat, n <= Len(d.chunk)
    PROVE  /\ DbFits([d EXCEPT !.chunk[c].status = s]) /\ Onward(d, [d EXCEPT !.chunk[c].status = s])
           /\ DbFits([d EXCEPT !.chunk[c].status = s, !.written = n, !.state = q])
           /\ Onward(d, [d EXCEPT !.chunk[c].status = s, !.written = n, !.state = q])
  <1> DEFINE chunk == [d.chunk EXCEPT ![c].status = s]
  <1>1. d.chunk \in Seq(ChunkRow)
    BY DEF DbFits, Tables
  <1>2. chunk \in Seq(ChunkRow)
    <2>1. \A k \in 1..Len(d.chunk) : chunk[k] \in ChunkRow
      <3> SUFFICES ASSUME NEW k \in 1..Len(d.chunk)
                   PROVE  chunk[k] \in ChunkRow
        OBVIOUS
      <3>1. d.chunk[k] \in ChunkRow /\ k \in DOMAIN d.chunk
        BY <1>1
      <3>2. [d.chunk[k] EXCEPT !.status = s] \in ChunkRow
        BY <3>1 DEF ChunkRow
      <3>3. chunk[k] = IF k = c THEN [d.chunk[k] EXCEPT !.status = s] ELSE d.chunk[k]
        BY <3>1
      <3> QED
        BY <3>1, <3>2, <3>3
    <2>2. DOMAIN chunk = 1..Len(d.chunk) /\ Len(d.chunk) \in Nat
      BY <1>1
    <2>3. chunk = [k \in 1..Len(d.chunk) |-> chunk[k]]
      BY <2>2
    <2> HIDE DEF chunk
    <2>4. chunk \in [1..Len(d.chunk) -> ChunkRow]
      BY <2>1, <2>3
    <2> QED
      BY <2>2, <2>4, SeqDef
  <1>5. Len(chunk) = Len(d.chunk) /\ d.written <= Len(d.chunk) /\ d.written \in Nat
    <2>1. DOMAIN chunk = 1..Len(d.chunk) /\ Len(d.chunk) \in Nat
      BY <1>1
    <2>2. d.written <= Len(d.chunk) /\ d.written \in Nat
      BY DEF DbFits, Tables
    <2> HIDE DEF chunk
    <2> QED
      BY <1>2, <2>1, <2>2
  <1> HIDE DEF chunk
  <1>3. ASSUME NEW e \in {[d EXCEPT !.chunk = chunk, !.written = n, !.state = q], [d EXCEPT !.chunk = chunk]}
        PROVE  DbFits(e) /\ Onward(d, e)
    <2>1. e \in Tables
      <3>1. d \in Tables
        BY DEF DbFits
      <3>2. CASE e = [d EXCEPT !.chunk = chunk]
        BY <1>2, <3>1, <3>2 DEF Tables
      <3>3. CASE e = [d EXCEPT !.chunk = chunk, !.written = n, !.state = q]
        BY <1>2, <3>1, <3>3 DEF Tables
      <3> QED
        BY <3>2, <3>3
    <2>2. /\ e.run = d.run /\ e.job = d.job /\ e.inv = d.inv /\ e.order = d.order /\ e.item = d.item
          /\ e.failed = d.failed /\ e.ended = d.ended /\ e.written \in {n, d.written} /\ e.chunk = chunk
      BY DEF DbFits, Tables
    <2>3. e.written <= Len(e.chunk)
      BY <1>5, <2>2
    <2> QED
      BY <2>1, <2>2, <2>3, SameFits
  <1>4. /\ [d EXCEPT !.chunk[c].status = s] = [d EXCEPT !.chunk = chunk]
        /\ [d EXCEPT !.chunk[c].status = s, !.written = n, !.state = q]
                = [d EXCEPT !.chunk = chunk, !.written = n, !.state = q]
    BY DEF chunk
  <1> QED
    BY <1>3, <1>4

LEMMA ClaimedFits ==
    ASSUME DbFits(db), NEW h \in Handlers, NEW j \in JobIds, Claimable(h, j)
    PROVE  /\ DbFits(Claimed(h, j)) /\ Onward(db, Claimed(h, j))
           /\ OwnsJob(Claimed(h, j), h, j)
           /\ \A g \in Handlers : ~OwnsJob(db, g, j)
           /\ \A x \in DOMAIN db \ {"job"} : Claimed(h, j)[x] = db[x]
           /\ \A k \in JobIds : k # j => Claimed(h, j).job[k] = db.job[k]
           /\ Claimed(h, j).job[j].status = "running" /\ db.job[j].status \in {"pending", "parked", "later"}
           /\ j[1] = "item" => j[2] \in Known(db)
  <1> DEFINE row == [status |-> "running", holder |-> h, attempt |-> db.job[j].attempt + 1]
  <1>1. db.job[j] \in JobRow /\ db.job[j].status \in {"pending", "parked", "later"}
    BY DEF DbFits, Tables, Claimable
  <1>2. db.job[j].attempt < MaxAttempts
    BY <1>1 DEF DbFits, JobsFit, JobFits
  <1>3. row \in JobRow /\ JobFits(row)
    <2>1. db.job[j].attempt \in 0..MaxAttempts /\ MaxAttempts \in Nat
      BY <1>1, BatchAssumption DEF JobRow
    <2>2. db.job[j].attempt + 1 \in 0..MaxAttempts /\ db.job[j].attempt + 1 > 0
      BY <1>2, <2>1
    <2> QED
      BY <2>2 DEF JobRow, JobFits, LiveStatuses
  <1>4. j[1] = "item" => j[2] \in Known(db)
    BY <1>1 DEF DbFits, KnownFit
  <1>5. Claimed(h, j) = [db EXCEPT !.job[j] = row]
    BY DEF Claimed
  <1>6. \A g \in Handlers : ~OwnsJob(db, g, j)
    BY <1>1 DEF OwnsJob
  <1>7. row.status = "running" /\ row.holder = h
    OBVIOUS
  <1> HIDE DEF row
  <1> DEFINE e == [db EXCEPT !.job[j] = row]
  <1>8. /\ DbFits(e) /\ Grows(db, e) /\ e.job[j] = row
        /\ \A k \in JobIds : k # j => e.job[k] = db.job[k]
        /\ \A x \in DOMAIN db \ {"job"} : e[x] = db[x]
    <2> row.status # "parked"
      BY <1>7
    <2> QED
      BY <1>3, <1>4, WithRow
  <1> HIDE DEF e
  <1>9. Onward(db, e) /\ OwnsJob(e, h, j)
    BY <1>6, <1>7, <1>8 DEF Onward, OwnsJob
  <1> QED
    BY <1>1, <1>4, <1>5, <1>6, <1>7, <1>8, <1>9 DEF e

-----------------------------------------------------------------------------
(* Steps of a handler.                                                     *)

LEMMA FitsOn ==
    ASSUME NEW r, NEW d, NEW e, HandlerFits(r, d), Grows(d, e)
    PROVE  HandlerFits(r, e)
  <1>1. r.pc # "idle" /\ r.job[1] = "physical" => r.job[2] \in Invocations
    BY JobParts DEF HandlerFits
  <1>2. r.pc \in {"mark", "invoke", "commit"} => r.pc # "idle"
    OBVIOUS
  <1>3. r.pc \in {"mark", "invoke", "commit"} /\ r.job[1] = "physical" => Members(r, e)
    BY <1>1, <1>2 DEF HandlerFits, Members, Grows
  <1>4. Known(d) \subseteq Known(e)
    BY DEF Grows
  <1> QED
    BY <1>3, <1>4 DEF HandlerFits

(* A step of h that leaves the leases of the others.                       *)
LEMMA HandlerSteps ==
    ASSUME HandlersFit, Remembers, Grows(db, db'), NEW h \in Handlers, NEW r,
           handler' = [handler EXCEPT ![h] = r], HandlerFits(r, db'),
           r.pc # "idle" => ~Timely' \/ OwnsJob(db', h, r.job) \/ db'.run \in Over,
           \A g \in Handlers \ {h} : OwnsJob(db, g, handler[g].job) /\ ~At(g, "idle")
                => ~Timely' \/ OwnsJob(db', g, handler[g].job) \/ db'.run \in Over,
           \A g \in Handlers \ {h} :
                Timely' /\ r.pc \in Work /\ handler[g].pc \in Work => handler[g].job # r.job
    PROVE  HandlersFit'
  <1>1. /\ handler'[h] = r
        /\ \A g \in Handlers \ {h} : handler'[g] = handler[g]
        /\ handler' = [g \in Handlers |-> handler'[g]]
    BY DEF HandlersFit
  <1>2. ASSUME NEW g \in Handlers
        PROVE  HandlerFits(handler'[g], db') /\ Held(g)'
    <2>1. CASE g = h
      BY <1>1, <2>1 DEF Held, At
    <2>2. CASE g # h
      <3>1. HandlerFits(handler[g], db) /\ Held(g) /\ handler'[g] = handler[g]
        BY <1>1, <2>2 DEF HandlersFit
      <3>2. HandlerFits(handler'[g], db')
        BY <3>1, FitsOn
      <3>3. db.run \in Over => db'.run \in Over
        BY DEF Grows
      <3> QED
        BY <2>2, <3>1, <3>2, <3>3 DEF Held, At, Remembers
    <2> QED
      BY <2>1, <2>2
  <1>3. ASSUME NEW f \in Handlers, NEW g \in Handlers
        PROVE  Apart(f, g)'
    <2>1. Apart(f, g)
      BY DEF HandlersFit
    <2> QED
      BY <1>1, <2>1 DEF Apart, Remembers
  <1> QED
    BY <1>1, <1>2, <1>3 DEF HandlersFit

(* A step that is none of a handler's.                                     *)
LEMMA OtherSteps ==
    ASSUME HandlersFit, Remembers, Grows(db, db'), handler' = handler,
           \A g \in Handlers : OwnsJob(db, g, handler[g].job) /\ ~At(g, "idle")
                => ~Timely' \/ OwnsJob(db', g, handler[g].job) \/ db'.run \in Over
    PROVE  HandlersFit'
  <1>1. ASSUME NEW g \in Handlers
        PROVE  HandlerFits(handler'[g], db') /\ Held(g)'
    <2>1. HandlerFits(handler[g], db) /\ Held(g)
      BY DEF HandlersFit
    <2>2. HandlerFits(handler'[g], db')
      BY <2>1, FitsOn
    <2>3. db.run \in Over => db'.run \in Over
      BY DEF Grows
    <2> QED
      BY <2>1, <2>2, <2>3 DEF Held, At, Remembers
  <1> QED
    BY <1>1 DEF HandlersFit, Apart, Remembers

(* A handler that goes on with its job.                                    *)
LEMMA GoesOn ==
    ASSUME HandlersFit, Remembers, Onward(db, db'), NEW h \in Handlers, NEW r,
           handler' = [handler EXCEPT ![h] = r], HandlerFits(r, db'),
           handler[h].pc \in Work, r.job = handler[h].job
    PROVE  HandlersFit'
  <1>1. Grows(db, db')
    BY DEF Onward
  <1>2. \A g \in Handlers : handler[g].pc \in Work => handler[g].job \in JobIds /\ ~At(g, "idle")
    BY DEF HandlersFit, HandlerFits, Work, At
  <1>3. Held(h) /\ handler[h].job \in JobIds /\ ~At(h, "idle")
    BY <1>2 DEF HandlersFit
  <1>4. ~Timely' \/ OwnsJob(db', h, r.job) \/ db'.run \in Over
    BY <1>1, <1>3 DEF Held, Onward, Grows, Remembers
  <1>5. ASSUME NEW g \in Handlers \ {h}, OwnsJob(db, g, handler[g].job), ~At(g, "idle")
        PROVE  OwnsJob(db', g, handler[g].job) \/ db'.run \in Over
    <2>1. handler[g].job \in JobIds
      BY <1>5 DEF HandlersFit, HandlerFits, At
    <2> QED
      BY <1>5, <2>1 DEF Onward
  <1>6. \A g \in Handlers \ {h} :
            Timely' /\ r.pc \in Work /\ handler[g].pc \in Work => handler[g].job # r.job
    BY DEF HandlersFit, Apart, Remembers
  <1> QED
    BY <1>1, <1>4, <1>5, <1>6, HandlerSteps

(* A handler that has read nothing.                                        *)
LEMMA EnterRow ==
    ASSUME NEW h, NEW j, NEW pc
    PROVE  /\ HandlerRow(Enter(h, j, pc)) /\ Enter(h, j, pc).pc = pc /\ Enter(h, j, pc).job = j
           /\ Enter(h, j, pc).items = <<>> /\ Enter(h, j, pc).state = <<>>
           /\ Enter(h, j, pc).out = "none" /\ Enter(h, j, pc).left = {}
  <1> DEFINE r == Enter(h, j, pc)
  <1>1. PICK n : n = db.job[j].attempt + 1
    OBVIOUS
  <1>2. r = [Idle EXCEPT !.pc = pc, !.job = j, !.attempt = n]
    BY <1>1 DEF Enter
  <1> HIDE DEF r
  <1>3. /\ HandlerRow(r) /\ r.pc = pc /\ r.job = j
        /\ r.items = <<>> /\ r.state = <<>> /\ r.out = "none" /\ r.left = {}
    BY <1>2 DEF HandlerRow, Idle, Columns
  <1> QED
    BY <1>3 DEF r

LEMMA RowFits ==
    ASSUME NEW d, NEW j \in JobIds, j[1] = "item" => j[2] \in Known(d),
           NEW r, HandlerRow(r), r.pc \in Leave, r.job = j
    PROVE  HandlerFits(r, d)
  BY DEF HandlerFits, Reads, Members, Leave, Work, Settling

LEMMA LeftFits ==
    ASSUME NEW d, NEW h, NEW j \in JobIds, j[1] = "item" => j[2] \in Known(d), NEW pc \in Leave
    PROVE  HandlerFits(Enter(h, j, pc), d)
  <1>1. HandlerRow(Enter(h, j, pc)) /\ Enter(h, j, pc).pc = pc /\ Enter(h, j, pc).job = j
    BY EnterRow
  <1> QED
    BY <1>1, RowFits

(* A handler that leaves its job, which the worker settles next.           *)
LEMMA Leaves ==
    ASSUME DbFits(db), HandlersFit, Remembers, Onward(db, db'), NEW h \in Handlers,
           handler[h].pc \in Work, NEW pc \in Leave, Goto(h, pc)
    PROVE  HandlersFit'
  <1>1. PICK r : r = [Idle EXCEPT !.pc = pc, !.job = handler[h].job]
    OBVIOUS
  <1>2. handler' = [handler EXCEPT ![h] = r]
    BY <1>1, Zenon DEF Goto, Leave
  <1>3. HandlerFits(handler[h], db) /\ handler[h].pc # "idle"
    BY DEF HandlersFit, Work
  <1>4. HandlerRow(r) /\ r.pc = pc /\ r.job = handler[h].job
    BY <1>1 DEF HandlerRow, Idle, Columns
  <1>5. HandlerFits(r, db)
    BY <1>3, <1>4, RowFits DEF HandlerFits
  <1>6. HandlerFits(r, db')
    BY <1>5, FitsOn DEF Onward
  <1> QED
    BY <1>2, <1>4, <1>6, GoesOn

(* A handler that goes on at pc with what it has read.                     *)
LEMMA Advances ==
    ASSUME HandlersFit, Remembers, Onward(db, db'), NEW h \in Handlers, handler[h].pc \in Work,
           NEW pc \in Work, Goto(h, pc), HandlerFits([handler[h] EXCEPT !.pc = pc], db')
    PROVE  HandlersFit'
  <1> DEFINE r == [handler[h] EXCEPT !.pc = pc]
  <1>1. handler' = [handler EXCEPT ![h] = r]
    BY DEF Goto, Work
  <1>2. r.job = handler[h].job
    BY DEF HandlersFit, HandlerFits, HandlerRow, Columns
  <1> HIDE DEF r
  <1> QED
    BY <1>1, <1>2, GoesOn DEF r

(* A handler that takes up a job.                                          *)
LEMMA Takes ==
    ASSUME DbFits(db), HandlersFit, Remembers, NEW h \in Handlers, NEW j \in JobIds, Claimable(h, j),
           Onward(Claimed(h, j), db'), NEW r, handler' = [handler EXCEPT ![h] = r],
           HandlerFits(r, db'), r.job = j, r.pc \in Leave \/ db.run = "active"
    PROVE  HandlersFit'
  <1>1. /\ Onward(db, Claimed(h, j)) /\ OwnsJob(Claimed(h, j), h, j)
        /\ \A g \in Handlers : ~OwnsJob(db, g, j)
    BY ClaimedFits
  <1>2. Onward(db, db')
    BY <1>1, OnwardTrans
  <1>3. OwnsJob(db', h, r.job) \/ db'.run \in Over
    BY <1>1 DEF Onward
  <1>4. \A g \in Handlers : ~At(g, "idle") => handler[g].job \in JobIds
    BY DEF HandlersFit, HandlerFits, At
  <1>5. \A g \in Handlers : OwnsJob(db, g, handler[g].job) /\ ~At(g, "idle")
                                => OwnsJob(db', g, handler[g].job) \/ db'.run \in Over
    BY <1>2, <1>4 DEF Onward
  <1>6. \A g \in Handlers \ {h} :
            Timely' /\ r.pc \in Work /\ handler[g].pc \in Work => handler[g].job # r.job
    <2> SUFFICES ASSUME NEW g \in Handlers \ {h}, Timely', r.pc \in Work, handler[g].pc \in Work,
                        handler[g].job = j
                 PROVE  FALSE
      OBVIOUS
    <2>1. Held(g) /\ ~At(g, "idle")
      BY DEF HandlersFit, At, Work
    <2>2. db.run = "active"
      BY DEF Work, Leave
    <2> QED
      BY <1>1, <2>1, <2>2 DEF Held, Over, Remembers
  <1> QED
    BY <1>2, <1>3, <1>5, <1>6, HandlerSteps DEF Onward

(* A handler that ends its job: other jobs keep their holder.              *)
LEMMA Settles ==
    ASSUME DbFits(db), HandlersFit, Remembers, NEW h \in Handlers, handler[h].pc \in Leave,
           NEW d, DbFits(d), Onward(db, d), NEW row,
           OwnsJob(db, h, handler[h].job) => /\ row \in JobRow /\ JobFits(row)
                                             /\ row.status = "parked" => d.run = "paused",
           Settle(h, d, row)
    PROVE  DbFits(db') /\ HandlersFit' /\ UNCHANGED used
  <1> DEFINE j == handler[h].job
             e == [d EXCEPT !.job[j] = row]
             r == Idle
  <1>1. HandlerFits(handler[h], db) /\ j \in JobIds /\ ~At(h, "idle")
    BY DEF HandlersFit, HandlerFits, Leave, At
  <1>2. j[1] = "item" => j[2] \in Known(d)
    BY <1>1 DEF HandlerFits, At, Onward, Grows
  <1>3. /\ db' = IF OwnsJob(db, h, j) THEN e ELSE d
        /\ handler' = [handler EXCEPT ![h] = r] /\ UNCHANGED used
    BY DEF Settle
  <1>4. HandlerFits(r, db')
    BY DEF HandlerFits, HandlerRow, Columns, Idle, Reads, Members, Leave, Work, Settling
  <1>5. r.pc = "idle"
    BY DEF Idle
  <1>6. \A g \in Handlers : ~At(g, "idle") => handler[g].job \in JobIds
    BY DEF HandlersFit, HandlerFits, At
  <1> HIDE DEF j, e, r
  <1>7. CASE OwnsJob(db, h, j)
    <2>1. /\ DbFits(e) /\ Grows(d, e) /\ \A k \in JobIds : k # j => e.job[k] = d.job[k]
          /\ \A x \in DOMAIN d \ {"job"} : e[x] = d[x]
      BY <1>1, <1>2, <1>7, WithRow DEF e, j
    <2>2. db' = e /\ e.run = d.run
      BY <1>3, <1>7, <2>1 DEF DbFits, Tables
    <2>3. Grows(db, db')
      BY <2>1, <2>2 DEF Onward, Grows
    <2>4. ASSUME NEW g \in Handlers \ {h}, OwnsJob(db, g, handler[g].job), ~At(g, "idle")
          PROVE  OwnsJob(db', g, handler[g].job) \/ db'.run \in Over
      <3>1. handler[g].job # j
        BY <1>7, <2>4 DEF OwnsJob
      <3> QED
        BY <1>6, <2>1, <2>2, <2>4, <3>1 DEF Onward, OwnsJob
    <2> QED
      BY <1>3, <1>4, <1>5, <2>1, <2>2, <2>3, <2>4, HandlerSteps DEF Work
  <1>8. CASE ~OwnsJob(db, h, j)
    <2>1. db' = d
      BY <1>3, <1>8
    <2>2. \A g \in Handlers : OwnsJob(db, g, handler[g].job) /\ ~At(g, "idle")
                => OwnsJob(db', g, handler[g].job) \/ db'.run \in Over
      BY <1>6, <2>1 DEF Onward
    <2>3. \A g \in Handlers \ {h} : r.pc \notin Work
      BY <1>5 DEF Work
    <2> QED
      BY <1>3, <1>4, <1>5, <2>1, <2>2, <2>3, HandlerSteps DEF Onward
  <1> QED
    BY <1>7, <1>8

-----------------------------------------------------------------------------
(* The actions keep the first layer.                                       *)

LEMMA LoadsOnward ==
    ASSUME Inv1, Remembers, NEW h \in Handlers, NEW j \in JobIds, Claimable(h, j), NEW d, DbFits(d),
           Onward(Claimed(h, j), d), db' = d, NEW r, handler' = [handler EXCEPT ![h] = r],
           HandlerFits(r, d), r.job = j, r.pc \in Leave \/ db.run = "active"
    PROVE  Inv1'
  <1>1. HandlersFit'
    BY Takes DEF Inv1
  <1> QED
    BY <1>1 DEF Inv1

LEMMA TakeLoadContext ==
    ASSUME Inv1, Remembers, NEW h \in Handlers, NEW j \in JobIds, LoadContext(h, j)
    PROVE  Inv1'
  <1>1. /\ Claimable(h, j) /\ db' = Claimed(h, j)
        /\ handler' = [handler EXCEPT ![h] = Enter(h, j, IF db.run = "paused" THEN "park" ELSE "return")]
    BY DEF LoadContext
  <1> DEFINE pc == IF db.run = "paused" THEN "park" ELSE "return"
             r == Enter(h, j, pc)
  <1>2. Enter(h, j, pc) = r
    OBVIOUS
  <1>3. DbFits(Claimed(h, j)) /\ (j[1] = "item" => j[2] \in Known(db)) /\ Onward(db, Claimed(h, j))
    BY <1>1, ClaimedFits DEF Inv1
  <1>4. pc \in Leave
    BY DEF Leave
  <1>5. r.job = j /\ r.pc = pc
    BY EnterRow
  <1>6. HandlerFits(r, Claimed(h, j))
    <2> j[1] = "item" => j[2] \in Known(Claimed(h, j))
      BY <1>3 DEF Onward, Grows
    <2> QED
      BY <1>4, LeftFits
  <1>7. Onward(Claimed(h, j), Claimed(h, j))
    BY OnwardRefl
  <1> HIDE DEF r, pc
  <1> QED
    BY <1>1, <1>2, <1>3, <1>4, <1>5, <1>6, <1>7, LoadsOnward DEF pc

LEMMA TakeSource ==
    ASSUME Inv1, Remembers, NEW h \in Handlers, NEW j \in JobIds, BeginSource(h, j)
    PROVE  Inv1'
  <1>1. /\ j[1] = "source" /\ Claimable(h, j) /\ db.run = "active"
        /\ db' = Claimed(h, j)
    BY DEF BeginSource, Loads
  <1> DEFINE pc == IF j[2] = 1 THEN "begin" ELSE "invoke"
             c == IF j[2] = 1 THEN 0 ELSE db.cursor
             q == Enter(h, j, pc)
             r == [q EXCEPT !.cursor = c]
  <1>2. handler' = [handler EXCEPT ![h] = r]
    BY Zenon DEF BeginSource
  <1>3. DbFits(Claimed(h, j)) /\ Onward(db, Claimed(h, j))
    BY <1>1, ClaimedFits DEF Inv1
  <1>4. c \in 0..Len(Pages)
    <2>1. db.cursor \in 0..Len(Pages) /\ Len(Pages) \in Nat
      BY BatchAssumption DEF Inv1, DbFits, Tables
    <2> QED
      BY <2>1
  <1>5. HandlerFits(r, Claimed(h, j))
    <2>1. HandlerRow(q) /\ q.pc = pc /\ q.job = j
      BY EnterRow
    <2> HIDE DEF c, q
    <2>2. HandlerRow(r) /\ r.pc = pc /\ r.job = j /\ r.cursor = c
      BY <2>1 DEF HandlerRow, Columns
    <2> HIDE DEF r
    <2> QED
      BY <1>1, <1>4, <2>2 DEF HandlerFits, Reads, Members, Leave, Work, Settling
  <1>6. r.job = j
    BY EnterRow DEF HandlerRow, Columns
  <1>7. Onward(Claimed(h, j), Claimed(h, j))
    BY OnwardRefl
  <1> HIDE DEF r
  <1> QED
    BY <1>1, <1>2, <1>3, <1>5, <1>6, <1>7, LoadsOnward

LEMMA AttemptFits ==
    ASSUME DbFits(db), NEW j \in JobIds, j[1] = "item"
    PROVE  ItemAttempt(j) \in Nat
  <1>1. j[2] \in Items /\ j[3] \in 0..MaxInvocations /\ MaxInvocations \in Nat
    BY JobParts, BatchAssumption
  <1>2. db.attempt[j[2]] \in Nat
    BY <1>1 DEF DbFits, Tables
  <1>3. ASSUME j[3] # 0
        PROVE  db.inv[j[3]].resume[j[2]] \in Nat
    <2>1. j[3] \in Invocations
      BY <1>1, <1>3 DEF Invocations
    <2>2. db.inv[j[3]] \in InvocationRow
      BY <2>1 DEF DbFits, Tables
    <2> QED
      BY <1>1, <2>2 DEF InvocationRow
  <1> QED
    BY <1>2, <1>3 DEF ItemAttempt

LEMMA TakeItem ==
    ASSUME Inv1, Remembers, NEW h \in Handlers, NEW j \in JobIds, BeginItem(h, j)
    PROVE  Inv1'
  <1> DEFINE i == j[2]
             n == ItemAttempt(j)
             runs == Open(db, i)
             c == Claimed(h, j)
             e == IF runs THEN [c EXCEPT !.item[i] = "running", !.attempt[i] = n] ELSE c
             o == IF i \in Physical /\ db.passed[i] = {} THEN "suspended" ELSE "none"
             q == Enter(h, j, "invoke")
             r == IF runs THEN [q EXCEPT !.cursor = n, !.out = o] ELSE Enter(h, j, "return")
  <1>1. j[1] = "item" /\ Claimable(h, j) /\ db.run = "active"
    BY DEF BeginItem, Loads
  <1>2. /\ DbFits(c) /\ Onward(db, c) /\ i \in Known(db)
        /\ \A x \in DOMAIN db \ {"job"} : c[x] = db[x]
    BY <1>1, ClaimedFits DEF Inv1
  <1>3. db' = e
    BY Zenon DEF BeginItem
  <1>4. i \in Known(c) /\ "running" \in ItemStatuses \ {"absent"} /\ n \in Nat
    BY <1>1, <1>2, AttemptFits DEF Onward, Grows, ItemStatuses, BacklogStatuses, Inv1
  <1>5. DbFits(e) /\ Onward(c, e)
    <2> HIDE DEF c, n, runs
    <2> QED
      BY <1>2, <1>4, WithItem, OnwardRefl
  <1>6. handler' = [handler EXCEPT ![h] = r]
    <2>1. handler' = [handler EXCEPT ![h] = IF ~runs THEN Enter(h, j, "return")
                                            ELSE [q EXCEPT !.cursor = n, !.out = o]]
      BY Zenon DEF BeginItem
    <2> HIDE DEF runs, q, n, o
    <2> QED
      BY <2>1
  <1>7. i \in Known(e)
    BY <1>4, <1>5 DEF Onward, Grows
  <1>8. HandlerFits(r, e)
    <2>1. CASE runs
      <3>1. HandlerRow(q) /\ q.pc = "invoke" /\ q.job = j
        BY EnterRow
      <3>2. r = [q EXCEPT !.cursor = n, !.out = o]
        BY <2>1
      <3> HIDE DEF q, o, r, e, n
      <3>3. HandlerRow(r) /\ r.pc = "invoke" /\ r.job = j /\ r.cursor = n
        BY <3>1, <3>2 DEF HandlerRow, Columns
      <3> QED
        BY <1>1, <1>4, <1>7, <3>3 DEF HandlerFits, Reads, Members, Work, Settling
    <2>2. CASE ~runs
      <3>1. r = Enter(h, j, "return")
        BY <2>2
      <3> HIDE DEF r, e
      <3> QED
        BY <1>7, <3>1, LeftFits DEF Leave
    <2> QED
      BY <2>1, <2>2
  <1>9. r.job = j
    <2>1. HandlerRow(q) /\ q.job = j
      BY EnterRow
    <2> HIDE DEF q, o, n, runs
    <2> QED
      BY <2>1, EnterRow DEF HandlerRow, Columns
  <1> HIDE DEF r, e, c
  <1> QED
    BY <1>1, <1>2, <1>3, <1>5, <1>6, <1>8, <1>9, LoadsOnward DEF c


LEMMA TakeMembers ==
    ASSUME Inv1, Remembers, NEW h \in Handlers, NEW j \in JobIds, ReadMembers(h, j)
    PROVE  Inv1'
  <1> DEFINE inv == db.inv[j[2]]
             members == {i \in Items : inv.member[i] = "pending"}
             none == inv.status \in {"completed", "canceled"} \/ members = {}
             its == [i \in members |-> db.attempt[i]]
             q == Enter(h, j, "mark")
             r == IF none THEN Enter(h, j, "return") ELSE [q EXCEPT !.items = its]
             c == Claimed(h, j)
  <1>1. /\ j[1] = "physical" /\ Claimable(h, j) /\ db.run = "active"
        /\ db' = c
    BY DEF ReadMembers, Loads
  <1>2. handler' = [handler EXCEPT ![h] = r]
    BY Zenon DEF ReadMembers
  <1>3. DbFits(c) /\ Onward(db, c) /\ j[2] \in Invocations
    BY <1>1, ClaimedFits, JobParts DEF Inv1
  <1>4. HandlerFits(r, c)
    <2>1. CASE none
      <3>1. r = Enter(h, j, "return")
        BY <2>1
      <3> HIDE DEF r, c
      <3> QED
        BY <1>1, <3>1, LeftFits DEF Leave
    <2>2. CASE ~none
      <3>1. /\ DOMAIN its \subseteq Joined(c.inv[j[2]])
            /\ \A i \in DOMAIN its : its[i] \in Nat
        <4>1. Joined(db.inv[j[2]]) \subseteq Joined(c.inv[j[2]])
          BY <1>3 DEF Onward, Grows
        <4>2. members \subseteq Joined(db.inv[j[2]]) /\ members \subseteq Items
          BY DEF Joined
        <4>3. \A i \in Items : db.attempt[i] \in Nat
          BY DEF Inv1, DbFits, Tables
        <4> HIDE DEF members
        <4> QED
          BY <4>1, <4>2, <4>3
      <3>2. HandlerRow(q) /\ q.pc = "mark" /\ q.job = j
        BY EnterRow
      <3>3. r = [q EXCEPT !.items = its]
        BY <2>2
      <3> HIDE DEF q, its, r, c
      <3>4. HandlerRow(r) /\ r.pc = "mark" /\ r.job = j /\ r.items = its
        BY <3>2, <3>3 DEF HandlerRow, Columns
      <3> QED
        BY <1>1, <3>1, <3>4 DEF HandlerFits, Reads, Members, Work, Settling
    <2> QED
      BY <2>1, <2>2
  <1>5. r.job = j
    BY EnterRow DEF HandlerRow, Columns
  <1>6. Onward(c, c)
    BY OnwardRefl
  <1> HIDE DEF r, c
  <1> QED
    BY <1>1, <1>2, <1>3, <1>4, <1>5, <1>6, LoadsOnward DEF c

(* What a handler of a sink job needs to have read.                        *)
LEMMA SinkReads ==
    ASSUME NEW d, NEW j \in JobIds, j \in SinkJobs, NEW r, HandlerRow(r), r.job = j,
           r.pc \in {"invoke", "commit"} \/ (r.pc = "mark" /\ j[1] = "write"),
           j[1] \in {"write", "finalize"} => r.state \in Seq(Chunks)
    PROVE  HandlerFits(r, d)
  <1>1. j[1] \in {"start", "write", "finalize"}
    BY JobParts
  <1> QED
    BY <1>1 DEF HandlerFits, Reads, Members, Work, Settling

LEMMA TakeStart ==
    ASSUME Inv1, Remembers, NEW h \in Handlers, NEW j \in JobIds, BeginStart(h, j)
    PROVE  Inv1'
  <1> DEFINE c == Claimed(h, j)
             started == Len(db.chunk) > 0
             pc == IF started THEN "return" ELSE "invoke"
             e == IF started THEN EnqueueNextSinkWork(c) ELSE c
  <1>1. /\ j[1] = "start" /\ Claimable(h, j) /\ db.run = "active"
        /\ db' = e /\ handler' = [handler EXCEPT ![h] = Enter(h, j, pc)]
    BY Zenon DEF BeginStart, Loads
  <1>2. DbFits(c)
    BY <1>1, ClaimedFits DEF Inv1
  <1>3. DbFits(e) /\ Onward(c, e)
    <2> HIDE DEF c
    <2> QED
      BY <1>2, NextSinkFits, OnwardRefl
  <1>4. HandlerFits(Enter(h, j, pc), e)
    <2>1. CASE started
      BY <1>1, <2>1, LeftFits DEF Leave
    <2>2. CASE ~started
      <3>1. pc = "invoke" /\ j \in SinkJobs
        BY <1>1, <2>2, JobParts
      <3> HIDE DEF pc, e
      <3> QED
        BY <1>1, <3>1, EnterRow, SinkReads
    <2> QED
      BY <2>1, <2>2
  <1>5. Enter(h, j, pc).job = j
    BY EnterRow
  <1> HIDE DEF c, pc, e
  <1> QED
    BY <1>1, <1>3, <1>4, <1>5, LoadsOnward DEF c

LEMMA TakeChunk ==
    ASSUME Inv1, Remembers, NEW h \in Handlers, NEW j \in JobIds, BeginChunk(h, j)
    PROVE  Inv1'
  <1> DEFINE c == Claimed(h, j)
             written == db.chunk[j[2]].status = "completed"
             e == IF written THEN EnqueueNextSinkWork(c) ELSE c
             q == Enter(h, j, "mark")
             r == IF written THEN Enter(h, j, "return") ELSE [q EXCEPT !.state = db.state]
  <1>1. /\ j[1] = "write" /\ Claimable(h, j) /\ db.run = "active"
        /\ db' = e /\ handler' = [handler EXCEPT ![h] = r]
    BY Zenon DEF BeginChunk, Loads
  <1>2. DbFits(c)
    BY <1>1, ClaimedFits DEF Inv1
  <1>3. DbFits(e) /\ Onward(c, e)
    <2> HIDE DEF c
    <2> QED
      BY <1>2, NextSinkFits, OnwardRefl
  <1>4. HandlerFits(r, e)
    <2>1. CASE written
      <3>1. r = Enter(h, j, "return")
        BY <2>1
      <3> HIDE DEF r, e
      <3> QED
        BY <1>1, <3>1, LeftFits DEF Leave
    <2>2. CASE ~written
      <3>1. HandlerRow(q) /\ q.pc = "mark" /\ q.job = j
        BY EnterRow
      <3>2. db.state \in Seq(Chunks) /\ j \in SinkJobs
        BY <1>1, JobParts DEF Inv1, DbFits, Tables
      <3>3. r = [q EXCEPT !.state = db.state]
        BY <2>2
      <3> HIDE DEF q, r, e
      <3>4. HandlerRow(r) /\ r.pc = "mark" /\ r.job = j /\ r.state = db.state
        BY <3>1, <3>3 DEF HandlerRow, Columns
      <3> QED
        BY <1>1, <3>2, <3>4, SinkReads
    <2> QED
      BY <2>1, <2>2
  <1>5. r.job = j
    BY EnterRow DEF HandlerRow, Columns
  <1>6. r.pc \in Leave \/ db.run = "active"
    BY <1>1
  <1> HIDE DEF c, r, e
  <1> QED
    BY <1>1, <1>3, <1>4, <1>5, <1>6, LoadsOnward DEF c

LEMMA TakeFinalize ==
    ASSUME Inv1, Remembers, NEW h \in Handlers, NEW j \in JobIds, BeginFinalize(h, j)
    PROVE  Inv1'
  <1> DEFINE c == Claimed(h, j)
             q == Enter(h, j, "invoke")
             r == [q EXCEPT !.state = db.state]
  <1>1. /\ j[1] = "finalize" /\ Claimable(h, j) /\ db.run = "active"
        /\ db' = c /\ handler' = [handler EXCEPT ![h] = r]
    BY Zenon DEF BeginFinalize, Loads
  <1>2. DbFits(c) /\ Onward(c, c)
    BY <1>1, ClaimedFits, OnwardRefl DEF Inv1
  <1>3. HandlerRow(q) /\ q.pc = "invoke" /\ q.job = j
    BY EnterRow
  <1>4. db.state \in Seq(Chunks) /\ j \in SinkJobs
    BY <1>1, JobParts DEF Inv1, DbFits, Tables
  <1> HIDE DEF q, c
  <1>5. HandlerRow(r) /\ r.pc = "invoke" /\ r.job = j /\ r.state = db.state
    BY <1>3 DEF HandlerRow, Columns
  <1> HIDE DEF r
  <1>6. HandlerFits(r, c)
    BY <1>4, <1>5, SinkReads
  <1> QED
    BY <1>1, <1>2, <1>5, <1>6, LoadsOnward DEF c

-----------------------------------------------------------------------------
(* A handler at work.                                                      *)

LEMMA AtWork ==
    ASSUME Inv1, NEW h \in Handlers, handler[h].pc \in Work
    PROVE  /\ HandlerFits(handler[h], db) /\ HandlerRow(handler[h]) /\ handler[h].job \in JobIds
           /\ DbFits(db) /\ HandlersFit /\ Onward(db, db)
           /\ handler = [g \in Handlers |-> handler[g]]
  BY OnwardRefl DEF Inv1, HandlersFit, HandlerFits, Work

LEMMA LeavesInv ==
    ASSUME Inv1, Remembers, NEW h \in Handlers, handler[h].pc \in Work, NEW pc \in Leave, Goto(h, pc),
           DbFits(db'), Onward(db, db')
    PROVE  Inv1'
  BY Leaves DEF Inv1

LEMMA AdvancesInv ==
    ASSUME Inv1, Remembers, NEW h \in Handlers, handler[h].pc \in Work, NEW pc \in Work, Goto(h, pc),
           DbFits(db'), Onward(db, db'), HandlerFits([handler[h] EXCEPT !.pc = pc], db')
    PROVE  Inv1'
  BY Advances DEF Inv1

LEMMA GoesOnInv ==
    ASSUME Inv1, Remembers, NEW h \in Handlers, handler[h].pc \in Work, NEW r,
           handler' = [handler EXCEPT ![h] = r], r.job = handler[h].job,
           DbFits(db'), Onward(db, db'), HandlerFits(r, db')
    PROVE  Inv1'
  BY GoesOn DEF Inv1

LEMMA StatusFits ==
    ASSUME NEW d, DbFits(d), NEW v \in Invocations,
           NEW s \in {"pending", "running", "completed", "failed", "canceled"}
    PROVE  /\ DbFits([d EXCEPT !.inv[v].status = s]) /\ Onward(d, [d EXCEPT !.inv[v].status = s])
           /\ DbFits([d EXCEPT !.inv[v].closed = TRUE]) /\ Onward(d, [d EXCEPT !.inv[v].closed = TRUE])
  <1> DEFINE a == [d.inv[v] EXCEPT !.status = s]
             b == [d.inv[v] EXCEPT !.closed = TRUE]
  <1>1. d.inv[v] \in InvocationRow
    BY DEF DbFits, Tables
  <1>2. a \in InvocationRow /\ a.member = d.inv[v].member /\ a.size = d.inv[v].size /\ a.status # "absent"
    BY <1>1 DEF InvocationRow
  <1>3. b \in InvocationRow /\ b.member = d.inv[v].member /\ b.size = d.inv[v].size /\ b.status = d.inv[v].status
    BY <1>1 DEF InvocationRow
  <1>4. /\ [d EXCEPT !.inv[v].status = s] = [d EXCEPT !.inv[v] = a]
        /\ [d EXCEPT !.inv[v].closed = TRUE] = [d EXCEPT !.inv[v] = b]
    OBVIOUS
  <1> HIDE DEF a, b
  <1> QED
    BY <1>2, <1>3, <1>4, WithInvocation

-----------------------------------------------------------------------------
LEMMA StepBeginAttempt ==
    ASSUME Inv1, Remembers, NEW h \in Handlers, BeginAttempt(h)
    PROVE  Inv1'
  <1>1. handler[h].pc = "begin" /\ UNCHANGED <<db, used>>
    BY DEF BeginAttempt, At
  <1>2. handler[h].pc \in Work
    BY <1>1 DEF Work
  <1>3. DbFits(db') /\ Onward(db, db')
    BY <1>1, <1>2, AtWork DEF Inv1
  <1>4. CASE db.run = "active" /\ OwnsJob(db, h, handler[h].job)
    <2> DEFINE q == handler[h]
               o == IF db.snapshot THEN "none" ELSE "initialize"
               r == [q EXCEPT !.cursor = db.cursor, !.pc = "invoke", !.out = o]
    <2>1. handler' = [handler EXCEPT ![h].cursor = db.cursor, ![h].pc = "invoke", ![h].out = o]
      BY <1>4 DEF BeginAttempt
    <2> HIDE DEF o
    <2>2. handler' = [handler EXCEPT ![h] = r]
      BY <1>2, <2>1, AtWork
    <2>3. HandlerFits(q, db) /\ HandlerRow(q) /\ q.pc = "begin"
      BY <1>1, <1>2, AtWork
    <2> HIDE DEF q
    <2>4. HandlerRow(r) /\ r.pc = "invoke" /\ r.job = q.job /\ r.cursor = db.cursor
      BY <2>3 DEF HandlerRow, Columns
    <2> HIDE DEF r
    <2>5. HandlerFits(r, db')
      <3>1. db.cursor \in 0..Len(Pages)
        BY DEF Inv1, DbFits, Tables
      <3> QED
        BY <1>1, <2>3, <2>4, <3>1 DEF HandlerFits, Reads, Members, Work, Settling
    <2> QED
      BY <1>2, <1>3, <2>2, <2>4, <2>5, GoesOnInv DEF q
  <1>5. CASE ~(db.run = "active" /\ OwnsJob(db, h, handler[h].job))
    <2>1. Goto(h, "return")
      BY <1>5 DEF BeginAttempt
    <2> QED
      BY <1>2, <1>3, <2>1, LeavesInv DEF Leave
  <1> QED
    BY <1>4, <1>5

LEMMA StepThrottled ==
    ASSUME Inv1, Remembers, NEW h \in Handlers, Throttled(h)
    PROVE  Inv1'
  <1>1. handler[h].pc \in Work /\ Goto(h, "defer") /\ db' = db /\ "defer" \in Leave
    BY DEF Throttled, At, Work, Leave
  <1> QED
    BY <1>1, AtWork, LeavesInv

(* An invocation that is marked, or open again.                            *)
LEMMA ReopenedFits ==
    ASSUME Inv1, NEW h \in Handlers, handler[h].pc \in Work, handler[h].job[1] = "physical"
    PROVE  DbFits(Reopened(h)) /\ Onward(db, Reopened(h))
  <1> DEFINE j == handler[h].job
             s == IF handler[h].attempt >= MaxAttempts THEN "failed" ELSE "pending"
             e == [db EXCEPT !.inv[j[2]].status = s]
  <1>1. j[2] \in Invocations
    BY AtWork, JobParts
  <1>2. s \in {"failed", "pending"}
    OBVIOUS
  <1>3. Reopened(h) = e
    BY Zenon DEF Reopened
  <1>4. DbFits(e) /\ Onward(db, e)
    <2> HIDE DEF s, j
    <2> QED
      BY <1>1, <1>2, StatusFits DEF Inv1
  <1> HIDE DEF e
  <1> QED
    BY <1>3, <1>4

LEMMA StepMark ==
    ASSUME Inv1, Remembers, NEW h \in Handlers, MarkInvocation(h)
    PROVE  Inv1'
  <1> DEFINE q == handler[h]
             r == [q EXCEPT !.pc = "invoke"]
             v == q.job[2]
             open == db.inv[v].status \in {"pending", "running"}
             e == [db EXCEPT !.inv[v].status = "running"]
  <1>1. /\ q.pc = "mark" /\ q.job[1] = "physical"
        /\ db' = IF open THEN e ELSE db
        /\ Goto(h, IF open THEN "invoke" ELSE "throw")
    BY Zenon DEF MarkInvocation, At, Kind
  <1>2. q.pc \in Work /\ "invoke" \in Work /\ "throw" \in Leave
    BY <1>1 DEF Work, Leave
  <1>3. HandlerFits(q, db) /\ HandlerRow(q) /\ q.job \in JobIds /\ DbFits(db) /\ Onward(db, db)
    BY <1>2, AtWork
  <1>4. q.job[1] = "physical" /\ v \in Invocations
    BY <1>1, <1>3, JobParts DEF HandlerFits, Reads
  <1>5. DbFits(e) /\ Onward(db, e)
    BY <1>4, StatusFits DEF Inv1
  <1> HIDE DEF e
  <1>6. CASE open
    <2>1. db' = e /\ Goto(h, "invoke")
      BY <1>1, <1>6
    <2>2. HandlerFits(q, db')
      BY <2>1, <1>3, <1>5, FitsOn DEF Onward
    <2>3. HandlerFits(r, db')
      <3> HIDE DEF q, v
      <3>1. HandlerRow(r) /\ r.pc = "invoke" /\ r.job = q.job /\ r.items = q.items
        BY <1>3 DEF HandlerRow, Columns
      <3> HIDE DEF r
      <3> QED
        BY <1>1, <1>4, <2>2, <3>1 DEF HandlerFits, Reads, Members, Work, Settling
    <2> QED
      BY <1>1, <1>2, <1>5, <2>1, <2>3, AdvancesInv DEF Inv1
  <1>7. CASE ~open
    <2>1. db' = db /\ Goto(h, "throw")
      BY <1>1, <1>7
    <2> QED
      BY <1>1, <1>2, <1>3, <2>1, LeavesInv DEF Inv1
  <1> QED
    BY <1>6, <1>7

LEMMA StepMarkChunk ==
    ASSUME Inv1, Remembers, NEW h \in Handlers, MarkChunk(h)
    PROVE  Inv1'
  <1> DEFINE q == handler[h]
             r == [q EXCEPT !.pc = "invoke"]
             c == q.job[2]
             open == db.chunk[c].status \in {"pending", "running"}
             e == [db EXCEPT !.chunk[c].status = "running"]
  <1>1. /\ q.pc = "mark" /\ q.job[1] = "write"
        /\ db' = IF open THEN e ELSE db
        /\ Goto(h, IF open THEN "invoke" ELSE "throw")
    BY Zenon DEF MarkChunk, At, Kind
  <1>2. q.pc \in Work /\ "invoke" \in Work /\ "throw" \in Leave
    BY <1>1 DEF Work, Leave
  <1>3. HandlerFits(q, db) /\ HandlerRow(q) /\ q.job \in JobIds /\ DbFits(db) /\ Onward(db, db)
    BY <1>2, AtWork
  <1>4. DbFits(e) /\ Onward(db, e)
    <2>1. <<>> \in Seq(Chunks) /\ 0 \in Nat /\ 0 <= Len(db.chunk)
      BY EmptySeq DEF Inv1, DbFits, Tables
    <2> HIDE DEF c
    <2> QED
      BY <2>1, WithChunk DEF Inv1
  <1> HIDE DEF e
  <1>5. CASE open
    <2>1. db' = e /\ Goto(h, "invoke")
      BY <1>1, <1>5
    <2>2. q.state \in Seq(Chunks) /\ q.job \in SinkJobs
      BY <1>1, <1>3, JobParts DEF HandlerFits, Reads
    <2>3. HandlerFits(r, db')
      <3> HIDE DEF q, c
      <3>1. HandlerRow(r) /\ r.pc = "invoke" /\ r.job = q.job /\ r.state = q.state
        BY <1>3 DEF HandlerRow, Columns
      <3> HIDE DEF r
      <3> QED
        BY <1>3, <2>2, <3>1, SinkReads
    <2> QED
      BY <1>1, <1>2, <1>4, <2>1, <2>3, AdvancesInv DEF Inv1
  <1>6. CASE ~open
    <2>1. db' = db /\ Goto(h, "throw")
      BY <1>1, <1>6
    <2> QED
      BY <1>1, <1>2, <1>3, <2>1, LeavesInv DEF Inv1
  <1> QED
    BY <1>5, <1>6

LEMMA StepFenced ==
    ASSUME Inv1, Remembers, NEW h \in Handlers, Fenced(h)
    PROVE  Inv1'
  <1>1. handler[h].pc \in Work /\ Goto(h, "throw") /\ UNCHANGED <<db, used>> /\ "throw" \in Leave
    BY DEF Fenced, At, Work, Leave
  <1> QED
    BY <1>1, AtWork, LeavesInv DEF Inv1

LEMMA StepInvokeFails ==
    ASSUME Inv1, Remembers, NEW h \in Handlers, InvokeFails(h)
    PROVE  Inv1'
  <1>1. /\ handler[h].pc \in Work /\ Goto(h, "throw") /\ "throw" \in Leave
        /\ db' = IF Kind(h) = "physical" THEN Reopened(h) ELSE db
    BY DEF InvokeFails, Answers, At, Work, Leave
  <1>3. DbFits(db') /\ Onward(db, db')
    BY <1>1, AtWork, ReopenedFits DEF Kind
  <1> QED
    BY <1>1, <1>3, LeavesInv

LEMMA StepDatabaseFails ==
    ASSUME Inv1, Remembers, NEW h \in Handlers, DatabaseFails(h)
    PROVE  Inv1'
  <1>1. /\ handler[h].pc \in Work /\ Goto(h, "throw") /\ "throw" \in Leave
        /\ db' = IF Kind(h) = "physical" /\ ~At(h, "mark") THEN Reopened(h) ELSE db
    BY DEF DatabaseFails, Work, Leave
  <1>2. DbFits(db') /\ Onward(db, db')
    BY <1>1, AtWork, ReopenedFits DEF Kind
  <1> QED
    BY <1>1, <1>2, LeavesInv

LEMMA StepInvokeAnswers ==
    ASSUME Inv1, Remembers, NEW h \in Handlers, InvokeAnswers(h)
    PROVE  Inv1'
  <1> DEFINE q == handler[h]
  <1>1. q.pc = "invoke" /\ UNCHANGED <<db, used>>
    BY DEF InvokeAnswers, Answers, At
  <1>2. q.pc \in Work /\ "commit" \in Work
    BY <1>1 DEF Work
  <1>3. /\ HandlerFits(q, db) /\ HandlerRow(q) /\ q.job \in JobIds
        /\ handler = [g \in Handlers |-> handler[g]]
    BY <1>2, AtWork
  <1>4. DbFits(db') /\ Onward(db, db')
    BY <1>1, <1>2, AtWork DEF Inv1
  <1>5. CASE Kind(h) = "item" /\ q.out # "suspended"
    <2>1. PICK o \in Outcomes \ {"retry"} :
                handler' = [handler EXCEPT ![h].pc = "commit", ![h].out = o]
      BY <1>5 DEF InvokeAnswers
    <2> DEFINE r == [q EXCEPT !.pc = "commit", !.out = o]
    <2>2. handler' = [handler EXCEPT ![h] = r]
      BY <1>3, <2>1
    <2>3. o \in Answered /\ q.job[1] = "item"
      BY <1>5, BatchAssumption DEF Answered, Kind
    <2> HIDE DEF q
    <2>4. HandlerRow(r) /\ r.pc = "commit" /\ r.job = q.job /\ r.out = o /\ r.cursor = q.cursor
      BY <1>3 DEF HandlerRow, Columns
    <2> HIDE DEF r
    <2>5. HandlerFits(r, db)
      BY <1>1, <1>3, <2>3, <2>4 DEF HandlerFits, Reads, Members, Work, Settling
    <2> QED
      BY <1>1, <1>2, <1>4, <2>2, <2>4, <2>5, GoesOnInv DEF q
  <1>6. CASE Kind(h) = "physical"
    <2>1. PICK o \in [DOMAIN handler[h].items -> Outcomes] :
                handler' = [handler EXCEPT ![h].pc = "commit", ![h].out = o]
      BY <1>6 DEF InvokeAnswers
    <2> DEFINE r == [q EXCEPT !.pc = "commit", !.out = o]
    <2>2. handler' = [handler EXCEPT ![h] = r]
      BY <1>3, <2>1
    <2>3. DOMAIN o = DOMAIN q.items /\ q.job[1] = "physical"
      BY <1>6, <2>1 DEF Kind
    <2> HIDE DEF q
    <2>4. HandlerRow(r) /\ r.pc = "commit" /\ r.job = q.job /\ r.out = o /\ r.items = q.items
      BY <1>3 DEF HandlerRow, Columns
    <2> HIDE DEF r
    <2>5. HandlerFits(r, db)
      BY <1>1, <1>3, <2>3, <2>4 DEF HandlerFits, Reads, Members, Work, Settling
    <2> QED
      BY <1>1, <1>2, <1>4, <2>2, <2>4, <2>5, GoesOnInv DEF q
  <1>7. CASE ~(Kind(h) = "item" /\ q.out # "suspended") /\ Kind(h) # "physical"
    <2> DEFINE r == [q EXCEPT !.pc = "commit"]
    <2>1. Goto(h, "commit") /\ q.job[1] # "physical" /\ (q.job[1] = "item" => q.out = "suspended")
      BY <1>7 DEF InvokeAnswers, Kind
    <2>2. HandlerFits(r, db)
      <3> HIDE DEF q
      <3>1. /\ HandlerRow(r) /\ r.pc = "commit" /\ r.job = q.job /\ r.out = q.out /\ r.items = q.items
            /\ r.cursor = q.cursor /\ r.state = q.state
        BY <1>3 DEF HandlerRow, Columns
      <3> HIDE DEF r
      <3> QED
        BY <1>1, <1>3, <2>1, <3>1 DEF HandlerFits, Reads, Members, Work, Settling
    <2> QED
      BY <1>1, <1>2, <1>4, <2>1, <2>2, AdvancesInv
  <1> QED
    BY <1>5, <1>6, <1>7

LEMMA PagesThere == Len(Pages) \in Nat \ {0} /\ 0 \in 0..Len(Pages)
  <1> DEFINE Sequences == Seq(Items)
  <1>1. Pages \in Seq(Sequences) /\ Pages # <<>>
    BY BatchAssumption
  <1> HIDE DEF Sequences
  <1>2. Len(Pages) \in Nat /\ Len(Pages) # 0
    BY <1>1, EmptySeq
  <1> QED
    BY <1>2

LEMMA StepCommitInitialize ==
    ASSUME Inv1, Remembers, NEW h \in Handlers, CommitInitialize(h)
    PROVE  Inv1'
  <1> DEFINE q == handler[h]
             r == [q EXCEPT !.pc = "invoke", !.cursor = 0, !.out = "none"]
             e == [db EXCEPT !.snapshot = TRUE, !.cursor = 0, !.queued = FALSE]
  <1>1. /\ q.pc = "commit" /\ q.job[1] = "source" /\ db' = e
        /\ handler' = [handler EXCEPT ![h].pc = "invoke", ![h].cursor = 0, ![h].out = "none"]
    BY DEF CommitInitialize, At, Kind
  <1>2. q.pc \in Work
    BY <1>1 DEF Work
  <1>3. /\ HandlerFits(q, db) /\ HandlerRow(q) /\ q.job \in JobIds
        /\ handler = [g \in Handlers |-> handler[g]]
    BY <1>2, AtWork
  <1>4. handler' = [handler EXCEPT ![h] = r]
    BY <1>1, <1>3
  <1>5. DbFits(e) /\ Onward(db, e)
    <2>1. 0 \in 0..Len(Pages)
      BY PagesThere
    <2>2. e \in Tables
      BY <2>1 DEF Inv1, DbFits, Tables
    <2>3. /\ e.run = db.run /\ e.job = db.job /\ e.inv = db.inv /\ e.order = db.order /\ e.item = db.item
          /\ e.failed = db.failed /\ e.ended = db.ended /\ e.written = db.written /\ e.chunk = db.chunk
      BY DEF Inv1, DbFits, Tables
    <2> HIDE DEF e
    <2> QED
      BY <2>2, <2>3, SameFits DEF Inv1, DbFits
  <1> HIDE DEF e
  <1>6. HandlerRow(r) /\ r.pc = "invoke" /\ r.job = q.job /\ r.cursor = 0
    <2> HIDE DEF q
    <2> QED
      BY <1>3 DEF HandlerRow, Columns
  <1>7. HandlerFits(r, e)
    <2>1. 0 \in 0..Len(Pages)
      BY PagesThere
    <2> HIDE DEF r, q
    <2> QED
      BY <1>1, <1>3, <1>6, <2>1 DEF HandlerFits, Reads, Members, Work, Settling
  <1> HIDE DEF r
  <1> QED
    BY <1>1, <1>2, <1>4, <1>5, <1>6, <1>7, GoesOnInv DEF Inv1

LEMMA StepCommitPage ==
    ASSUME Inv1, Remembers, NEW h \in Handlers, CommitPage(h)
    PROVE  Inv1'
  <1> DEFINE q == handler[h]
             p == IF handler[h].cursor = 0 THEN 1 ELSE handler[h].cursor
             pc == IF p = Len(Pages) THEN "count" ELSE "return"
             e == AcceptSourcePage(db, p)
  <1>1. q.pc = "commit" /\ q.job[1] = "source" /\ db' = e /\ Goto(h, pc) /\ UNCHANGED used
    BY DEF CommitPage, At, Kind
  <1>2. q.pc \in Work
    BY <1>1 DEF Work
  <1>3. HandlerFits(q, db) /\ HandlerRow(q) /\ q.job \in JobIds
    BY <1>2, AtWork
  <1>4. p \in 1..Len(Pages)
    <2>1. q.cursor \in 0..Len(Pages)
      BY <1>1, <1>3 DEF HandlerFits, Reads
    <2>2. Len(Pages) \in Nat \ {0}
      BY PagesThere
    <2> QED
      BY <2>1, <2>2
  <1>5. DbFits(e) /\ Onward(db, e)
    <2> HIDE DEF p
    <2> QED
      BY <1>4, AcceptFits DEF Inv1
  <1> HIDE DEF e
  <1>6. CASE p = Len(Pages)
    <2> DEFINE r == [q EXCEPT !.pc = "count"]
    <2>1. HandlerFits(r, e)
      <3> HIDE DEF q
      <3>1. HandlerRow(r) /\ r.pc = "count" /\ r.job = q.job
        BY <1>3 DEF HandlerRow, Columns
      <3> HIDE DEF r
      <3> QED
        BY <1>1, <1>3, <3>1 DEF HandlerFits, Reads, Members, Work, Settling
    <2> QED
      BY <1>1, <1>2, <1>5, <1>6, <2>1, AdvancesInv DEF Inv1, Work
  <1>7. CASE p # Len(Pages)
    BY <1>1, <1>2, <1>5, <1>7, LeavesInv DEF Inv1, Leave
  <1> QED
    BY <1>6, <1>7

LEMMA StepRetryItem ==
    ASSUME Inv1, Remembers, NEW h \in Handlers, RetryItem(h)
    PROVE  Inv1'
  <1> DEFINE q == handler[h]
             i == q.job[2]
             n == q.cursor + 1
             e == IF Open(db, i) THEN [db EXCEPT !.item[i] = "pending", !.attempt[i] = n] ELSE db
  <1>1. /\ q.pc = "commit" /\ Goto(h, "throw") /\ q.job[1] = "item" /\ UNCHANGED used
        /\ db' = e
    BY Zenon DEF RetryItem, At, Kind
  <1>2. q.pc \in Work /\ "throw" \in Leave
    BY <1>1 DEF Work, Leave
  <1>3. i \in Known(db) /\ q.cursor \in Nat
    BY <1>1, <1>2, AtWork DEF HandlerFits, Reads, Work
  <1>4. n \in Nat /\ "pending" \in ItemStatuses \ {"absent"}
    BY <1>3 DEF ItemStatuses, BacklogStatuses
  <1>5. DbFits(e) /\ Onward(db, e)
    <2> HIDE DEF i, n
    <2> QED
      BY <1>3, <1>4, WithItem, OnwardRefl DEF Inv1
  <1> HIDE DEF e
  <1> QED
    BY <1>1, <1>2, <1>5, LeavesInv DEF Inv1

LEMMA StepCommitItem ==
    ASSUME Inv1, Remembers, NEW h \in Handlers, CommitItem(h)
    PROVE  Inv1'
  <1> DEFINE q == handler[h]
             i == q.job[2]
             pc == IF Open(db, i) THEN "after" ELSE "return"
             e == CompleteItem(db, i, q.out)
  <1>1. /\ q.pc = "commit" /\ q.job[1] = "item" /\ q.out # "suspended" /\ db' = e
        /\ Goto(h, pc) /\ UNCHANGED used
    BY DEF CommitItem, At, Kind
  <1>2. q.pc \in Work
    BY <1>1 DEF Work
  <1>3. HandlerFits(q, db) /\ HandlerRow(q) /\ q.job \in JobIds
    BY <1>2, AtWork
  <1>4. q.out \in Answered /\ i \in Items /\ db.item[i] # "absent"
    BY <1>1, <1>3 DEF HandlerFits, Reads, Known
  <1>5. DbFits(e) /\ Onward(db, e)
    <2> HIDE DEF q
    <2> QED
      BY <1>4, CompleteItemFits DEF Inv1
  <1> HIDE DEF e
  <1>6. CASE Open(db, i)
    <2> DEFINE r == [q EXCEPT !.pc = "after"]
    <2>1. HandlerFits(q, e)
      BY <1>3, <1>5, FitsOn DEF Onward
    <2>2. HandlerFits(r, e)
      <3> HIDE DEF q
      <3>1. HandlerRow(r) /\ r.pc = "after" /\ r.job = q.job /\ r.out = q.out
        BY <1>3 DEF HandlerRow, Columns
      <3> HIDE DEF r
      <3> QED
        BY <1>1, <1>4, <2>1, <3>1 DEF HandlerFits, Reads, Members, Work, Settling
    <2> QED
      BY <1>1, <1>2, <1>5, <1>6, <2>2, AdvancesInv DEF Inv1, Work
  <1>7. CASE ~Open(db, i)
    BY <1>1, <1>2, <1>5, <1>7, LeavesInv DEF Inv1, Leave
  <1> QED
    BY <1>6, <1>7

(* What follows when an item has ended.                                    *)
LEMMA SettlesOn ==
    ASSUME Inv1, Remembers, NEW h \in Handlers, handler[h].pc \in Settling,
           NEW pc \in {"schedule", "count", "finalize", Back(h)}, Goto(h, pc),
           DbFits(db'), Onward(db, db')
    PROVE  Inv1'
  <1> DEFINE q == handler[h]
             r == [q EXCEPT !.pc = pc]
  <1>1. q.pc \in Work
    BY DEF Work, Settling
  <1>2. HandlerFits(q, db) /\ HandlerRow(q) /\ q.job \in JobIds
    BY <1>1, AtWork
  <1>3. CASE pc = "return"
    BY <1>1, <1>3, LeavesInv DEF Leave
  <1>4. CASE pc # "return"
    <2>1. /\ pc \in {"schedule", "count", "finalize", "members"}
          /\ pc = "members" => q.job[1] = "physical"
      BY <1>4 DEF Back, Kind
    <2>2. HandlerFits(q, db')
      BY <1>2, FitsOn DEF Onward
    <2>3. q.job[1] \in {"source", "item", "physical"}
      BY <1>2 DEF HandlerFits, Reads, Settling
    <2>4. HandlerFits(r, db')
      <3> HIDE DEF q
      <3>1. HandlerRow(r) /\ r.pc = pc /\ r.job = q.job /\ r.left = q.left
        BY <1>2 DEF HandlerRow, Columns
      <3>2. q.pc \in Settling
        BY DEF q
      <3> HIDE DEF r
      <3> QED
        BY <1>2, <2>1, <2>2, <2>3, <3>1, <3>2 DEF HandlerFits, Reads, Members, Work, Settling
    <2>5. pc \in Work
      BY <2>1 DEF Work
    <2> QED
      BY <1>1, <2>4, <2>5, AdvancesInv
  <1> QED
    BY <1>3, <1>4

LEMMA StepApplyFailurePolicy ==
    ASSUME Inv1, Remembers, NEW h \in Handlers, ApplyFailurePolicy(h)
    PROVE  Inv1'
  <1> DEFINE j == handler[h].job
             stop == handler[h].out = "failed" /\ db.failed >= MaxFailures
             e == IF stop /\ OwnsJob(db, h, j) THEN FailStep(db, {j}) ELSE db
             pc == IF stop THEN Back(h) ELSE "schedule"
  <1>1. handler[h].pc = "after" /\ db' = e /\ Goto(h, pc)
    BY DEF ApplyFailurePolicy, At
  <1>2. handler[h].pc \in Settling /\ pc \in {"schedule", "count", "finalize", Back(h)}
    BY <1>1 DEF Settling
  <1>3. DbFits(e) /\ Onward(db, e)
    <2>1. OwnsJob(db, h, j) => \A k \in {j} \cap JobIds : db.job[k].status # "parked"
      BY DEF OwnsJob
    <2> HIDE DEF j
    <2> QED
      BY <2>1, FailStepFits, OnwardRefl DEF Inv1
  <1> HIDE DEF e, pc
  <1> QED
    BY <1>1, <1>2, <1>3, SettlesOn

LEMMA StepScheduleNext ==
    ASSUME Inv1, Remembers, NEW h \in Handlers, ScheduleNext(h)
    PROVE  Inv1'
  <1>1. handler[h].pc \in Settling /\ db' = ScheduleSourcePage(db) /\ Goto(h, "count")
    BY DEF ScheduleNext, At, Settling
  <1>2. DbFits(db') /\ Onward(db, db')
    BY <1>1, ScheduleFits DEF Inv1
  <1> QED
    BY <1>1, <1>2, SettlesOn

LEMMA StepCountEnded ==
    ASSUME Inv1, Remembers, NEW h \in Handlers, CountEnded(h)
    PROVE  Inv1'
  <1> DEFINE pc == IF db.done /\ db.ended >= Len(db.order) THEN "finalize" ELSE Back(h)
  <1>1. handler[h].pc \in Settling /\ db' = db /\ Goto(h, pc)
    BY DEF CountEnded, At, Settling
  <1>2. DbFits(db') /\ Onward(db, db')
    BY <1>1, OnwardRefl DEF Inv1
  <1>3. pc \in {"schedule", "count", "finalize", Back(h)}
    OBVIOUS
  <1> HIDE DEF pc
  <1> QED
    BY <1>1, <1>2, <1>3, SettlesOn

LEMMA StepQueueSink ==
    ASSUME Inv1, Remembers, NEW h \in Handlers, QueueSink(h)
    PROVE  Inv1'
  <1>1. handler[h].pc \in Settling /\ db' = FinalizeIfComplete(db) /\ Goto(h, Back(h))
    BY DEF QueueSink, At, Settling
  <1>2. DbFits(db') /\ Onward(db, db')
    BY <1>1, FinalizeFits DEF Inv1
  <1> QED
    BY <1>1, <1>2, SettlesOn

LEMMA StepLookForInvocation ==
    ASSUME Inv1, Remembers, NEW h \in Handlers, LookForInvocation(h)
    PROVE  Inv1'
  <1> DEFINE q == handler[h]
             W == OpenWindows(db)
             r == [q EXCEPT !.pc = "join", !.left = W]
  <1>1. /\ q.pc = "commit" /\ q.job[1] = "item" /\ db' = db
        /\ handler' = [handler EXCEPT ![h].pc = "join", ![h].left = W]
    BY DEF LookForInvocation, At, Kind
  <1>2. q.pc \in Work
    BY <1>1 DEF Work
  <1>3. /\ HandlerFits(q, db) /\ HandlerRow(q) /\ q.job \in JobIds
        /\ handler = [g \in Handlers |-> handler[g]]
    BY <1>2, AtWork
  <1>4. W \subseteq Invocations
    BY DEF OpenWindows
  <1> HIDE DEF W
  <1>5. handler' = [handler EXCEPT ![h] = r]
    BY <1>1, <1>3
  <1>6. HandlerRow(r) /\ r.pc = "join" /\ r.job = q.job /\ r.cursor = q.cursor /\ r.left = W
    <2> HIDE DEF q
    <2> QED
      BY <1>3 DEF HandlerRow, Columns
  <1>7. HandlerFits(r, db)
    <2> HIDE DEF r, q
    <2> QED
      BY <1>1, <1>3, <1>4, <1>6 DEF HandlerFits, Reads, Members, Work, Settling
  <1> HIDE DEF r
  <1> QED
    BY <1>1, <1>2, <1>5, <1>6, <1>7, OnwardRefl, GoesOnInv DEF Inv1

LEMMA StepJoins ==
    ASSUME Inv1, Remembers, NEW h \in Handlers, handler[h].pc = "join",
           NEW v \in Invocations, db.inv[v].size < MaxItems, Joins(h, v)
    PROVE  Inv1'
  <1> DEFINE q == handler[h]
             i == q.job[2]
             e == ParkAtPhysicalStep(db, i, q.cursor, v)
             o == IF e.inv[v].size >= MaxItems THEN "full" ELSE "none"
             r == [q EXCEPT !.pc = "enqueue", !.cursor = v, !.left = {}, !.out = o]
  <1>1. /\ db' = e
        /\ handler' = [handler EXCEPT ![h].pc = "enqueue", ![h].cursor = v, ![h].left = {}, ![h].out = o]
    BY Zenon DEF Joins
  <1>2. q.pc \in Work
    BY DEF Work
  <1>3. /\ HandlerFits(q, db) /\ HandlerRow(q) /\ q.job \in JobIds
        /\ handler = [g \in Handlers |-> handler[g]]
    BY <1>2, AtWork
  <1> HIDE DEF o
  <1>4. handler' = [handler EXCEPT ![h] = r]
    <2> HIDE DEF e
    <2> QED
      BY <1>1, <1>3
  <1>5. q.job[1] = "item" /\ i \in Known(db) /\ q.cursor \in Nat
    BY <1>3 DEF HandlerFits, Reads
  <1>6. DbFits(e) /\ Onward(db, e)
    <2> HIDE DEF i, q
    <2> QED
      BY <1>5, ParkFits DEF Inv1
  <1> HIDE DEF e
  <1>7. HandlerRow(r) /\ r.pc = "enqueue" /\ r.job = q.job /\ r.cursor = v
    <2> HIDE DEF q
    <2> QED
      BY <1>3 DEF HandlerRow, Columns
  <1>8. HandlerFits(r, e)
    <2>1. i \in Known(e)
      BY <1>5, <1>6 DEF Onward, Grows
    <2> HIDE DEF r, q
    <2> QED
      BY <1>3, <1>5, <1>7, <2>1 DEF HandlerFits, Reads, Members, Work, Settling
  <1> HIDE DEF r
  <1> QED
    BY <1>1, <1>2, <1>4, <1>6, <1>7, <1>8, GoesOnInv DEF Inv1

LEMMA StepCommitPark ==
    ASSUME Inv1, Remembers, NEW h \in Handlers, CommitPark(h)
    PROVE  Inv1'
  <1> DEFINE W == OpenWindows(db)
  <1>1. handler[h].pc = "join" /\ Candidates(db, W) # {} /\ Joins(h, Admitting(db, W))
    BY DEF CommitPark, At
  <1>2. W \in SUBSET Invocations
    BY DEF OpenWindows
  <1> HIDE DEF W
  <1>3. Admitting(db, W) \in Invocations /\ db.inv[Admitting(db, W)].size < MaxItems
    BY <1>1, <1>2, AdmittingFits DEF Inv1
  <1> QED
    BY <1>1, <1>3, StepJoins

LEMMA StepCommitLate ==
    ASSUME Inv1, Remembers, NEW h \in Handlers, CommitLate(h)
    PROVE  Inv1'
  <1> DEFINE W == handler[h].left
  <1>1. handler[h].pc = "join" /\ FindCompatibleInvocation(db, W) # {} /\ Joins(h, Admitting(db, W))
    BY DEF CommitLate, At
  <1>2. W \in SUBSET Invocations
    BY <1>1, AtWork DEF Work, HandlerFits, Reads
  <1> HIDE DEF W
  <1>3. Admitting(db, W) \in Invocations /\ db.inv[Admitting(db, W)].size < MaxItems
    <2>1. Candidates(db, W) # {}
      BY <1>1 DEF Candidates
    <2> QED
      BY <1>2, <2>1, AdmittingFits DEF Inv1
  <1> QED
    BY <1>1, <1>3, StepJoins

LEMMA StepEnqueuePhysical ==
    ASSUME Inv1, Remembers, NEW h \in Handlers, EnqueuePhysical(h)
    PROVE  Inv1'
  <1> DEFINE v == handler[h].cursor
             j == <<"physical", v, 0>>
             full == handler[h].out = "full"
             s == IF full THEN "pending" ELSE "later"
             d == Enqueue(db, {j}, s)
             e == [d EXCEPT !.job[j].status = "pending"]
  <1>1. /\ handler[h].pc \in Work /\ handler[h].pc = "enqueue" /\ Goto(h, "return") /\ "return" \in Leave
        /\ db' = IF full /\ d.job[j].status \in {"later", "parked"} THEN e ELSE d
        /\ UNCHANGED used
    BY DEF EnqueuePhysical, At, Work, Leave
  <1>2. v \in Invocations /\ j \in JobIds
    BY <1>1, AtWork DEF HandlerFits, Reads, JobIds
  <1>3. DbFits(d) /\ Onward(db, d)
    <2>1. \A k \in {j} \cap JobIds : k[1] # "item"
      OBVIOUS
    <2>2. s \in {"pending", "later"}
      OBVIOUS
    <2> HIDE DEF s, j
    <2> QED
      BY <2>1, <2>2, EnqueueFits DEF Inv1
  <1>4. ASSUME d.job[j].status \in {"later", "parked"}
        PROVE  DbFits(e) /\ Onward(d, e)
    <2> DEFINE row == [d.job[j] EXCEPT !.status = "pending"]
    <2>1. d.job[j] \in JobRow /\ JobFits(d.job[j])
      BY <1>2, <1>3 DEF DbFits, Tables, JobsFit
    <2>2. row \in JobRow /\ JobFits(row) /\ row.status = "pending"
      BY <1>4, <2>1 DEF JobRow, JobFits, LiveStatuses
    <2>3. e = [d EXCEPT !.job[j] = row]
      OBVIOUS
    <2>4. j[1] # "item"
      OBVIOUS
    <2> HIDE DEF row, j, d
    <2>5. /\ DbFits(e) /\ Grows(d, e) /\ \A k \in JobIds : k # j => e.job[k] = d.job[k]
      BY <1>2, <1>3, <2>2, <2>3, <2>4, WithRow
    <2>6. \A g \in Handlers, k \in JobIds : OwnsJob(d, g, k) => OwnsJob(e, g, k)
      BY <1>4, <2>5 DEF OwnsJob
    <2> QED
      BY <2>5, <2>6 DEF Onward
  <1> HIDE DEF d, e, j
  <1> QED
    BY <1>1, <1>3, <1>4, OnwardTrans, LeavesInv DEF Inv1

LEMMA StepParkRefused ==
    ASSUME Inv1, Remembers, NEW h \in Handlers, ParkRefused(h)
    PROVE  Inv1'
  <1>1. handler[h].pc \in Work /\ Goto(h, "throw") /\ UNCHANGED <<db, used>> /\ "throw" \in Leave
    BY DEF ParkRefused, At, Work, Leave
  <1> QED
    BY <1>1, AtWork, LeavesInv DEF Inv1


LEMMA StepCommitOutcomes ==
    ASSUME Inv1, Remembers, NEW h \in Handlers, CommitOutcomes(h)
    PROVE  Inv1'
  <1> DEFINE q == handler[h]
             v == q.job[2]
             e == PersistPhysicalOutcomes(db, v, q.items, q.out)
             ends == TerminalOutcomes(q.items, q.out)
             r == [q EXCEPT !.pc = "members", !.left = ends, !.out = "none", !.items = <<>>]
  <1>1. /\ q.pc = "commit" /\ q.job[1] = "physical" /\ db' = e /\ UNCHANGED used
        /\ handler' = [handler EXCEPT ![h].pc = "members", ![h].left = ends,
                                      ![h].out = "none", ![h].items = <<>>]
    BY DEF CommitOutcomes, At, Kind
  <1>2. q.pc \in Work
    BY <1>1 DEF Work
  <1>3. /\ HandlerFits(q, db) /\ HandlerRow(q) /\ q.job \in JobIds
        /\ handler = [g \in Handlers |-> handler[g]]
    BY <1>2, AtWork
  <1>4. handler' = [handler EXCEPT ![h] = r]
    <2> HIDE DEF ends
    <2> QED
      BY <1>1, <1>3
  <1>5. /\ v \in Invocations /\ DOMAIN q.out \subseteq Joined(db.inv[v])
        /\ \A i \in DOMAIN q.out : q.items[i] \in Nat
    BY <1>1, <1>3, JobParts DEF HandlerFits, Members
  <1>6. DbFits(e) /\ Onward(db, e)
    <2> HIDE DEF q, v
    <2> QED
      BY <1>5, PersistFits DEF Inv1
  <1>7. ends \subseteq Items \X Answered /\ \A m \in ends : m[1] \in Known(e)
    <2>1. Joined(db.inv[v]) \subseteq Known(db) /\ Known(db) \subseteq Known(e) /\ Known(db) \subseteq Items
      BY <1>5, <1>6 DEF Inv1, DbFits, KnownFit, Onward, Grows, Known
    <2>2. DOMAIN q.out \subseteq Items /\ DOMAIN q.out \subseteq Known(e)
      BY <1>5, <2>1
    <2> HIDE DEF q, e
    <2> QED
      BY <2>2 DEF TerminalOutcomes, Answered
  <1> HIDE DEF e, ends
  <1>8. HandlerRow(r) /\ r.pc = "members" /\ r.job = q.job /\ r.left = ends
    <2> HIDE DEF q
    <2> QED
      BY <1>3 DEF HandlerRow, Columns
  <1>9. HandlerFits(r, e)
    <2> HIDE DEF r, q
    <2> QED
      BY <1>1, <1>3, <1>7, <1>8 DEF HandlerFits, Reads, Members, Work, Settling
  <1> HIDE DEF r
  <1> QED
    BY <1>1, <1>2, <1>4, <1>6, <1>8, <1>9, GoesOnInv DEF Inv1

LEMMA StepOutcomesRefused ==
    ASSUME Inv1, Remembers, NEW h \in Handlers, OutcomesRefused(h)
    PROVE  Inv1'
  <1>1. /\ handler[h].pc \in Work /\ handler[h].job[1] = "physical" /\ Goto(h, "throw") /\ "throw" \in Leave
        /\ db' = Reopened(h) /\ UNCHANGED used
    BY DEF OutcomesRefused, At, Kind, Work, Leave
  <1> QED
    BY <1>1, ReopenedFits, LeavesInv DEF Inv1

LEMMA StepCompleteMember ==
    ASSUME Inv1, Remembers, NEW h \in Handlers, CompleteMember(h)
    PROVE  Inv1'
  <1> DEFINE q == handler[h]
  <1>1. PICK m \in q.left :
            /\ q.pc = "members" /\ db' = CompleteItem(db, m[1], m[2]) /\ UNCHANGED used
            /\ handler' = [handler EXCEPT ![h].left = @ \ {m}, ![h].out = m[2],
                    ![h].pc = IF Open(db, m[1]) THEN "after" ELSE "members"]
    BY DEF CompleteMember, At
  <1>0. PICK l : l = q.left \ {m}
    OBVIOUS
  <1> DEFINE e == CompleteItem(db, m[1], m[2])
             pc == IF Open(db, m[1]) THEN "after" ELSE "members"
             r == [q EXCEPT !.left = l, !.out = m[2], !.pc = pc]
  <1>11. db' = e
    BY Zenon, <1>1
  <1>12. q.pc = "members"
    BY Zenon, <1>1
  <1>2. q.pc \in Work
    BY <1>12 DEF Work
  <1>3. /\ HandlerFits(q, db) /\ HandlerRow(q) /\ q.job \in JobIds
        /\ handler = [g \in Handlers |-> handler[g]]
    BY <1>2, AtWork
  <1>4. handler' = [handler EXCEPT ![h] = r]
    <2>1. handler' = [handler EXCEPT ![h].left = l, ![h].out = m[2], ![h].pc = pc]
      BY Zenon, <1>0, <1>1
    <2> HIDE DEF pc
    <2> QED
      BY <1>3, <2>1
  <1>5. q.job[1] = "physical" /\ q.left \subseteq Items \X Answered /\ \A k \in q.left : k[1] \in Known(db)
    BY <1>3, <1>12, Zenon DEF HandlerFits, Reads, Settling
  <1>6. m[1] \in Items /\ m[2] \in Answered /\ db.item[m[1]] # "absent"
    BY <1>5 DEF Known
  <1>7. DbFits(e) /\ Onward(db, e)
    BY <1>6, CompleteItemFits DEF Inv1
  <1>8. pc \in {"after", "members"}
    OBVIOUS
  <1> HIDE DEF e, pc
  <1>9. HandlerRow(r) /\ r.pc = pc /\ r.job = q.job /\ r.out = m[2] /\ r.left = l
    <2> HIDE DEF q
    <2> QED
      BY <1>3 DEF HandlerRow, Columns
  <1>10. HandlerFits(r, e)
    <2>1. r.left \subseteq Items \X Answered /\ \A k \in r.left : k[1] \in Known(e)
      BY <1>0, <1>5, <1>7, <1>9 DEF Onward, Grows
    <2> HIDE DEF r, q
    <2> QED
      BY <1>3, <1>5, <1>6, <1>8, <1>9, <2>1 DEF HandlerFits, Reads, Members, Work, Settling
  <1> HIDE DEF r
  <1> QED
    BY <1>2, <1>4, <1>7, <1>9, <1>10, <1>11, GoesOnInv DEF Inv1

LEMMA StepMembersDone ==
    ASSUME Inv1, Remembers, NEW h \in Handlers, MembersDone(h)
    PROVE  Inv1'
  <1>1. handler[h].pc \in Work /\ Goto(h, "return") /\ UNCHANGED <<db, used>> /\ "return" \in Leave
    BY DEF MembersDone, At, Work, Leave
  <1> QED
    BY <1>1, AtWork, LeavesInv DEF Inv1

LEMMA StepCommitStart ==
    ASSUME Inv1, Remembers, NEW h \in Handlers, CommitStart(h)
    PROVE  Inv1'
  <1>1. /\ handler[h].pc \in Work /\ Goto(h, "return") /\ "return" \in Leave
    BY DEF CommitStart, At, Work, Leave
  <1>4. PICK w \in Widths \cup {0} :
            db' = IF w = 0 THEN CompleteStep(db, h, handler[h].job)
                  ELSE EnqueueNextSinkWork(CreateSinkChunks([db EXCEPT !.width = w, !.state = <<>>]))
    BY DEF CommitStart, Inv1, DbFits, Tables
  <1> DEFINE d == [db EXCEPT !.width = w, !.state = <<>>]
             e == IF w = 0 THEN CompleteStep(db, h, handler[h].job)
                  ELSE EnqueueNextSinkWork(CreateSinkChunks(d))
  <1>5. db' = e
    BY <1>4
  <1>2. DbFits(d) /\ Onward(db, d)
    <2>1. <<>> \in Seq(Chunks)
      BY EmptySeq
    <2>2. d \in Tables
      BY <2>1 DEF Inv1, DbFits, Tables
    <2>3. /\ d.run = db.run /\ d.job = db.job /\ d.inv = db.inv /\ d.order = db.order /\ d.item = db.item
          /\ d.failed = db.failed /\ d.ended = db.ended /\ d.written = db.written /\ d.chunk = db.chunk
      BY DEF Inv1, DbFits, Tables
    <2> HIDE DEF d
    <2> QED
      BY <2>2, <2>3, SameFits DEF Inv1, DbFits
  <1>3. DbFits(e) /\ Onward(db, e)
    <2> HIDE DEF d
    <2>1. DbFits(CreateSinkChunks(d)) /\ Onward(d, CreateSinkChunks(d))
      BY <1>2, CreateFits
    <2>2. /\ DbFits(EnqueueNextSinkWork(CreateSinkChunks(d)))
          /\ Onward(CreateSinkChunks(d), EnqueueNextSinkWork(CreateSinkChunks(d)))
      BY <2>1, NextSinkFits
    <2>3. DbFits(CompleteStep(db, h, handler[h].job)) /\ Onward(db, CompleteStep(db, h, handler[h].job))
      BY CompleteStepFits DEF Inv1
    <2> QED
      BY <1>2, <2>1, <2>2, <2>3, OnwardTrans
  <1> HIDE DEF e
  <1> QED
    BY <1>1, <1>3, <1>5, LeavesInv DEF Inv1

LEMMA StepCommitChunk ==
    ASSUME Inv1, Remembers, NEW h \in Handlers, CommitChunk(h)
    PROVE  Inv1'
  <1> DEFINE c == handler[h].job[2]
             s == IF db.width = 1 THEN Append(handler[h].state, c) ELSE <<>>
             n == db.written + 1
             d == [db EXCEPT !.chunk[c].status = "completed", !.written = n, !.state = s]
             e == EnqueueNextSinkWork(d)
  <1>1. /\ handler[h].pc = "commit" /\ handler[h].job[1] = "write" /\ Goto(h, "return")
        /\ db' = e /\ db.written < Len(db.chunk)
    BY DEF CommitChunk, At, Kind, Inv1, DbFits, Tables
  <1>2. handler[h].pc \in Work /\ "return" \in Leave
    BY <1>1 DEF Work, Leave
  <1>3. s \in Seq(Chunks)
    <2>1. handler[h].state \in Seq(Chunks) /\ c \in Chunks
      BY <1>1, <1>2, AtWork, JobParts DEF HandlerFits, Reads
    <2> HIDE DEF c
    <2> QED
      BY <2>1
  <1>4. DbFits(d) /\ Onward(db, d)
    <2>1. n \in Nat /\ n <= Len(db.chunk)
      BY <1>1 DEF Inv1, DbFits, Tables
    <2> HIDE DEF s, n
    <2> QED
      BY <1>3, <2>1, WithChunk DEF Inv1
  <1>5. DbFits(e) /\ Onward(d, e)
    <2> HIDE DEF d
    <2> QED
      BY <1>4, NextSinkFits
  <1> HIDE DEF d, e
  <1> QED
    BY <1>1, <1>2, <1>4, <1>5, OnwardTrans, LeavesInv DEF Inv1

LEMMA StepChunkRefused ==
    ASSUME Inv1, Remembers, NEW h \in Handlers, ChunkRefused(h)
    PROVE  Inv1'
  <1>1. handler[h].pc \in Work /\ Goto(h, "throw") /\ db' = db /\ "throw" \in Leave
    BY DEF ChunkRefused, At, Work, Leave
  <1> QED
    BY <1>1, AtWork, LeavesInv DEF Inv1

LEMMA StepCommitFinalize ==
    ASSUME Inv1, Remembers, NEW h \in Handlers, CommitFinalize(h)
    PROVE  Inv1'
  <1>1. /\ handler[h].pc \in Work /\ Goto(h, "return") /\ "return" \in Leave
        /\ db' = CompleteStep(db, h, handler[h].job) /\ UNCHANGED used
    BY DEF CommitFinalize, At, Work, Leave
  <1> QED
    BY <1>1, CompleteStepFits, LeavesInv DEF Inv1

-----------------------------------------------------------------------------
(* Settling, time and callers from outside.                                *)

LEMMA PendingFits ==
    ASSUME Inv1, NEW h \in Handlers, handler[h].pc \in Leave, OwnsJob(db, h, handler[h].job),
           NEW s \in {"pending", "parked"}
    PROVE  LET row == Pending(s, db.job[handler[h].job].attempt - 1)
           IN  row \in JobRow /\ JobFits(row) /\ row.status = s
  <1> DEFINE n == db.job[handler[h].job].attempt
  <1>1. handler[h].job \in JobIds
    BY DEF Inv1, HandlersFit, HandlerFits, Leave
  <1>2. n \in 0..MaxAttempts /\ n > 0
    BY <1>1 DEF Inv1, DbFits, Tables, JobRow, JobsFit, JobFits, OwnsJob
  <1>3. n - 1 \in 0..MaxAttempts /\ n - 1 < MaxAttempts
    <2> MaxAttempts \in Nat
      BY BatchAssumption
    <2> HIDE DEF n
    <2> QED
      BY <1>2
  <1> QED
    BY <1>3 DEF Pending, JobRow, JobFits, LiveStatuses

LEMMA StepJobComplete ==
    ASSUME Inv1, Remembers, NEW h \in Handlers, JobComplete(h)
    PROVE  Inv1'
  <1>1. handler[h].pc \in Leave /\ Settle(h, db, Job("completed"))
    BY DEF JobComplete, At, Leave
  <1> QED
    BY <1>1, JobFresh, OnwardRefl, Settles DEF Inv1

LEMMA StepJobFail ==
    ASSUME Inv1, Remembers, NEW h \in Handlers, JobFail(h)
    PROVE  Inv1'
  <1> DEFINE j == handler[h].job
             n == db.job[j].attempt
             last == n >= MaxAttempts
             d == IF last /\ j \in SinkJobs /\ OwnsJob(db, h, j) THEN FailStep(db, {j}) ELSE db
             row == IF last THEN Job("failed") ELSE Pending("pending", n)
  <1>1. handler[h].pc \in Leave /\ Settle(h, d, row)
    BY DEF JobFail, At, Leave
  <1>2. j \in JobIds
    BY <1>1 DEF Inv1, HandlersFit, HandlerFits, Leave
  <1>3. DbFits(d) /\ Onward(db, d)
    <2>1. OwnsJob(db, h, j) => \A k \in {j} \cap JobIds : db.job[k].status # "parked"
      BY DEF OwnsJob
    <2> HIDE DEF j
    <2> QED
      BY <2>1, FailStepFits, OnwardRefl DEF Inv1
  <1>4. row \in JobRow /\ JobFits(row) /\ row.status # "parked"
    <2>1. n \in 0..MaxAttempts /\ MaxAttempts \in Nat
      BY <1>2, BatchAssumption DEF Inv1, DbFits, Tables, JobRow
    <2> HIDE DEF n
    <2>2. ~last => Pending("pending", n) \in JobRow /\ JobFits(Pending("pending", n))
                    /\ Pending("pending", n).status = "pending"
      BY <2>1 DEF Pending, JobRow, JobFits, LiveStatuses
    <2> QED
      BY <2>2, JobFresh
  <1> HIDE DEF d, row
  <1> QED
    BY <1>1, <1>3, <1>4, Settles DEF Inv1

LEMMA StepJobDefer ==
    ASSUME Inv1, Remembers, NEW h \in Handlers, JobDefer(h)
    PROVE  Inv1'
  <1> DEFINE row == Pending("pending", db.job[handler[h].job].attempt - 1)
  <1>1. handler[h].pc \in Leave /\ Settle(h, db, row)
    BY DEF JobDefer, At, Leave
  <1>2. OwnsJob(db, h, handler[h].job) => row \in JobRow /\ JobFits(row) /\ row.status = "pending"
    BY <1>1, PendingFits
  <1> HIDE DEF row
  <1> QED
    BY <1>1, <1>2, OnwardRefl, Settles DEF Inv1

LEMMA StepJobPark ==
    ASSUME Inv1, Remembers, NEW h \in Handlers, JobPark(h)
    PROVE  Inv1'
  <1> DEFINE s == IF db.run = "paused" THEN "parked" ELSE "pending"
             row == Pending(s, db.job[handler[h].job].attempt - 1)
  <1>1. handler[h].pc \in Leave /\ Settle(h, db, row)
    BY DEF JobPark, At, Leave
  <1>2. s \in {"pending", "parked"} /\ (s = "parked" => db.run = "paused")
    OBVIOUS
  <1> HIDE DEF s
  <1>3. OwnsJob(db, h, handler[h].job) => row \in JobRow /\ JobFits(row) /\ row.status = s
    BY <1>1, <1>2, PendingFits
  <1> HIDE DEF row
  <1> QED
    BY <1>1, <1>2, <1>3, OnwardRefl, Settles DEF Inv1

LEMMA StepCrash ==
    ASSUME Inv1, Remembers, NEW h \in Handlers, Crash(h)
    PROVE  Inv1'
  <1>1. handler' = [handler EXCEPT ![h] = Idle] /\ db' = db
    BY DEF Crash
  <1>3. HandlerFits(Idle, db') /\ Idle.pc = "idle"
    BY DEF HandlerFits, HandlerRow, Columns, Idle, Reads, Members, Leave, Work, Settling
  <1>4. Grows(db, db')
    BY <1>1 DEF Grows
  <1>5. HandlersFit'
    BY <1>1, <1>3, <1>4, HandlerSteps DEF Inv1, Work
  <1> QED
    BY <1>1, <1>5 DEF Inv1

(* The sweep gives the lease of j back.                                    *)
LEMMA RequeuedFits ==
    ASSUME Inv1, NEW j \in JobIds, db.job[j].status = "running"
    PROVE  /\ DbFits(Requeued(j)) /\ Grows(db, Requeued(j))
           /\ \A k \in JobIds : k # j => Requeued(j).job[k] = db.job[k]
           /\ \A x \in DOMAIN db \ {"job"} : Requeued(j)[x] = db[x]
           /\ Requeued(j).job[j].status = "pending"
  <1> DEFINE row == [status |-> "pending", holder |-> NoHandler, attempt |-> db.job[j].attempt - 1]
             e == [db EXCEPT !.job[j] = row]
  <1>2. Requeued(j) = e
    BY DEF Requeued, Inv1, DbFits, Tables
  <1>3. row \in JobRow /\ JobFits(row)
    <2>1. db.job[j].attempt \in 0..MaxAttempts /\ db.job[j].attempt > 0
      BY DEF Inv1, DbFits, Tables, JobRow, JobsFit, JobFits
    <2>2. db.job[j].attempt - 1 \in 0..MaxAttempts /\ db.job[j].attempt - 1 < MaxAttempts
      <3> DEFINE n == db.job[j].attempt
      <3>1. n \in 0..MaxAttempts /\ n > 0 /\ MaxAttempts \in Nat
        BY <2>1, BatchAssumption
      <3> HIDE DEF n
      <3>2. n - 1 \in 0..MaxAttempts /\ n - 1 < MaxAttempts
        BY <3>1
      <3> QED
        BY <3>2 DEF n
    <2> QED
      BY <2>2 DEF JobRow, JobFits, LiveStatuses
  <1>4. row.status = "pending"
    OBVIOUS
  <1>5. j[1] = "item" => j[2] \in Known(db)
    BY DEF Inv1, DbFits, KnownFit
  <1> HIDE DEF row
  <1>6. /\ DbFits(e) /\ Grows(db, e) /\ e.job[j] = row
        /\ \A k \in JobIds : k # j => e.job[k] = db.job[k]
        /\ \A x \in DOMAIN db \ {"job"} : e[x] = db[x]
    BY <1>3, <1>4, <1>5, WithRow DEF Inv1
  <1> HIDE DEF e
  <1> QED
    BY <1>2, <1>4, <1>6

LEMMA StepLapse ==
    ASSUME Inv1, Remembers, NEW j \in JobIds, Lapse(j)
    PROVE  Inv1'
  <1>1. /\ db.job[j].status = "running" /\ handler[db.job[j].holder].job # j
        /\ handler' = handler /\ db' = Requeued(j)
    BY DEF Lapse
  <1>2. DbFits(db') /\ Grows(db, db') /\ \A k \in JobIds : k # j => db'.job[k] = db.job[k]
    BY <1>1, RequeuedFits
  <1>3. \A g \in Handlers : OwnsJob(db, g, handler[g].job) /\ ~At(g, "idle") => OwnsJob(db', g, handler[g].job)
    <2> SUFFICES ASSUME NEW g \in Handlers, OwnsJob(db, g, handler[g].job), ~At(g, "idle")
                 PROVE  OwnsJob(db', g, handler[g].job)
      OBVIOUS
    <2>1. handler[g].job \in JobIds
      BY DEF Inv1, HandlersFit, HandlerFits, At
    <2>2. handler[g].job # j
      BY <1>1 DEF OwnsJob
    <2> QED
      BY <1>2, <2>1, <2>2 DEF OwnsJob
  <1>4. HandlersFit'
    BY <1>1, <1>2, <1>3, OtherSteps DEF Inv1
  <1> QED
    BY <1>2, <1>4 DEF Inv1

(* A stall is not forgotten.                                               *)
LEMMA StallTold ==
    ASSUME UsedFits, NEW j, Stall(j)
    PROVE  ~Timely'
  <1>1. used' = Append(used, "stall") /\ used \in Seq(Told \cup {"fault"})
    BY DEF Stall, Spend, Told, UsedFits
  <1>2. Len(used) + 1 \in DOMAIN used' /\ used'[Len(used) + 1] = "stall"
    BY <1>1
  <1> QED
    BY <1>2 DEF Timely, Range

LEMMA StepStall ==
    ASSUME Inv1, UsedFits, Remembers, NEW j \in JobIds, Stall(j)
    PROVE  Inv1'
  <1>1. db.job[j].status = "running" /\ handler' = handler /\ db' = Requeued(j)
    BY DEF Stall
  <1>2. DbFits(db') /\ Grows(db, db')
    BY <1>1, RequeuedFits
  <1>3. ~Timely'
    BY StallTold
  <1>4. HandlersFit'
    BY <1>1, <1>2, <1>3, OtherSteps DEF Inv1
  <1> QED
    BY <1>2, <1>4 DEF Inv1

(* A transaction that nobody's lease is lost in.                           *)
LEMMA OutsideInv ==
    ASSUME Inv1, Remembers, handler' = handler, DbFits(db'), Onward(db, db')
    PROVE  Inv1'
  <1>1. \A g \in Handlers : OwnsJob(db, g, handler[g].job) /\ ~At(g, "idle")
                => OwnsJob(db', g, handler[g].job) \/ db'.run \in Over
    BY DEF Inv1, HandlersFit, HandlerFits, At, Onward
  <1> QED
    BY <1>1, OtherSteps DEF Inv1, Onward

LEMMA StepHandleExhausted ==
    ASSUME Inv1, Remembers, NEW j \in JobIds, HandleExhaustedJob(j)
    PROVE  Inv1'
  <1> DEFINE d == FailStep(db, {})
             e == [d EXCEPT !.job[j].status = "handled"]
             row == [d.job[j] EXCEPT !.status = "handled"]
  <1>1. db' = e /\ UNCHANGED <<handler, used>> /\ db.job[j].status = "failed"
    BY DEF HandleExhaustedJob
  <1>2. DbFits(d) /\ Onward(db, d)
    BY FailStepFits DEF Inv1
  <1>3. e = [d EXCEPT !.job[j] = row]
    OBVIOUS
  <1>4. row \in JobRow /\ JobFits(row) /\ row.status = "handled"
    <2>1. d.job[j] \in JobRow
      BY <1>2 DEF DbFits, Tables
    <2> QED
      BY <2>1 DEF JobRow, JobFits
  <1>5. j[1] = "item" => j[2] \in Known(d)
    BY <1>1, <1>2 DEF Inv1, DbFits, KnownFit, Onward, Grows
  <1> HIDE DEF d, row
  <1>6. /\ DbFits(e) /\ Grows(d, e) /\ \A k \in JobIds : k # j => e.job[k] = d.job[k]
        /\ e.run = d.run
    <2>1. "run" \in DOMAIN d
      BY <1>2 DEF DbFits, Tables
    <2> QED
      BY <1>2, <1>3, <1>4, <1>5, <2>1, WithRow
  <1> HIDE DEF e
  <1>7. ASSUME NEW g \in Handlers, OwnsJob(db, g, handler[g].job), ~At(g, "idle")
        PROVE  OwnsJob(e, g, handler[g].job) \/ e.run \in Over
    <2>1. handler[g].job \in JobIds
      BY <1>7 DEF Inv1, HandlersFit, HandlerFits, At
    <2>2. handler[g].job # j
      BY <1>1, <1>7 DEF OwnsJob
    <2>3. OwnsJob(d, g, handler[g].job) \/ d.run \in Over
      BY <1>2, <1>7, <2>1 DEF Onward
    <2> QED
      BY <1>6, <2>1, <2>2, <2>3 DEF OwnsJob
  <1>8. Grows(db, e)
    BY <1>2, <1>6 DEF Onward, Grows
  <1>9. HandlersFit'
    BY <1>1, <1>7, <1>8, OtherSteps DEF Inv1
  <1> QED
    BY <1>1, <1>6, <1>9 DEF Inv1

LEMMA StepWindowCloses ==
    ASSUME Inv1, Remembers, NEW v \in Invocations, WindowCloses(v)
    PROVE  Inv1'
  BY StatusFits, OutsideInv DEF WindowCloses, Inv1

LEMMA StepPause ==
    ASSUME Inv1, Remembers, PauseOperator
    PROVE  Inv1'
  <1> DEFINE e == [db EXCEPT !.run = "paused"]
  <1>1. db.run = "active" /\ db' = e /\ handler' = handler
    BY DEF PauseOperator
  <1>3. DbFits(e)
    BY WithRun DEF Inv1
  <1>4. e.run = "paused" /\ e.job = db.job /\ e.inv = db.inv /\ e.item = db.item
    BY DEF Inv1, DbFits, Tables
  <1> HIDE DEF e
  <1>5. Onward(db, e)
    BY <1>1, <1>4 DEF Onward, Grows, OwnsJob, Known, Over
  <1> QED
    BY <1>1, <1>3, <1>5, OutsideInv

LEMMA StepResume ==
    ASSUME Inv1, Remembers, ResumeOperator
    PROVE  Inv1'
  <1> DEFINE f == [j \in JobIds |-> IF db.job[j].status \in {"parked", "later"}
                                    THEN [db.job[j] EXCEPT !.status = "pending"] ELSE db.job[j]]
             d == [db EXCEPT !.job = f]
             e == [d EXCEPT !.run = "active"]
  <1>1. db.run = "paused" /\ UNCHANGED <<handler, used>> /\ db' = [db EXCEPT !.run = "active", !.job = f]
    BY DEF ResumeOperator
  <1>2. \A j \in JobIds : /\ f[j] \in JobRow /\ JobFits(f[j]) /\ f[j].status # "parked"
                          /\ db.job[j].status = "running" => f[j] = db.job[j]
                          /\ db.job[j].status = "absent" => f[j] = db.job[j]
    <2> SUFFICES ASSUME NEW j \in JobIds
                 PROVE  /\ f[j] \in JobRow /\ JobFits(f[j]) /\ f[j].status # "parked"
                        /\ db.job[j].status = "running" => f[j] = db.job[j]
                        /\ db.job[j].status = "absent" => f[j] = db.job[j]
      OBVIOUS
    <2>1. db.job[j] \in JobRow /\ JobFits(db.job[j])
      BY DEF Inv1, DbFits, Tables, JobsFit
    <2> QED
      BY <2>1 DEF JobRow, JobFits, LiveStatuses
  <1>3. f \in [JobIds -> JobRow]
    BY <1>2
  <1>4. \A j \in JobIds : j[1] = "item" /\ f[j].status # "absent" => j[2] \in Known(db)
    BY <1>2 DEF Inv1, DbFits, KnownFit
  <1> HIDE DEF f
  <1>5. DbFits(d)
    BY <1>2, <1>3, <1>4, WithJobs DEF Inv1
  <1>6. d.job = f /\ d.run = db.run /\ d.inv = db.inv /\ d.item = db.item
    BY DEF Inv1, DbFits, Tables
  <1>7. db' = e
    BY <1>1 DEF Inv1, DbFits, Tables
  <1> HIDE DEF d
  <1>8. DbFits(e)
    BY <1>2, <1>5, <1>6, WithRun
  <1>9. e.job = f /\ e.run = "active" /\ e.inv = db.inv /\ e.item = db.item
    BY <1>5, <1>6 DEF DbFits, Tables
  <1> HIDE DEF e
  <1>10. Onward(db, e)
    BY <1>1, <1>2, <1>9 DEF Onward, Grows, OwnsJob, Known, Over
  <1> QED
    BY <1>1, <1>7, <1>8, <1>10, OutsideInv DEF Inv1

LEMMA StepCancel ==
    ASSUME Inv1, Remembers, Cancel
    PROVE  Inv1'
  <1>1. db' = EndScope(db, "canceled", {}) /\ handler' = handler
    BY DEF Cancel
  <1>3. "canceled" \in Over
    BY DEF Over
  <1> QED
    BY <1>1, <1>3, EndScopeFits, OutsideInv DEF Inv1

-----------------------------------------------------------------------------
(* What holds of every batch.                                              *)

LEMMA InitFits ==
    ASSUME Init
    PROVE  Inv1
  <1> DEFINE row == [status |-> "absent", size |-> 0, closed |-> FALSE, member |-> [i \in Items |-> "absent"],
                     resume |-> [i \in Items |-> 0]]
             items == [i \in Items |-> "absent"]
             inv == [v \in Invocations |-> row]
             jobs == [j \in JobIds |-> Job("absent")]
             d == [run |-> "active", cursor |-> 0, snapshot |-> FALSE, done |-> FALSE, queued |-> FALSE,
                   order |-> <<>>, item |-> items, attempt |-> [i \in Items |-> 0],
                   rows |-> [i \in Items |-> {}], closed |-> [i \in Items |-> {}],
                   passed |-> [i \in Items |-> {}],
                   ended |-> 0, failed |-> 0, inv |-> inv,
                   width |-> 0, state |-> <<>>, chunk |-> <<>>, written |-> 0, job |-> jobs]
  <1>1. db = Enqueue(d, {<<"source", 1, 0>>}, "pending")
    BY DEF Init
  <1>2. row \in InvocationRow /\ Joined(row) = {} /\ row.size = 0 /\ row.status = "absent"
    BY DEF InvocationRow, Joined
  <1>3. InvocationFits(row)
    <2>1. 0 <= MaxItems /\ Cardinality({}) = 0
      BY BatchAssumption, FS_EmptySet
    <2> HIDE DEF row
    <2> QED
      BY <1>2, <2>1 DEF InvocationFits
  <1>4. d \in Tables
    <2>1. /\ inv \in [Invocations -> InvocationRow] /\ items \in [Items -> ItemStatuses]
          /\ jobs \in [JobIds -> JobRow]
      <3> HIDE DEF row
      <3> QED
        BY <1>2, JobFresh DEF ItemStatuses
    <2>2. 0 \in 0..Len(Pages) /\ <<>> \in Seq(Items) /\ <<>> \in Seq(Chunks) /\ <<>> \in Seq(ChunkRow)
      <3>1. Len(Pages) \in Nat
        BY BatchAssumption
      <3> QED
        BY <3>1, EmptySeq
    <2>3. [i \in Items |-> {}] \in [Items -> SUBSET Nat] /\ [i \in Items |-> 0] \in [Items -> Nat]
      OBVIOUS
    <2> HIDE DEF inv, items, jobs
    <2> QED
      BY <2>1, <2>2, <2>3 DEF Tables
  <1>5. /\ d.failed = 0 /\ d.ended = 0 /\ d.job = jobs /\ d.inv = inv /\ d.order = <<>> /\ d.item = items
        /\ d.written = 0 /\ d.chunk = <<>>
    OBVIOUS
  <1>6. \A v \in Invocations : d.inv[v] = row
    BY <1>5
  <1>7. /\ \A j \in JobIds : d.job[j] = Job("absent")
        /\ \A i \in Items : d.item[i] = "absent"
    BY <1>5
  <1> HIDE DEF d, row
  <1>8. DbFits(d)
    <2>1. JobsFit(d)
      BY <1>7, JobFresh DEF JobsFit
    <2>2. OrderFits(d)
      <3>1. DOMAIN <<>> = {} /\ Range(<<>>) = {}
        BY DEF Range
      <3> QED
        BY <1>5, <1>7, <3>1 DEF OrderFits
    <2>3. KnownFit(d)
      BY <1>2, <1>6, <1>7, JobFresh DEF KnownFit
    <2>4. d.written <= Len(d.chunk)
      BY <1>5
    <2> QED
      BY <1>3, <1>4, <1>5, <1>6, <2>1, <2>2, <2>3, <2>4 DEF DbFits
  <1>9. DbFits(db)
    <2>2. \A j \in {<<"source", 1, 0>>} \cap JobIds : j[1] # "item"
      OBVIOUS
    <2> QED
      BY <1>1, <1>8, <2>2, EnqueueFits
  <1>10. HandlersFit
    <2>1. handler = [h \in Handlers |-> Idle]
      BY DEF Init
    <2>2. HandlerFits(Idle, db) /\ Idle.pc = "idle"
      BY DEF HandlerFits, HandlerRow, Columns, Idle, Reads, Members, Leave, Work, Settling
    <2> QED
      BY <2>1, <2>2 DEF HandlersFit, Held, Apart, At, Work
  <1> QED
    BY <1>9, <1>10 DEF Inv1

(* The record of what went wrong grows, to its bound.                      *)
LEMMA SpendTold ==
    ASSUME UsedFits, NEW f, Spend(f)
    PROVE  UsedFits' /\ Remembers
  <1>1. PICK g \in Told \cup {"fault"} : used' = Append(used, g) /\ Len(used) < MaxFaults
    BY DEF Spend
  <1>2. used' \in Seq(Told \cup {"fault"}) /\ Len(used') = Len(used) + 1
        /\ \A n \in DOMAIN used : n \in DOMAIN used' /\ used'[n] = used[n]
    <2> HIDE DEF Told
    <2> QED
      BY <1>1 DEF UsedFits
  <1>3. UsedFits'
    <2> MaxFaults \in Nat /\ Len(used) \in Nat
      BY BatchAssumption DEF UsedFits
    <2> QED
      BY <1>1, <1>2 DEF UsedFits
  <1> QED
    BY <1>2, <1>3 DEF Remembers, Timely, Range

LEMMA NextTold ==
    ASSUME UsedFits, [Next]_vars
    PROVE  UsedFits' /\ Remembers
  <1>1. UNCHANGED used => UsedFits' /\ Remembers
    BY DEF UsedFits, Remembers, Timely
  <1>2. ASSUME NEW h \in Handlers, Handle(h)
        PROVE  UNCHANGED used
    <2>1. CASE BeginAttempt(h) \/ MarkInvocation(h) \/ MarkChunk(h) \/ Fenced(h) \/ InvokeAnswers(h)
      BY <2>1 DEF BeginAttempt, MarkInvocation, MarkChunk, Fenced, InvokeAnswers
    <2>2. CASE CommitInitialize(h) \/ CommitPage(h) \/ RetryItem(h) \/ CommitItem(h)
      BY <2>2 DEF CommitInitialize, CommitPage, RetryItem, CommitItem
    <2>3. CASE ApplyFailurePolicy(h) \/ ScheduleNext(h) \/ CountEnded(h) \/ QueueSink(h)
      BY <2>3 DEF ApplyFailurePolicy, ScheduleNext, CountEnded, QueueSink
    <2>4. CASE LookForInvocation(h) \/ CommitPark(h) \/ ParkRefused(h) \/ EnqueuePhysical(h)
      BY <2>4, Zenon DEF LookForInvocation, CommitPark, ParkRefused, EnqueuePhysical
    <2>5. CASE CommitOutcomes(h) \/ OutcomesRefused(h) \/ CompleteMember(h) \/ MembersDone(h)
      BY <2>5, Zenon DEF CommitOutcomes, OutcomesRefused, CompleteMember, MembersDone
    <2>6. CASE CommitStart(h) \/ CommitChunk(h) \/ ChunkRefused(h) \/ CommitFinalize(h)
      BY <2>6, Zenon DEF CommitStart, CommitChunk, ChunkRefused, CommitFinalize
    <2>7. CASE JobComplete(h) \/ JobFail(h) \/ JobDefer(h) \/ JobPark(h)
      BY <2>7, Zenon DEF JobComplete, JobFail, JobDefer, JobPark, Settle
    <2> QED
      BY <1>2, <2>1, <2>2, <2>3, <2>4, <2>5, <2>6, <2>7 DEF Handle
  <1>3. ASSUME NEW h \in Handlers, NEW j \in JobIds, Take(h, j)
        PROVE  UNCHANGED used
    BY <1>3, Zenon DEF Take, LoadContext, BeginSource, BeginItem, ReadMembers, BeginStart, BeginChunk,
       BeginFinalize
  <1>4. CASE Proceed
    <2>1. \A j \in JobIds : Lapse(j) \/ HandleExhaustedJob(j) => UNCHANGED used
      BY DEF Lapse, HandleExhaustedJob
    <2>2. \A v \in Invocations : WindowCloses(v) => UNCHANGED used
      BY DEF WindowCloses
    <2> QED
      BY <1>1, <1>2, <1>3, <1>4, <2>1, <2>2 DEF Proceed
  <1>5. ASSUME NEW h \in Handlers,
               Throttled(h) \/ InvokeFails(h) \/ DatabaseFails(h) \/ CommitLate(h) \/ Crash(h)
        PROVE  \E f : Spend(f)
    BY <1>5, Zenon DEF Throttled, InvokeFails, DatabaseFails, CommitLate, Crash
  <1>6. \A j \in JobIds : Stall(j) => \E f : Spend(f)
    BY Zenon DEF Stall
  <1>7. CASE PauseOperator \/ ResumeOperator \/ Cancel
    BY <1>1, <1>7, SpendTold DEF PauseOperator, ResumeOperator, Cancel
  <1>8. CASE UNCHANGED vars
    BY <1>1, <1>8 DEF vars
  <1> QED
    BY <1>4, <1>5, <1>6, <1>7, <1>8, SpendTold DEF Next

LEMMA NextFits ==
    ASSUME Inv1, UsedFits, [Next]_vars
    PROVE  Inv1'
  <1> Remembers
    BY NextTold
  <1>1. ASSUME NEW h \in Handlers, Handle(h)
        PROVE  Inv1'
    BY <1>1, StepBeginAttempt, StepMark, StepMarkChunk, StepFenced, StepInvokeAnswers,
       StepCommitInitialize, StepCommitPage, StepRetryItem, StepCommitItem, StepApplyFailurePolicy,
       StepScheduleNext, StepCountEnded, StepQueueSink, StepLookForInvocation, StepCommitPark,
       StepParkRefused, StepEnqueuePhysical, StepCommitOutcomes, StepOutcomesRefused,
       StepCompleteMember, StepMembersDone, StepCommitStart, StepCommitChunk, StepChunkRefused,
       StepCommitFinalize, StepJobComplete, StepJobFail, StepJobDefer, StepJobPark DEF Handle
  <1>2. ASSUME NEW h \in Handlers, NEW j \in JobIds, Claimable(h, j), Take(h, j)
        PROVE  Inv1'
    BY <1>2, TakeLoadContext, TakeSource, TakeItem, TakeMembers, TakeStart, TakeChunk,
       TakeFinalize DEF Take
  <1>3. CASE Proceed
    BY <1>1, <1>2, <1>3, StepLapse, StepHandleExhausted, StepWindowCloses DEF Proceed
  <1>4. CASE \E h \in Handlers : Throttled(h) \/ InvokeFails(h) \/ DatabaseFails(h)
                                \/ CommitLate(h) \/ Crash(h)
    BY <1>4, StepThrottled, StepInvokeFails, StepDatabaseFails, StepCommitLate, StepCrash
  <1>5. CASE \E j \in JobIds : Stall(j)
    BY <1>5, StepStall
  <1>6. CASE PauseOperator \/ ResumeOperator \/ Cancel
    BY <1>6, StepPause, StepResume, StepCancel
  <1>7. CASE UNCHANGED vars
    <2>1. db' = db /\ handler' = handler
      BY <1>7 DEF vars
    <2> QED
      BY <2>1, OnwardRefl, OutsideInv DEF Inv1
  <1> QED
    BY <1>3, <1>4, <1>5, <1>6, <1>7 DEF Next

(* The first layer is an invariant of a batch step.                        *)
THEOREM BatchFits == Spec => [](Inv1 /\ UsedFits)
  <1>1. Init => Inv1 /\ UsedFits
    <2>1. Init => UsedFits
      BY BatchAssumption DEF Init, UsedFits
    <2> QED
      BY <2>1, InitFits
  <1>2. Inv1 /\ UsedFits /\ [Next]_vars => Inv1' /\ UsedFits'
    BY NextFits, NextTold
  <1> QED
    BY <1>1, <1>2, PTL DEF Spec

(* The tables of a batch step keep their types, whatever fails and whoever *)
(* intervenes.                                                             *)
THEOREM BatchTypes == Spec => []TypeOK
  <1>1. Inv1 /\ UsedFits => TypeOK
    <2> SUFFICES ASSUME Inv1, UsedFits
                 PROVE  TypeOK
      OBVIOUS
    <2>1. db \in Tables /\ db.failed <= db.ended /\ db.written <= Len(db.chunk)
      BY DEF Inv1, DbFits
    <2>2. db.failed \in 0..db.ended /\ db.written \in 0..Len(db.chunk)
      BY <2>1 DEF Tables
    <2>3. db.chunk \in Seq(ChunkRow) /\ \A c \in DOMAIN db.chunk : db.chunk[c] \in ChunkRow
      <3>1. db.chunk \in Seq(ChunkRow)
        BY <2>1 DEF Tables
      <3> HIDE DEF ChunkRow
      <3> QED
        BY <3>1
    <2>4. db.inv \in [Invocations -> InvocationRow] /\ db.job \in [JobIds -> JobRow]
      BY <2>1 DEF Tables
    <2>5. db.item \in [Items -> ItemStatuses]
      BY <2>1 DEF Tables
    <2> QED
      BY <2>1, <2>2, <2>3, <2>4, <2>5 DEF Tables, TypeOK, UsedFits, InvocationRow, JobRow, ChunkRow,
         ItemStatuses
  <1> QED
    BY <1>1, BatchFits, PTL

(* A job is parked only while its run is paused: a resume that sees it     *)
(* wakes it, and a release that comes later sees the run active            *)
(* (resumeOperator, release).                                              *)
THEOREM ParkedOnlyWhilePaused == Spec => []ParkedWhilePaused
  <1>1. Inv1 => ParkedWhilePaused
    BY DEF Inv1, DbFits, JobsFit, ParkedWhilePaused
  <1> QED
    BY <1>1, BatchFits, PTL

(* An invocation holds no more members than its policy allows, and its     *)
(* counter is exact, whatever is delivered again (parkAtPhysicalStep).     *)
THEOREM InvocationsFit == Spec => []MembersFit
  <1>1. Inv1 => MembersFit
    BY DEF Inv1, DbFits, InvocationFits, Joined, MembersFit
  <1> QED
    BY <1>1, BatchFits, PTL

-----------------------------------------------------------------------------
(* The second layer: how a batch comes to its end.                         *)

Ended(d) == {i \in Items : d.item[i] \in EndedStatuses}
Failed(d) == {i \in Items : d.item[i] = "failed"}
Queued(d) == {j \in JobIds : d.job[j].status # "absent"}

Counted(d) == d.ended = Cardinality(Ended(d)) /\ d.failed = Cardinality(Failed(d))

(* The pages before p have been taken in.                                  *)
SeenBefore(d, p) == \A q \in 1..Len(Pages) : q < p => Range(Pages[q]) \subseteq Known(d)

(* Every item of the source is known and has ended.                        *)
Full(d) == Ended(d) = Items

(* The chunks cover the items in source order, each once.                  *)
Covered(d) ==
    \A n \in DOMAIN d.order : \E c \in DOMAIN d.chunk :
        /\ d.chunk[c].first <= n /\ n <= d.chunk[c].last
        /\ \A e \in DOMAIN d.chunk : e < c => d.chunk[e].last < n

(* What the jobs of the sink, in any status, say of the batch.             *)
SinkFits(d) ==
    /\ d.chunk # <<>> \/ Queued(d) \cap SinkJobs # {} \/ d.run = "completed" => Full(d)
    /\ d.chunk # <<>> => Covered(d)
    /\ \A c \in Chunks : <<"write", c, 0>> \in Queued(d) => c \in DOMAIN d.chunk
    /\ Finalize \in Queued(d) \/ (d.run = "completed" /\ 0 \notin Widths) => d.chunk # <<>> \/ Items = {}

WholeFits(d) ==
    /\ Counted(d)
    /\ d.cursor > 0 => SeenBefore(d, d.cursor)
    /\ d.done => SeenBefore(d, Len(Pages) + 1)
    /\ \A i \in Items : d.item[i] = "canceled" => d.run \in Over
    /\ SinkFits(d)

(* The cursor that a handler read is of a page whose predecessors are in,  *)
(* and one that is about to start the sink has found everything ended.     *)
Whole(r, d) ==
    /\ r.job \in Queued(d)
    /\ r.pc = "finalize" => Full(d)
    /\ r.pc \in {"invoke", "commit"} /\ r.job[1] = "source" /\ r.cursor > 0 => SeenBefore(d, r.cursor)

Inv2 == WholeFits(db) /\ \A h \in Handlers : ~At(h, "idle") => Whole(handler[h], db)

(* What no step undoes.                                                    *)
Keeps(d, e) ==
    /\ \A i \in Items : d.item[i] \in EndedStatuses => e.item[i] = d.item[i]
    /\ \A c \in DOMAIN d.chunk : /\ c \in DOMAIN e.chunk
                                 /\ d.chunk[c].status = "completed" => e.chunk[c].status = "completed"
    /\ Queued(d) \subseteq Queued(e) /\ Known(d) \subseteq Known(e)

-----------------------------------------------------------------------------
LEMMA KeepsRefl ==
    ASSUME NEW d
    PROVE  Keeps(d, d)
  BY DEF Keeps

LEMMA KeepsTrans ==
    ASSUME NEW d, NEW e, NEW f, Keeps(d, e), Keeps(e, f)
    PROVE  Keeps(d, f)
  BY DEF Keeps

LEMMA ItemsFinite ==
    ASSUME NEW S \in SUBSET Items
    PROVE  IsFiniteSet(S) /\ Cardinality(S) \in Nat /\ Cardinality(S) <= Cardinality(Items)
  BY BatchAssumption, FS_Subset, FS_CardinalityType

LEMMA KnownOrder ==
    ASSUME NEW d, DbFits(d)
    PROVE  /\ Known(d) = Range(d.order) /\ Ended(d) \subseteq Known(d)
           /\ Cardinality(Known(d)) = Len(d.order)
  <1>1. Range(d.order) \subseteq Items
    BY RangeOfSeq DEF DbFits, Tables
  <1>2. Known(d) = Range(d.order)
    BY <1>1 DEF DbFits, OrderFits, Known
  <1>3. Ended(d) \subseteq Known(d)
    BY DEF Ended, Known, EndedStatuses
  <1> QED
    BY <1>2, <1>3, OrderBound

(* A transaction that ends no item, discovers none and queues no new job.  *)
Still(d, e) ==
    /\ e.order = d.order /\ e.ended = d.ended /\ e.failed = d.failed
    /\ e.cursor = d.cursor /\ e.done = d.done
    /\ \A i \in Items : d.item[i] \in EndedStatuses \/ e.item[i] \in EndedStatuses => e.item[i] = d.item[i]
    /\ \A i \in Items : e.item[i] = "canceled" => e.run \in Over
    /\ \A j \in JobIds : e.job[j].status = "absent" <=> d.job[j].status = "absent"
    /\ DOMAIN e.chunk = DOMAIN d.chunk
    /\ \A c \in DOMAIN d.chunk : /\ e.chunk[c].first = d.chunk[c].first /\ e.chunk[c].last = d.chunk[c].last
                                 /\ d.chunk[c].status = "completed" => e.chunk[c].status = "completed"
    /\ e.run = "completed" => d.run = "completed"

LEMMA EmptyChunks ==
    ASSUME NEW d, DbFits(d)
    PROVE  d.chunk = <<>> <=> DOMAIN d.chunk = {}
  <1>1. d.chunk \in Seq(ChunkRow)
    BY DEF DbFits, Tables
  <1>2. Len(d.chunk) \in Nat /\ DOMAIN d.chunk = 1..Len(d.chunk)
    BY <1>1
  <1>3. d.chunk = <<>> <=> Len(d.chunk) = 0
    BY <1>1, EmptySeq
  <1> DEFINE n == Len(d.chunk)
  <1>4. n = 0 <=> 1..n = {}
    <2> n \in Nat
      BY <1>2
    <2> HIDE DEF n
    <2> QED
      OBVIOUS
  <1> QED
    BY <1>2, <1>3, <1>4

LEMMA StillWhole ==
    ASSUME NEW d, DbFits(d), WholeFits(d), NEW e, DbFits(e), Still(d, e)
    PROVE  WholeFits(e) /\ Keeps(d, e) /\ Ended(e) = Ended(d)
  <1>1. Ended(e) = Ended(d) /\ Failed(e) = Failed(d)
    BY DEF Still, Ended, Failed, EndedStatuses
  <1>2. Queued(e) = Queued(d)
    BY DEF Still, Queued
  <1>3. Known(e) = Known(d)
    BY KnownOrder DEF Still
  <1>4. Keeps(d, e)
    BY <1>2, <1>3 DEF Still, Keeps
  <1>5. Counted(e)
    BY <1>1 DEF WholeFits, Counted, Still
  <1>6. (e.chunk = <<>>) <=> (d.chunk = <<>>)
    BY EmptyChunks DEF Still
  <1>7. Covered(d) => Covered(e)
    BY DEF Covered, Still
  <1>8. SinkFits(e)
    BY <1>1, <1>2, <1>6, <1>7 DEF SinkFits, WholeFits, Still, Full
  <1>9. (e.cursor > 0 => SeenBefore(e, e.cursor)) /\ (e.done => SeenBefore(e, Len(Pages) + 1))
    BY <1>3 DEF WholeFits, Still, SeenBefore
  <1> QED
    BY <1>1, <1>2, <1>4, <1>5, <1>8, <1>9 DEF WholeFits, Still

(* What must hold before a job may be queued.                              *)
MayQueue(d, j) ==
    /\ j \in SinkJobs => Full(d)
    /\ j[1] = "write" => j[2] \in DOMAIN d.chunk
    /\ j = Finalize => d.chunk # <<>> \/ Items = {}

LEMMA EnqueueWhole ==
    ASSUME NEW d, DbFits(d), WholeFits(d), NEW S, NEW s \in {"pending", "later"},
           \A j \in S \cap JobIds : MayQueue(d, j)
    PROVE  LET e == Enqueue(d, S, s)
           IN  WholeFits(e) /\ Keeps(d, e) /\ Ended(e) = Ended(d)
  <1> DEFINE e == Enqueue(d, S, s)
  <1>1. \A x \in DOMAIN d \ {"job"} : e[x] = d[x]
    BY EnqueueJobs
  <1>2. /\ e.run = d.run /\ e.cursor = d.cursor /\ e.done = d.done /\ e.order = d.order /\ e.item = d.item
        /\ e.ended = d.ended /\ e.failed = d.failed /\ e.width = d.width /\ e.chunk = d.chunk
    BY <1>1 DEF DbFits, Tables
  <1>3. Queued(d) \subseteq Queued(e) /\ Queued(e) \subseteq Queued(d) \cup (S \cap JobIds)
    <2>1. \A j \in JobIds : LiveJob(d, j) => d.job[j].status # "absent"
      BY DEF LiveJob, LiveStatuses
    <2>2. Job(s).status # "absent"
      BY DEF Job
    <2>3. \A j \in JobIds : e.job[j] = d.job[j] \/ (j \in S /\ e.job[j] = Job(s))
      BY EnqueueJobs
    <2> HIDE DEF e
    <2> QED
      BY <2>1, <2>2, <2>3 DEF Queued
  <1> HIDE DEF e
  <1>4. Ended(e) = Ended(d) /\ Failed(e) = Failed(d) /\ Known(e) = Known(d)
    BY <1>2 DEF Ended, Failed, Known
  <1>5. Keeps(d, e)
    BY <1>2, <1>3, <1>4 DEF Keeps
  <1>6. Covered(d) => Covered(e)
    BY <1>2 DEF Covered
  <1>7. SinkFits(e)
    <2>1. e.chunk # <<>> \/ Queued(e) \cap SinkJobs # {} \/ e.run = "completed" => Full(e)
      BY <1>2, <1>3, <1>4 DEF WholeFits, SinkFits, MayQueue, Full
    <2>2. ASSUME NEW c \in Chunks, <<"write", c, 0>> \in Queued(e)
          PROVE  c \in DOMAIN e.chunk
      <3>1. CASE <<"write", c, 0>> \in Queued(d)
        BY <1>2, <3>1 DEF WholeFits, SinkFits
      <3>2. CASE <<"write", c, 0>> \in S \cap JobIds
        <4> DEFINE j == <<"write", c, 0>>
        <4>1. j[1] = "write" /\ j[2] = c
          OBVIOUS
        <4>2. MayQueue(d, j)
          BY <3>2
        <4> QED
          BY <1>2, <4>1, <4>2 DEF MayQueue
      <3> QED
        BY <1>3, <2>2, <3>1, <3>2
    <2>3. Finalize \in Queued(e) \/ (e.run = "completed" /\ 0 \notin Widths) => e.chunk # <<>> \/ Items = {}
      BY <1>2, <1>3 DEF WholeFits, SinkFits, MayQueue
    <2> QED
      BY <1>2, <1>6, <2>1, <2>2, <2>3 DEF WholeFits, SinkFits
  <1>9. WholeFits(e)
    BY <1>2, <1>4, <1>7 DEF WholeFits, Counted, SeenBefore
  <1> QED
    BY <1>4, <1>5, <1>9 DEF e

LEMMA CompleteItemWhole ==
    ASSUME NEW d, DbFits(d), WholeFits(d), NEW i \in Items, NEW s \in Answered, d.item[i] # "absent"
    PROVE  LET e == CompleteItem(d, i, s)
           IN  WholeFits(e) /\ Keeps(d, e) /\ Ended(e) \subseteq Ended(d) \cup {i}
  <1> DEFINE n == IF s = "failed" THEN d.failed + 1 ELSE d.failed
             items == [d.item EXCEPT ![i] = s]
             e == [d EXCEPT !.item = items, !.ended = d.ended + 1, !.failed = n]
  <1>1. CASE d.item[i] \in EndedStatuses \cup {"canceled"}
    BY <1>1, KeepsRefl DEF CompleteItem
  <1>2. CASE d.item[i] \notin EndedStatuses \cup {"canceled"}
    <2>1. CompleteItem(d, i, s) = e
      BY <1>2 DEF CompleteItem, DbFits, Tables
    <2>2. DbFits(e)
      BY <2>1, CompleteItemFits
    <2>3. /\ e.run = d.run /\ e.cursor = d.cursor /\ e.done = d.done /\ e.order = d.order /\ e.item = items
          /\ e.ended = d.ended + 1 /\ e.failed = n /\ e.width = d.width /\ e.chunk = d.chunk /\ e.job = d.job
      BY DEF DbFits, Tables
    <2>4. items[i] = s /\ \A k \in Items : k # i => items[k] = d.item[k]
      BY DEF DbFits, Tables
    <2> HIDE DEF e, items, n
    <2>5. Ended(e) = Ended(d) \cup {i} /\ i \notin Ended(d)
      BY <1>2, <2>3, <2>4 DEF Ended, EndedStatuses, Answered
    <2>6. Failed(e) = IF s = "failed" THEN Failed(d) \cup {i} ELSE Failed(d)
      BY <1>2, <2>3, <2>4 DEF Failed, EndedStatuses
    <2>7. Known(e) = Known(d) /\ Queued(e) = Queued(d)
      BY <2>3, <2>4 DEF Known, Queued, Answered
    <2>8. Counted(e)
      <3>1. e.ended = Cardinality(Ended(e))
        <4>1. IsFiniteSet(Ended(d))
          BY ItemsFinite DEF Ended
        <4>2. Cardinality(Ended(d) \cup {i}) = Cardinality(Ended(d)) + 1
          BY <2>5, <4>1, FS_AddElement
        <4> QED
          BY <2>3, <2>5, <4>2 DEF WholeFits, Counted
      <3>2. e.failed = Cardinality(Failed(e))
        <4>1. IsFiniteSet(Failed(d)) /\ i \notin Failed(d)
          <5>1. Failed(d) \in SUBSET Items
            BY DEF Failed
          <5> QED
            BY <1>2, <5>1, ItemsFinite DEF Failed, EndedStatuses
        <4>2. Cardinality(Failed(d) \cup {i}) = Cardinality(Failed(d)) + 1
          BY <4>1, FS_AddElement
        <4> QED
          BY <2>3, <2>6, <4>2 DEF WholeFits, Counted, n
      <3> QED
        BY <3>1, <3>2 DEF Counted
    <2>9. Keeps(d, e)
      BY <1>2, <2>3, <2>4, <2>7 DEF Keeps
    <2>10. Full(d) => Full(e)
      BY <2>5 DEF Full, Ended
    <2>11. SinkFits(e)
      <3>1. Covered(d) => Covered(e)
        BY <2>3 DEF Covered
      <3> QED
        BY <2>3, <2>7, <2>10, <3>1 DEF WholeFits, SinkFits
    <2>12. \A k \in Items : e.item[k] = "canceled" => e.run \in Over
      BY <2>3, <2>4 DEF WholeFits, Answered
    <2>13. WholeFits(e)
      BY <2>3, <2>7, <2>8, <2>11, <2>12 DEF WholeFits, SeenBefore
    <2> QED
      BY <2>1, <2>5, <2>9, <2>13
  <1> QED
    BY <1>1, <1>2

LEMMA EndScopeStill ==
    ASSUME NEW d, DbFits(d), NEW s \in Over, NEW keep
    PROVE  Still(d, EndScope(d, s, keep))
  <1> DEFINE f == [j \in JobIds |-> IF LiveJob(d, j) /\ j \notin keep
                                    THEN [d.job[j] EXCEPT !.status = "canceled", !.holder = NoHandler]
                                    ELSE d.job[j]]
             items == [i \in Items |-> IF d.item[i] \in BacklogStatuses THEN "canceled" ELSE d.item[i]]
             inv == [v \in Invocations |-> IF d.inv[v].status \in {"pending", "running"}
                                           THEN [d.inv[v] EXCEPT !.status = "canceled"] ELSE d.inv[v]]
             e == [d EXCEPT !.run = s, !.job = f, !.item = items, !.inv = inv]
  <1>1. EndScope(d, s, keep) = e
    BY Zenon DEF EndScope
  <1>2. /\ e.run = s /\ e.cursor = d.cursor /\ e.done = d.done /\ e.order = d.order /\ e.item = items
        /\ e.ended = d.ended /\ e.failed = d.failed /\ e.width = d.width /\ e.chunk = d.chunk /\ e.job = f
    <2> HIDE DEF items, f, inv
    <2> QED
      BY DEF DbFits, Tables
  <1>3. \A i \in Items : d.item[i] \in EndedStatuses \/ items[i] \in EndedStatuses => items[i] = d.item[i]
    BY DEF BacklogStatuses, EndedStatuses
  <1>4. \A j \in JobIds : f[j].status = "absent" <=> d.job[j].status = "absent"
    <2> SUFFICES ASSUME NEW j \in JobIds
                 PROVE  f[j].status = "absent" <=> d.job[j].status = "absent"
      OBVIOUS
    <2>1. d.job[j] \in JobRow
      BY DEF DbFits, Tables
    <2> QED
      BY <2>1 DEF JobRow, LiveJob, LiveStatuses
  <1> HIDE DEF e, items, f
  <1>5. Still(d, e)
    BY <1>2, <1>3, <1>4 DEF Still, Over
  <1> QED
    BY <1>1, <1>5

LEMMA FailStepStill ==
    ASSUME NEW d, DbFits(d), WholeFits(d), NEW keep
    PROVE  Still(d, FailStep(d, keep))
  <1>1. CASE d.run # "active"
    <2>1. FailStep(d, keep) = d
      BY <1>1 DEF FailStep
    <2> QED
      BY <2>1 DEF Still, WholeFits
  <1>2. CASE d.run = "active"
    <2> DEFINE e == EndScope(d, "failed", keep)
               resolved(m) == [i \in Items |-> IF m[i] = "pending" THEN "resolved" ELSE m[i]]
               inv == [v \in Invocations |-> [e.inv[v] EXCEPT !.member = resolved(e.inv[v].member)]]
               chunk == [c \in DOMAIN d.chunk |-> IF d.chunk[c].status \in {"pending", "running"}
                                                  THEN [d.chunk[c] EXCEPT !.status = "failed"] ELSE d.chunk[c]]
               g == [e EXCEPT !.inv = inv, !.closed = d.rows, !.chunk = chunk]
    <2>1. FailStep(d, keep) = g
      BY <1>2, Zenon DEF FailStep
    <2>2. Still(d, e)
      BY EndScopeStill DEF Over
    <2>3. \A c \in DOMAIN d.chunk : /\ chunk[c].first = d.chunk[c].first /\ chunk[c].last = d.chunk[c].last
                                    /\ d.chunk[c].status = "completed" => chunk[c].status = "completed"
      <3> SUFFICES ASSUME NEW c \in DOMAIN d.chunk
                   PROVE  /\ chunk[c].first = d.chunk[c].first /\ chunk[c].last = d.chunk[c].last
                          /\ d.chunk[c].status = "completed" => chunk[c].status = "completed"
        OBVIOUS
      <3>1. d.chunk \in Seq(ChunkRow)
        BY DEF DbFits, Tables
      <3>2. d.chunk[c] \in ChunkRow
        <4> HIDE DEF ChunkRow
        <4> QED
          BY <3>1
      <3> QED
        BY <3>2 DEF ChunkRow
    <2>4. DOMAIN chunk = DOMAIN d.chunk
      OBVIOUS
    <2>5. DOMAIN e = DOMAIN d
      BY DEF EndScope
    <2> HIDE DEF e, inv, chunk
    <2>6. /\ g.run = e.run /\ g.cursor = e.cursor /\ g.done = e.done /\ g.order = e.order /\ g.item = e.item
          /\ g.ended = e.ended /\ g.failed = e.failed /\ g.width = e.width /\ g.chunk = chunk /\ g.job = e.job
      BY <2>5 DEF DbFits, Tables
    <2> HIDE DEF g
    <2>7. Still(d, g)
      BY <2>2, <2>3, <2>4, <2>6 DEF Still
    <2> QED
      BY <2>1, <2>7
  <1> QED
    BY <1>1, <1>2

LEMMA FailStepWhole ==
    ASSUME NEW d, DbFits(d), WholeFits(d), NEW keep,
           \A j \in keep \cap JobIds : d.job[j].status # "parked"
    PROVE  LET e == FailStep(d, keep)
           IN  WholeFits(e) /\ Keeps(d, e) /\ Ended(e) = Ended(d)
  BY FailStepFits, FailStepStill, StillWhole

LEMMA ScheduleWhole ==
    ASSUME NEW d, DbFits(d), WholeFits(d)
    PROVE  LET e == ScheduleSourcePage(d)
           IN  WholeFits(e) /\ Keeps(d, e) /\ Ended(e) = Ended(d)
  <1> DEFINE S == {<<"source", d.cursor, 0>>}
             e == Enqueue(d, S, "pending")
             f == [e EXCEPT !.queued = TRUE]
  <1>1. CASE ScheduleSourcePage(d) = d
    BY <1>1, KeepsRefl
  <1>2. CASE ScheduleSourcePage(d) # d
    <2>1. ScheduleSourcePage(d) = f
      BY <1>2, Zenon DEF ScheduleSourcePage
    <2>2. DbFits(f)
      BY <2>1, ScheduleFits
    <2>3. \A j \in S \cap JobIds : MayQueue(d, j) /\ j[1] # "item"
      BY JobParts DEF MayQueue, Finalize
    <2> HIDE DEF S
    <2>4. DbFits(e) /\ WholeFits(e) /\ Keeps(d, e) /\ Ended(e) = Ended(d)
      BY <2>3, EnqueueWhole, EnqueueFits
    <2> HIDE DEF e
    <2>5. /\ f.run = e.run /\ f.cursor = e.cursor /\ f.done = e.done /\ f.order = e.order /\ f.item = e.item
          /\ f.ended = e.ended /\ f.failed = e.failed /\ f.width = e.width /\ f.chunk = e.chunk /\ f.job = e.job
      BY <2>4 DEF DbFits, Tables
    <2> HIDE DEF f
    <2>6. Still(e, f)
      BY <2>4, <2>5 DEF Still, WholeFits
    <2> QED
      BY <2>1, <2>2, <2>4, <2>6, StillWhole, KeepsTrans
  <1> QED
    BY <1>1, <1>2

(* The counters find the batch complete only when it is.                   *)
(* The counters and the pages say when everything has ended.               *)
LEMMA AllEnded ==
    ASSUME NEW d, DbFits(d), WholeFits(d), d.done, d.ended >= Len(d.order)
    PROVE  Full(d)
  <1>1. Ended(d) = Known(d)
    <2>1. IsFiniteSet(Known(d)) /\ Ended(d) \subseteq Known(d) /\ Cardinality(Known(d)) = Len(d.order)
      BY KnownOrder, ItemsFinite DEF Known
    <2>2. Cardinality(Ended(d)) >= Cardinality(Known(d))
      <3>1. d.ended = Cardinality(Ended(d)) /\ d.ended \in Nat /\ Len(d.order) \in Nat
        BY OrderBound DEF WholeFits, Counted, DbFits, Tables
      <3> QED
        BY <2>1, <3>1
    <2>3. /\ Cardinality(Ended(d)) <= Cardinality(Known(d))
          /\ Cardinality(Known(d)) = Cardinality(Ended(d)) => Known(d) = Ended(d)
      BY <2>1, FS_Subset
    <2>4. Cardinality(Ended(d)) \in Nat /\ Cardinality(Known(d)) \in Nat
      BY ItemsFinite DEF Ended, Known
    <2> QED
      BY <2>2, <2>3, <2>4
  <1>2. Known(d) = Items
    <2>1. \A p \in 1..Len(Pages) : Range(Pages[p]) \subseteq Known(d)
      <3>1. Len(Pages) \in Nat /\ SeenBefore(d, Len(Pages) + 1)
        BY PagesThere DEF WholeFits
      <3> QED
        BY <3>1 DEF SeenBefore
    <2>2. DOMAIN Pages = 1..Len(Pages)
      <3> DEFINE Sequences == Seq(Items)
      <3>1. Pages \in Seq(Sequences)
        BY Zenon, BatchAssumption
      <3> HIDE DEF Sequences
      <3> QED
        BY <3>1
    <2> QED
      BY <2>1, <2>2 DEF Items, Known
  <1> QED
    BY <1>1, <1>2 DEF Full

LEMMA FinalizeWhole ==
    ASSUME NEW d, DbFits(d), WholeFits(d), Full(d)
    PROVE  LET e == FinalizeIfComplete(d)
           IN  WholeFits(e) /\ Keeps(d, e) /\ Ended(e) = Ended(d)
  <1>1. CASE FinalizeIfComplete(d) = d
    BY <1>1, KeepsRefl
  <1>2. CASE FinalizeIfComplete(d) # d
    <2>1. FinalizeIfComplete(d) = Enqueue(d, {Start}, "pending")
      BY <1>2 DEF FinalizeIfComplete
    <2>2. \A j \in {Start} \cap JobIds : MayQueue(d, j)
      BY DEF MayQueue, Start, Finalize
    <2> QED
      BY <2>1, <2>2, EnqueueWhole
  <1> QED
    BY <1>1, <1>2

LEMMA CompleteStepWhole ==
    ASSUME NEW d, DbFits(d), WholeFits(d), NEW h, NEW j, Full(d),
           0 \notin Widths => d.chunk # <<>> \/ Items = {}
    PROVE  LET e == CompleteStep(d, h, j)
           IN  WholeFits(e) /\ Keeps(d, e) /\ Ended(e) = Ended(d)
  <1> DEFINE e == [d EXCEPT !.run = "completed"]
  <1>1. CASE ~(d.run = "active" /\ OwnsJob(d, h, j))
    BY <1>1, KeepsRefl DEF CompleteStep
  <1>2. CASE d.run = "active" /\ OwnsJob(d, h, j)
    <2>1. CompleteStep(d, h, j) = e
      BY <1>2 DEF CompleteStep
    <2>2. /\ e.run = "completed" /\ e.cursor = d.cursor /\ e.done = d.done /\ e.order = d.order
          /\ e.item = d.item /\ e.ended = d.ended /\ e.failed = d.failed /\ e.width = d.width
          /\ e.chunk = d.chunk /\ e.job = d.job
      BY DEF DbFits, Tables
    <2> HIDE DEF e
    <2>3. Ended(e) = Ended(d) /\ Failed(e) = Failed(d) /\ Known(e) = Known(d) /\ Queued(e) = Queued(d)
      BY <2>2 DEF Ended, Failed, Known, Queued
    <2>4. SinkFits(e)
      <3>1. Covered(d) => Covered(e)
        BY <2>2 DEF Covered
      <3> QED
        BY <2>2, <2>3, <3>1 DEF WholeFits, SinkFits, Full
    <2>5. \A i \in Items : e.item[i] # "canceled"
      BY <1>2, <2>2 DEF WholeFits, Over
    <2>6. WholeFits(e)
      BY <2>2, <2>3, <2>4, <2>5 DEF WholeFits, Counted, SeenBefore
    <2>7. Keeps(d, e)
      BY <2>2, <2>3 DEF Keeps
    <2> QED
      BY <2>1, <2>3, <2>6, <2>7
  <1> QED
    BY <1>1, <1>2

LEMMA NextSinkWhole ==
    ASSUME NEW d, DbFits(d), WholeFits(d), Full(d), d.chunk # <<>> \/ Items = {}
    PROVE  LET e == EnqueueNextSinkWork(d)
           IN  WholeFits(e) /\ Keeps(d, e) /\ Ended(e) = Ended(d)
  <1> DEFINE next == {c \in ChunksIn(d, "pending") :
                        Cardinality(ChunksIn(d, "running"))
                        + Cardinality({b \in ChunksIn(d, "pending") : b < c}) < d.width}
             S == {"write"} \X next \X {0}
  <1>1. next \subseteq DOMAIN d.chunk
    BY DEF ChunksIn
  <1>2. \A j \in S \cap JobIds : MayQueue(d, j)
    <2> HIDE DEF next
    <2> QED
      BY <1>1 DEF MayQueue, Finalize
  <1>3. \A j \in {Finalize} \cap JobIds : MayQueue(d, j)
    BY DEF MayQueue, Finalize
  <1>4. EnqueueNextSinkWork(d) \in {d, Enqueue(d, S, "pending"), Enqueue(d, {Finalize}, "pending")}
    BY DEF EnqueueNextSinkWork
  <1> HIDE DEF S
  <1> QED
    BY <1>2, <1>3, <1>4, EnqueueWhole, KeepsRefl

(* K at a time: n is in the slice after (n - 1) \div K full ones.          *)
LEMMA Slices ==
    ASSUME NEW N \in Nat, NEW K \in Nat \ {0}, NEW n \in 1..N,
           NEW count, count = (N + K - 1) \div K, NEW c, c = (n - 1) \div K + 1
    PROVE  /\ count \in Nat /\ c \in 1..count
           /\ (c - 1) * K + 1 <= n /\ n <= c * K
           /\ \A b \in 1..count : b < c => b * K < n /\ b # count
  <1>1. \A m \in Nat : /\ m \div K \in Nat /\ (m \div K) * K <= m
                       /\ m < (m \div K) * K + K
    OBVIOUS
  <1>2. n - 1 \in Nat /\ N + K - 1 \in Nat
    OBVIOUS
  <1> DEFINE q == (n - 1) \div K
  <1>3. q \in Nat /\ q * K <= n - 1 /\ n - 1 < q * K + K
    BY <1>1, <1>2
  <1>4. count \in Nat /\ N + K - 1 < count * K + K
    BY <1>1, <1>2
  <1>5. c = q + 1
    OBVIOUS
  <1> HIDE DEF q
  <1>6. q < count
    <2> SUFFICES ASSUME count <= q
                 PROVE  FALSE
      BY <1>3, <1>4
    <2>1. count * K <= q * K
      BY <1>3, <1>4
    <2>2. count * K \in Nat /\ q * K \in Nat
      BY <1>3, <1>4
    <2> QED
      BY <1>3, <1>4, <2>1, <2>2
  <1>7. (q + 1) * K = q * K + K /\ q * K \in Nat
    BY <1>3
  <1>8. ASSUME NEW b \in 1..count, b < c
        PROVE  b * K < n /\ b # count
    <2>1. b <= q /\ b \in Nat
      BY <1>3, <1>4, <1>5, <1>8
    <2>2. b * K <= q * K /\ b * K \in Nat
      BY <1>3, <2>1
    <2> QED
      BY <1>3, <1>4, <1>6, <1>7, <2>1, <2>2
  <1> QED
    BY <1>3, <1>4, <1>5, <1>6, <1>7, <1>8

LEMMA NthOfAll ==
    ASSUME NEW N \in Nat, NEW k \in 1..N
    PROVE  Nth(1..N, k) = k
  <1>1. IsFiniteSet(1..N) /\ Cardinality(1..N) = N /\ 1..N \in SUBSET Nat
    BY FS_Interval
  <1> DEFINE m == Nth(1..N, k)
  <1>2. m \in 1..N /\ Cardinality({x \in 1..N : x <= m}) = k
    BY <1>1, NthFits
  <1> HIDE DEF m
  <1>3. {x \in 1..N : x <= m} = 1..m
    BY <1>2
  <1>4. Cardinality(1..m) = m
    BY <1>2, FS_Interval
  <1> QED
    BY <1>2, <1>3, <1>4 DEF m

(* The chunks cover the batch.                                             *)
LEMMA CreateWhole ==
    ASSUME NEW d, DbFits(d), WholeFits(d), Full(d)
    PROVE  LET e == CreateSinkChunks(d)
           IN  /\ WholeFits(e) /\ Keeps(d, e) /\ Ended(e) = Ended(d)
               /\ e.chunk # <<>> \/ Items = {}
  <1> DEFINE ended == {n \in DOMAIN d.order : d.item[d.order[n]] \in EndedStatuses}
             size == Cardinality(ended)
             count == (size + ChunkSize - 1) \div ChunkSize
             chunk == [c \in 1..count |->
                        [status |-> "pending", first |-> Nth(ended, (c - 1) * ChunkSize + 1),
                         last |-> Nth(ended, IF c = count THEN size ELSE c * ChunkSize)]]
             e == [d EXCEPT !.chunk = chunk]
             N == Len(d.order)
  <1>1. CreateSinkChunks(d) = IF Len(d.chunk) > 0 THEN d ELSE e
    BY DEF CreateSinkChunks
  <1>2. CASE Len(d.chunk) > 0
    <2>1. d.chunk # <<>>
      BY <1>2, EmptySeq
    <2> QED
      BY <1>1, <1>2, <2>1, KeepsRefl
  <1>3. CASE ~(Len(d.chunk) > 0)
    <2>1. DOMAIN d.order = 1..N /\ N \in Nat /\ Known(d) = Items /\ Cardinality(Items) = N
      BY OrderBound, KnownOrder DEF Full, Known
    <2>2. ended = 1..N /\ size = N
      <3>1. \A n \in 1..N : d.order[n] \in Items
        <4>1. d.order \in Seq(Items)
          BY DEF DbFits, Tables
        <4> QED
          BY <4>1
      <3>2. ended = 1..N
        BY <2>1, <3>1 DEF Full, Ended
      <3> HIDE DEF ended
      <3> QED
        BY <2>1, <3>2, FS_Interval
    <2>3. DOMAIN d.chunk = {}
      <3>1. d.chunk \in Seq(ChunkRow)
        BY DEF DbFits, Tables
      <3>2. Len(d.chunk) = 0
        BY <1>3, <3>1
      <3> QED
        BY <3>1, <3>2
    <2>4. ChunkSize \in Nat \ {0}
      BY BatchAssumption
    <2>5. /\ e.run = d.run /\ e.cursor = d.cursor /\ e.done = d.done /\ e.order = d.order
          /\ e.item = d.item /\ e.ended = d.ended /\ e.failed = d.failed /\ e.width = d.width
          /\ e.chunk = chunk /\ e.job = d.job
      <3> HIDE DEF chunk
      <3> QED
        BY DEF DbFits, Tables
    <2>6. DOMAIN chunk = 1..count
      OBVIOUS
    <2>7. ASSUME NEW n \in 1..N
          PROVE  \E c \in 1..count :
                    /\ chunk[c].first <= n /\ n <= chunk[c].last
                    /\ \A b \in 1..count : b < c => chunk[b].last < n
      <3> DEFINE c == (n - 1) \div ChunkSize + 1
      <3> HIDE DEF ended, size
      <3>1. /\ count \in Nat /\ c \in 1..count
            /\ (c - 1) * ChunkSize + 1 <= n /\ n <= c * ChunkSize
            /\ \A b \in 1..count : b < c => b * ChunkSize < n /\ b # count
        <4>1. count = (N + ChunkSize - 1) \div ChunkSize
          BY <2>2
        <4> HIDE DEF count, N
        <4> QED
          BY <2>1, <2>4, <4>1, Slices
      <3> HIDE DEF count, c
      <3>2. chunk[c].first <= n
        <4>1. (c - 1) * ChunkSize + 1 \in 1..N
          <5>1. (c - 1) * ChunkSize \in Nat
            BY <2>4, <3>1
          <5> QED
            BY <2>1, <3>1, <5>1
        <4>2. chunk[c].first = Nth(1..N, (c - 1) * ChunkSize + 1)
          BY <2>2, <3>1
        <4>3. chunk[c].first = (c - 1) * ChunkSize + 1
          BY <2>1, <4>1, <4>2, NthOfAll
        <4> QED
          BY <3>1, <4>3
      <3>3. n <= chunk[c].last
        <4>1. CASE c = count
          <5>1. N \in 1..N
            BY <2>1
          <5>2. chunk[c].last = Nth(1..N, N)
            BY <2>2, <3>1, <4>1
          <5> QED
            BY <2>1, <5>1, <5>2, NthOfAll
        <4>2. CASE c # count
          <5>1. (c + 1) * ChunkSize <= count * ChunkSize /\ (c + 1) * ChunkSize = c * ChunkSize + ChunkSize
            BY <2>4, <3>1, <4>2
          <5>2. count * ChunkSize <= N + ChunkSize - 1
            <6>1. \A m \in Nat : m \div ChunkSize \in Nat /\ (m \div ChunkSize) * ChunkSize <= m
              BY <2>4
            <6>2. N + ChunkSize - 1 \in Nat
              BY <2>1, <2>4
            <6> QED
              BY <2>2, <6>1, <6>2 DEF count
          <5>3. c * ChunkSize \in 1..N
            <6>1. c * ChunkSize \in Nat /\ count * ChunkSize \in Nat
              BY <2>4, <3>1
            <6> QED
              BY <2>1, <2>4, <3>1, <5>1, <5>2, <6>1
          <5>4. chunk[c].last = Nth(1..N, c * ChunkSize)
            BY <2>2, <3>1, <4>2
          <5> QED
            BY <2>1, <3>1, <5>3, <5>4, NthOfAll
        <4> QED
          BY <4>1, <4>2
      <3>4. ASSUME NEW b \in 1..count, b < c
            PROVE  chunk[b].last < n
        <4>1. b * ChunkSize < n /\ b # count
          BY <3>1, <3>4
        <4>2. b * ChunkSize \in 1..N
          <5>1. b * ChunkSize \in Nat /\ b * ChunkSize >= 1
            BY <2>4, <3>1
          <5> QED
            BY <2>1, <4>1, <5>1
        <4>3. chunk[b].last = Nth(1..N, b * ChunkSize)
          BY <2>2, <4>1
        <4> QED
          BY <2>1, <4>1, <4>2, <4>3, NthOfAll
      <3> QED
        BY <3>1, <3>2, <3>3, <3>4
    <2>8. e.chunk # <<>> \/ Items = {}
      <3>1. CASE N = 0
        BY <2>1, <3>1, FS_EmptySet, BatchAssumption
      <3>2. CASE N > 0
        <4>1. 1 \in 1..N
          BY <2>1, <3>2
        <4>2. DOMAIN chunk # {}
          BY <2>6, <2>7, <4>1
        <4>3. DOMAIN <<>> = {}
          OBVIOUS
        <4> HIDE DEF e, chunk
        <4> QED
          BY <2>5, <4>2, <4>3
      <3> QED
        BY <2>1, <3>1, <3>2
    <2>9. Covered(e)
      <3> HIDE DEF e, chunk
      <3> QED
        BY <2>1, <2>5, <2>6, <2>7 DEF Covered
    <2> HIDE DEF e, chunk
    <2>10. Ended(e) = Ended(d) /\ Failed(e) = Failed(d) /\ Known(e) = Known(d) /\ Queued(e) = Queued(d)
      BY <2>5 DEF Ended, Failed, Known, Queued
    <2>11. SinkFits(e)
      BY <2>3, <2>5, <2>8, <2>9, <2>10 DEF WholeFits, SinkFits, Full
    <2>12. WholeFits(e)
      BY <2>5, <2>10, <2>11 DEF WholeFits, Counted, SeenBefore
    <2>13. Keeps(d, e)
      BY <2>3, <2>5, <2>10 DEF Keeps
    <2> QED
      BY <1>1, <1>3, <2>8, <2>10, <2>12, <2>13
  <1> QED
    BY <1>2, <1>3

LEMMA AcceptWhole ==
    ASSUME NEW d, DbFits(d), WholeFits(d), NEW p \in 1..Len(Pages), SeenBefore(d, p)
    PROVE  LET e == AcceptSourcePage(d, p)
           IN  WholeFits(e) /\ Keeps(d, e) /\ Ended(e) = Ended(d)
  <1>1. PICK f, S :
            /\ AcceptSourcePage(d, p) = Enqueue(f, S, "pending")
            /\ DbFits(f) /\ Onward(d, f)
            /\ \A j \in S \cap JobIds : j[1] = "source" \/ (j[1] = "item" /\ j[2] \in Known(f) /\ j[3] = 0)
            /\ f.run = d.run /\ f.job = d.job /\ f.ended = d.ended /\ f.failed = d.failed
            /\ f.width = d.width /\ f.state = d.state /\ f.chunk = d.chunk
            /\ f.cursor = (IF p = Len(Pages) THEN 0 ELSE p + 1) /\ f.done = (p = Len(Pages))
            /\ Known(f) = Known(d) \cup Range(Pages[p])
            /\ \A i \in Items : IF d.item[i] = "absent" THEN f.item[i] \in {"absent", "pending"}
                                                    ELSE f.item[i] = d.item[i]
            /\ Range(Pages[p]) \subseteq Known(d) => f.order = d.order
    BY PageTaken
  <1>2. Ended(f) = Ended(d) /\ Failed(f) = Failed(d) /\ Queued(f) = Queued(d)
    BY <1>1 DEF Ended, Failed, Queued, EndedStatuses
  <1>3. Keeps(d, f)
    BY <1>1, <1>2 DEF Keeps, EndedStatuses
  <1>4. Len(Pages) \in Nat
    BY BatchAssumption
  <1>5. SeenBefore(f, p + 1)
    <2> SUFFICES ASSUME NEW q \in 1..Len(Pages), q < p + 1
                 PROVE  Range(Pages[q]) \subseteq Known(f)
      BY DEF SeenBefore
    <2>1. q < p \/ q = p
      BY <1>4
    <2> QED
      BY <1>1, <2>1 DEF SeenBefore
  <1>6. Full(d) => f.order = d.order
    <2>1. Full(d) => Known(d) = Items
      BY KnownOrder DEF Full, Known
    <2>2. Known(f) \subseteq Items
      BY DEF Known
    <2> QED
      BY <1>1, <2>1, <2>2
  <1>7. Full(d) /\ Covered(d) => Covered(f)
    BY <1>1, <1>6 DEF Covered
  <1>8. SinkFits(f)
    BY <1>1, <1>2, <1>7 DEF WholeFits, SinkFits, Full
  <1>9. \A i \in Items : f.item[i] = "canceled" => f.run \in Over
    BY <1>1 DEF WholeFits
  <1>10. WholeFits(f)
    <2>1. (f.cursor > 0 => SeenBefore(f, f.cursor)) /\ (f.done => SeenBefore(f, Len(Pages) + 1))
      <3>1. CASE p = Len(Pages)
        <4>1. f.cursor = 0 /\ SeenBefore(f, Len(Pages) + 1)
          BY <1>1, <1>5, <3>1, Zenon
        <4> QED
          BY <4>1
      <3>2. CASE p # Len(Pages)
        <4>1. f.cursor = p + 1 /\ f.done = FALSE
          BY <1>1, <3>2
        <4>2. SeenBefore(f, f.cursor)
          BY <1>5, <4>1, Zenon
        <4> QED
          BY <4>1, <4>2
      <3> QED
        BY <3>1, <3>2
    <2> QED
      BY <1>1, <1>2, <1>8, <1>9, <2>1 DEF WholeFits, Counted
  <1>11. \A j \in S \cap JobIds : MayQueue(f, j)
    BY <1>1, JobParts DEF MayQueue, Finalize
  <1> QED
    BY <1>1, <1>2, <1>3, <1>10, <1>11, EnqueueWhole, KeepsTrans

-----------------------------------------------------------------------------
(* The handlers.                                                           *)

LEMMA WholeOn ==
    ASSUME NEW r, NEW d, NEW e, Whole(r, d), Keeps(d, e)
    PROVE  Whole(r, e)
  <1>1. Full(d) => Full(e)
    BY DEF Keeps, Full, Ended
  <1> QED
    BY <1>1 DEF Whole, Keeps, SeenBefore

LEMMA WholeSteps ==
    ASSUME Inv1, Inv2, NEW h \in Handlers, NEW r, handler' = [handler EXCEPT ![h] = r],
           WholeFits(db'), Keeps(db, db'), r.pc # "idle" => Whole(r, db')
    PROVE  Inv2'
  <1>1. /\ handler'[h] = r
        /\ \A g \in Handlers \ {h} : handler'[g] = handler[g]
    BY DEF Inv1, HandlersFit
  <1>2. ASSUME NEW g \in Handlers \ {h}, ~At(g, "idle")
        PROVE  Whole(handler[g], db')
    BY <1>2, WholeOn DEF Inv2
  <1> QED
    BY <1>1, <1>2 DEF Inv2, At

LEMMA WholeOutside ==
    ASSUME Inv1, Inv2, handler' = handler, WholeFits(db'), Keeps(db, db')
    PROVE  Inv2'
  <1>1. ASSUME NEW g \in Handlers, ~At(g, "idle")
        PROVE  Whole(handler[g], db')
    BY <1>1, WholeOn DEF Inv2
  <1> QED
    BY <1>1 DEF Inv2, At

LEMMA LeavesWhole ==
    ASSUME Inv1, Inv2, NEW h \in Handlers, handler[h].pc \in Work, NEW pc \in Leave, Goto(h, pc),
           WholeFits(db'), Keeps(db, db')
    PROVE  Inv2'
  <1> DEFINE j == handler[h].job
             r == [Idle EXCEPT !.pc = pc, !.job = j]
  <1>1. handler' = [handler EXCEPT ![h] = r]
    BY Zenon DEF Goto, Leave
  <1>2. Whole(handler[h], db)
    BY DEF Inv2, Work, At
  <1>3. r.pc = pc /\ r.job = handler[h].job
    BY DEF Idle
  <1> HIDE DEF r
  <1>4. Whole(r, db')
    BY <1>2, <1>3 DEF Whole, Keeps, Leave
  <1> QED
    BY <1>1, <1>4, WholeSteps

LEMMA AdvancesWhole ==
    ASSUME Inv1, Inv2, NEW h \in Handlers, handler[h].pc \in Work, NEW pc \in Work, Goto(h, pc),
           WholeFits(db'), Keeps(db, db'),
           pc \in {"invoke", "commit"} => handler[h].pc = "invoke" \/ handler[h].job[1] # "source",
           pc = "finalize" => Full(db')
    PROVE  Inv2'
  <1> DEFINE q == handler[h]
             r == [q EXCEPT !.pc = pc]
  <1>1. handler' = [handler EXCEPT ![h] = r]
    BY DEF Goto, Work
  <1>2. Whole(q, db) /\ HandlerRow(q)
    BY AtWork DEF Inv2, Work, At
  <1>3. r.pc = pc /\ r.job = q.job /\ r.cursor = q.cursor
    <2> HIDE DEF q
    <2> QED
      BY <1>2 DEF HandlerRow, Columns
  <1> HIDE DEF r
  <1>4. Whole(r, db')
    BY <1>2, <1>3 DEF Whole, Keeps, SeenBefore
  <1> QED
    BY <1>1, <1>4, WholeSteps

(* Other jobs, none of them new.                                           *)
LEMMA JobsStill ==
    ASSUME NEW d, DbFits(d), WholeFits(d), NEW e, DbFits(e),
           \A x \in DOMAIN d \ {"job"} : e[x] = d[x],
           \A j \in JobIds : e.job[j].status = "absent" <=> d.job[j].status = "absent"
    PROVE  WholeFits(e) /\ Keeps(d, e) /\ Ended(e) = Ended(d)
  <1>1. /\ e.run = d.run /\ e.cursor = d.cursor /\ e.done = d.done /\ e.order = d.order
        /\ e.item = d.item /\ e.ended = d.ended /\ e.failed = d.failed /\ e.width = d.width
        /\ e.chunk = d.chunk
    BY DEF DbFits, Tables
  <1>2. Still(d, e)
    BY <1>1 DEF Still, WholeFits
  <1> QED
    BY <1>2, StillWhole

LEMMA ClaimedWhole ==
    ASSUME Inv1, Inv2, NEW h \in Handlers, NEW j \in JobIds, Claimable(h, j)
    PROVE  LET c == Claimed(h, j)
           IN  /\ DbFits(c) /\ WholeFits(c) /\ Keeps(db, c) /\ Ended(c) = Ended(db)
               /\ \A x \in DOMAIN db \ {"job"} : c[x] = db[x]
               /\ j \in Queued(db)
  <1> DEFINE c == Claimed(h, j)
  <1>1. /\ DbFits(c) /\ \A x \in DOMAIN db \ {"job"} : c[x] = db[x]
        /\ \A k \in JobIds : k # j => c.job[k] = db.job[k]
        /\ c.job[j].status = "running" /\ db.job[j].status \in {"pending", "parked", "later"}
    BY ClaimedFits DEF Inv1
  <1> HIDE DEF c
  <1>2. WholeFits(c) /\ Keeps(db, c) /\ Ended(c) = Ended(db)
    BY <1>1, JobsStill DEF Inv1, Inv2
  <1>3. j \in Queued(db)
    BY <1>1 DEF Queued
  <1> QED
    BY <1>1, <1>2, <1>3 DEF c

LEMMA TakesWhole ==
    ASSUME Inv1, Inv2, NEW h \in Handlers, NEW j \in JobIds, Claimable(h, j),
           NEW d, WholeFits(d), Keeps(Claimed(h, j), d), db' = d,
           NEW r, handler' = [handler EXCEPT ![h] = r], r.job = j,
           r.pc = "invoke" /\ j[1] = "source" /\ r.cursor > 0 => SeenBefore(d, r.cursor),
           r.pc \notin {"commit", "finalize"}
    PROVE  Inv2' /\ Keeps(db, db')
  <1>1. Keeps(db, Claimed(h, j)) /\ j \in Queued(db)
    BY ClaimedWhole
  <1>2. Keeps(db, d)
    BY <1>1, KeepsTrans
  <1>3. Whole(r, d)
    BY <1>1, <1>2 DEF Whole, Keeps
  <1> QED
    BY <1>1, <1>2, <1>3, WholeSteps


-----------------------------------------------------------------------------
LEMMA WholeLoadContext ==
    ASSUME Inv1, Inv2, NEW h \in Handlers, NEW j \in JobIds, LoadContext(h, j)
    PROVE  Inv2' /\ Keeps(db, db')
  <1> DEFINE pc == IF db.run = "paused" THEN "park" ELSE "return"
             r == Enter(h, j, pc)
  <1>1. Claimable(h, j) /\ db' = Claimed(h, j) /\ handler' = [handler EXCEPT ![h] = r]
    BY DEF LoadContext
  <1>2. pc \in {"park", "return"}
    OBVIOUS
  <1>3. r.pc = pc /\ r.job = j
    BY EnterRow
  <1> HIDE DEF pc, r
  <1> QED
    BY <1>1, <1>2, <1>3, ClaimedWhole, KeepsRefl, TakesWhole

LEMMA WholeSource ==
    ASSUME Inv1, Inv2, NEW h \in Handlers, NEW j \in JobIds, BeginSource(h, j)
    PROVE  Inv2' /\ Keeps(db, db')
  <1> DEFINE pc == IF j[2] = 1 THEN "begin" ELSE "invoke"
             c == IF j[2] = 1 THEN 0 ELSE db.cursor
             q == Enter(h, j, pc)
             r == [q EXCEPT !.cursor = c]
             d == Claimed(h, j)
  <1>1. /\ j[1] = "source" /\ Claimable(h, j) /\ db' = d
        /\ handler' = [handler EXCEPT ![h] = r]
    BY Zenon DEF BeginSource, Loads
  <1>2. HandlerRow(q) /\ q.pc = pc /\ q.job = j
    BY EnterRow
  <1>3. pc \notin {"commit", "finalize"}
    OBVIOUS
  <1>4. WholeFits(d) /\ Keeps(d, d) /\ d.cursor = db.cursor
    <2>1. WholeFits(d) /\ \A x \in DOMAIN db \ {"job"} : d[x] = db[x]
      BY <1>1, ClaimedWhole
    <2> HIDE DEF d
    <2>2. d.cursor = db.cursor
      BY <2>1 DEF Inv1, DbFits, Tables
    <2> QED
      BY <2>1, <2>2, KeepsRefl
  <1>5. c > 0 => SeenBefore(d, c)
    <2>1. c = 0 \/ c = db.cursor
      OBVIOUS
    <2>2. db.cursor > 0 => SeenBefore(d, db.cursor)
      BY <1>4 DEF WholeFits
    <2> HIDE DEF c, d
    <2> QED
      BY <2>1, <2>2
  <1> HIDE DEF q, c, pc
  <1>6. r.pc = pc /\ r.job = j /\ r.cursor = c
    BY <1>2 DEF HandlerRow, Columns
  <1> HIDE DEF r, d
  <1> QED
    BY <1>1, <1>3, <1>4, <1>5, <1>6, TakesWhole DEF d

LEMMA WholeItem ==
    ASSUME Inv1, Inv2, NEW h \in Handlers, NEW j \in JobIds, BeginItem(h, j)
    PROVE  Inv2' /\ Keeps(db, db')
  <1> DEFINE i == j[2]
             n == ItemAttempt(j)
             runs == Open(db, i)
             c == Claimed(h, j)
             m == [c EXCEPT !.item[i] = "running", !.attempt[i] = n]
             e == IF runs THEN m ELSE c
             o == IF i \in Physical /\ db.passed[i] = {} THEN "suspended" ELSE "none"
             q == Enter(h, j, "invoke")
             r == IF runs THEN [q EXCEPT !.cursor = n, !.out = o] ELSE Enter(h, j, "return")
  <1>1. j[1] = "item" /\ Claimable(h, j)
    BY DEF BeginItem, Loads
  <1>2. handler' = [handler EXCEPT ![h] = r] /\ db' = e
    <2>1. /\ handler' = [handler EXCEPT ![h] = IF ~runs THEN Enter(h, j, "return")
                                               ELSE [q EXCEPT !.cursor = n, !.out = o]]
          /\ db' = e
      BY Zenon DEF BeginItem
    <2> HIDE DEF runs, q, n, o, e
    <2> QED
      BY <2>1
  <1>3. /\ DbFits(c) /\ WholeFits(c) /\ \A x \in DOMAIN db \ {"job"} : c[x] = db[x]
    BY <1>1, ClaimedWhole
  <1>4. i \in Known(c) /\ n \in Nat /\ c.item = db.item
    <2>1. c.item = db.item
      BY <1>3 DEF Inv1, DbFits, Tables
    <2>2. i \in Known(db)
      BY <1>1, ClaimedFits DEF Inv1
    <2> QED
      BY <1>1, <2>1, <2>2, AttemptFits DEF Inv1, Known
  <1>5. CASE runs
    <2>1. DbFits(m)
      <3> HIDE DEF c, n
      <3> QED
        BY <1>3, <1>4, WithItem DEF ItemStatuses, BacklogStatuses
    <2>2. Still(c, m)
      <3> DEFINE items == [c.item EXCEPT ![i] = "running"]
      <3>1. \A k \in Items : /\ c.item[k] \in EndedStatuses \/ items[k] \in EndedStatuses => items[k] = c.item[k]
                             /\ items[k] = "canceled" => c.item[k] = "canceled"
        BY <1>3, <1>4, <1>5 DEF DbFits, Tables, Open, BacklogStatuses, EndedStatuses
      <3> HIDE DEF c, n
      <3>2. /\ m.run = c.run /\ m.cursor = c.cursor /\ m.done = c.done /\ m.order = c.order /\ m.item = items
            /\ m.ended = c.ended /\ m.failed = c.failed /\ m.chunk = c.chunk /\ m.job = c.job
        BY <1>3 DEF DbFits, Tables
      <3> HIDE DEF m, items
      <3> QED
        BY <1>3, <3>1, <3>2 DEF Still, WholeFits
    <2> HIDE DEF c, m
    <2>3. WholeFits(m) /\ Keeps(c, m)
      BY <1>3, <2>1, <2>2, StillWhole
    <2>4. r.job = j /\ r.pc = "invoke"
      <3>1. HandlerRow(q) /\ q.pc = "invoke" /\ q.job = j
        BY EnterRow
      <3>2. r = [q EXCEPT !.cursor = n, !.out = o]
        BY <1>5
      <3> HIDE DEF q, o, r, n
      <3> QED
        BY <3>1, <3>2 DEF HandlerRow, Columns
    <2>5. db' = m
      BY <1>2, <1>5
    <2> HIDE DEF r, e, runs
    <2> QED
      BY <1>1, <1>2, <2>3, <2>4, <2>5, TakesWhole DEF c
  <1>6. CASE ~runs
    <2>1. db' = c /\ r = Enter(h, j, "return")
      BY <1>2, <1>6
    <2>2. r.job = j /\ r.pc = "return"
      <3> HIDE DEF r, q, o, runs
      <3> QED
        BY <2>1, EnterRow
    <2> HIDE DEF r, e, c, runs
    <2> QED
      BY <1>1, <1>2, <1>3, <2>1, <2>2, KeepsRefl, TakesWhole DEF c
  <1> QED
    BY <1>5, <1>6

LEMMA WholeMembers ==
    ASSUME Inv1, Inv2, NEW h \in Handlers, NEW j \in JobIds, ReadMembers(h, j)
    PROVE  Inv2' /\ Keeps(db, db')
  <1> DEFINE inv == db.inv[j[2]]
             members == {i \in Items : inv.member[i] = "pending"}
             over == inv.status \in {"completed", "canceled"} \/ members = {}
             q == Enter(h, j, "mark")
             r == IF over THEN Enter(h, j, "return")
                  ELSE [q EXCEPT !.items = [i \in members |-> db.attempt[i]]]
             c == Claimed(h, j)
  <1>1. j[1] = "physical" /\ Claimable(h, j) /\ db' = c /\ handler' = [handler EXCEPT ![h] = r]
    BY Zenon DEF ReadMembers, Loads
  <1>2. r.job = j /\ r.pc \in {"return", "mark"}
    <2> HIDE DEF over, members
    <2>1. HandlerRow(q) /\ q.pc = "mark" /\ q.job = j
      BY EnterRow
    <2> HIDE DEF q
    <2> QED
      BY <2>1, EnterRow DEF HandlerRow, Columns
  <1> HIDE DEF r, c
  <1>3. WholeFits(c) /\ Keeps(c, c)
    BY <1>1, ClaimedWhole, KeepsRefl DEF c
  <1> QED
    BY <1>1, <1>2, <1>3, TakesWhole DEF c

LEMMA WholeStart ==
    ASSUME Inv1, Inv2, NEW h \in Handlers, NEW j \in JobIds, BeginStart(h, j)
    PROVE  Inv2' /\ Keeps(db, db')
  <1> DEFINE c == Claimed(h, j)
             started == Len(db.chunk) > 0
             pc == IF started THEN "return" ELSE "invoke"
             e == IF started THEN EnqueueNextSinkWork(c) ELSE c
             r == Enter(h, j, pc)
  <1>1. /\ j[1] = "start" /\ Claimable(h, j) /\ db' = e /\ handler' = [handler EXCEPT ![h] = r]
    BY Zenon DEF BeginStart, Loads
  <1>2. DbFits(c) /\ WholeFits(c) /\ \A x \in DOMAIN db \ {"job"} : c[x] = db[x]
    BY <1>1, ClaimedWhole
  <1>3. started => c.chunk # <<>>
    <2>1. c.chunk = db.chunk
      BY <1>2 DEF Inv1, DbFits, Tables
    <2> HIDE DEF c
    <2> QED
      BY <2>1, EmptySeq
  <1>4. WholeFits(e) /\ Keeps(c, e)
    <2> HIDE DEF c
    <2>1. started => Full(c)
      BY <1>2, <1>3 DEF WholeFits, SinkFits
    <2> HIDE DEF started
    <2> QED
      BY <1>2, <1>3, <2>1, NextSinkWhole, KeepsRefl
  <1>5. r.pc = pc /\ r.job = j /\ pc \notin {"commit", "finalize"}
    BY EnterRow
  <1> HIDE DEF c, pc, e, r
  <1> QED
    BY <1>1, <1>4, <1>5, TakesWhole DEF c

(* The chunk of a write job, and that it makes the batch a full one.       *)
LEMMA ChunkThere ==
    ASSUME NEW d, DbFits(d), WholeFits(d), NEW j \in JobIds, j[1] = "write", j \in Queued(d)
    PROVE  j[2] \in DOMAIN d.chunk /\ d.chunk # <<>> /\ Full(d)
  <1>1. j[2] \in Chunks /\ j = <<"write", j[2], 0>>
    BY JobParts
  <1>2. j[2] \in DOMAIN d.chunk
    BY <1>1 DEF WholeFits, SinkFits
  <1>3. d.chunk # <<>>
    BY <1>2, EmptyChunks
  <1> QED
    BY <1>2, <1>3 DEF WholeFits, SinkFits

LEMMA WholeChunk ==
    ASSUME Inv1, Inv2, NEW h \in Handlers, NEW j \in JobIds, BeginChunk(h, j)
    PROVE  Inv2' /\ Keeps(db, db')
  <1> DEFINE c == Claimed(h, j)
             written == db.chunk[j[2]].status = "completed"
             e == IF written THEN EnqueueNextSinkWork(c) ELSE c
             q == Enter(h, j, "mark")
             r == IF written THEN Enter(h, j, "return") ELSE [q EXCEPT !.state = db.state]
  <1>1. /\ j[1] = "write" /\ Claimable(h, j)
        /\ db' = e /\ handler' = [handler EXCEPT ![h] = r]
    BY Zenon DEF BeginChunk, Loads
  <1>2. DbFits(c) /\ WholeFits(c) /\ j \in Queued(c)
    BY <1>1, ClaimedWhole DEF Keeps
  <1>3. c.chunk # <<>> /\ Full(c)
    BY <1>1, <1>2, ChunkThere
  <1>4. WholeFits(e) /\ Keeps(c, e)
    <2> HIDE DEF c, written
    <2> QED
      BY <1>2, <1>3, NextSinkWhole, KeepsRefl
  <1>5. r.job = j /\ r.pc \in {"return", "mark"}
    <2> HIDE DEF written
    <2>1. HandlerRow(q) /\ q.pc = "mark" /\ q.job = j
      BY EnterRow
    <2> HIDE DEF q
    <2> QED
      BY <2>1, EnterRow DEF HandlerRow, Columns
  <1> HIDE DEF c, r, e
  <1> QED
    BY <1>1, <1>4, <1>5, TakesWhole DEF c

LEMMA WholeFinalizeBegun ==
    ASSUME Inv1, Inv2, NEW h \in Handlers, NEW j \in JobIds, BeginFinalize(h, j)
    PROVE  Inv2' /\ Keeps(db, db')
  <1> DEFINE c == Claimed(h, j)
             q == Enter(h, j, "invoke")
             r == [q EXCEPT !.state = db.state]
  <1>1. /\ j[1] = "finalize" /\ Claimable(h, j) /\ db' = c /\ handler' = [handler EXCEPT ![h] = r]
    BY Zenon DEF BeginFinalize, Loads
  <1>2. HandlerRow(q) /\ q.pc = "invoke" /\ q.job = j
    BY EnterRow
  <1> HIDE DEF q
  <1>3. r.job = j /\ r.pc = "invoke"
    BY <1>2 DEF HandlerRow, Columns
  <1>4. WholeFits(c) /\ Keeps(c, c)
    BY <1>1, ClaimedWhole, KeepsRefl
  <1> HIDE DEF r, c
  <1> QED
    BY <1>1, <1>3, <1>4, TakesWhole DEF c

-----------------------------------------------------------------------------
LEMMA WorkWhole ==
    ASSUME Inv1, Inv2, NEW h \in Handlers, handler[h].pc \in Work
    PROVE  /\ Whole(handler[h], db) /\ handler[h].job \in JobIds /\ handler[h].job \in Queued(db)
           /\ WholeFits(db) /\ Keeps(db, db) /\ DbFits(db)
  <1>1. Whole(handler[h], db) /\ WholeFits(db)
    BY DEF Inv2, At, Work
  <1> QED
    BY <1>1, AtWork, KeepsRefl DEF Whole

(* The database stays as it is.                                            *)
LEMMA WholeLeft ==
    ASSUME Inv1, Inv2, NEW h \in Handlers, handler[h].pc \in Work, db' = db,
           NEW pc \in Leave, Goto(h, pc)
    PROVE  Inv2' /\ Keeps(db, db')
  BY WorkWhole, LeavesWhole

LEMMA WholeBeginAttempt ==
    ASSUME Inv1, Inv2, NEW h \in Handlers, BeginAttempt(h)
    PROVE  Inv2' /\ Keeps(db, db')
  <1>1. handler[h].pc = "begin" /\ db' = db
    BY DEF BeginAttempt, At
  <1>2. handler[h].pc \in Work
    BY <1>1 DEF Work
  <1>3. CASE db.run = "active" /\ OwnsJob(db, h, handler[h].job)
    <2> DEFINE q == handler[h]
               o == IF db.snapshot THEN "none" ELSE "initialize"
               r == [q EXCEPT !.cursor = db.cursor, !.pc = "invoke", !.out = o]
    <2>1. handler' = [handler EXCEPT ![h].cursor = db.cursor, ![h].pc = "invoke", ![h].out = o]
      BY <1>3 DEF BeginAttempt
    <2> HIDE DEF o
    <2>2. handler' = [handler EXCEPT ![h] = r]
      BY <1>2, <2>1, AtWork
    <2>3. HandlerRow(q) /\ Whole(q, db) /\ WholeFits(db) /\ Keeps(db, db)
      BY <1>1, <1>2, AtWork, WorkWhole
    <2> HIDE DEF q
    <2>4. r.pc = "invoke" /\ r.job = q.job /\ r.cursor = db.cursor
      BY <2>3 DEF HandlerRow, Columns
    <2> HIDE DEF r
    <2>5. Whole(r, db)
      BY <2>3, <2>4 DEF Whole, WholeFits
    <2> QED
      BY <1>1, <2>2, <2>3, <2>5, WholeSteps
  <1>4. CASE ~(db.run = "active" /\ OwnsJob(db, h, handler[h].job))
    <2>1. Goto(h, "return") /\ "return" \in Leave
      BY <1>4 DEF BeginAttempt, Leave
    <2> QED
      BY <1>1, <1>2, <2>1, WholeLeft
  <1> QED
    BY <1>3, <1>4

LEMMA WholeFenced ==
    ASSUME Inv1, Inv2, NEW h \in Handlers, Fenced(h)
    PROVE  Inv2' /\ Keeps(db, db')
  <1>1. handler[h].pc \in Work /\ Goto(h, "throw") /\ db' = db /\ "throw" \in Leave
    BY DEF Fenced, At, Work, Leave
  <1> QED
    BY <1>1, WholeLeft

(* An invocation that is marked, or open again.                            *)
LEMMA StatusWhole ==
    ASSUME NEW d, DbFits(d), WholeFits(d), NEW v \in Invocations,
           NEW s \in {"pending", "running", "completed", "failed", "canceled"}
    PROVE  LET e == [d EXCEPT !.inv[v].status = s]
           IN  WholeFits(e) /\ Keeps(d, e)
  <1> DEFINE inv == [d.inv EXCEPT ![v].status = s]
             e == [d EXCEPT !.inv = inv]
  <1>1. [d EXCEPT !.inv[v].status = s] = e
    OBVIOUS
  <1>2. DbFits(e)
    BY <1>1, StatusFits
  <1> HIDE DEF inv
  <1>3. Still(d, e)
    BY DEF Still, WholeFits, DbFits, Tables
  <1> HIDE DEF e
  <1> QED
    BY <1>1, <1>2, <1>3, StillWhole

LEMMA ReopenedWhole ==
    ASSUME Inv1, Inv2, NEW h \in Handlers, handler[h].pc \in Work, handler[h].job[1] = "physical"
    PROVE  WholeFits(Reopened(h)) /\ Keeps(db, Reopened(h))
  <1> DEFINE j == handler[h].job
             s == IF handler[h].attempt >= MaxAttempts THEN "failed" ELSE "pending"
             e == [db EXCEPT !.inv[j[2]].status = s]
  <1>1. j[2] \in Invocations
    BY AtWork, JobParts
  <1>2. s \in {"failed", "pending"}
    OBVIOUS
  <1>3. Reopened(h) = e
    BY Zenon DEF Reopened
  <1>4. WholeFits(e) /\ Keeps(db, e)
    <2> HIDE DEF s, j
    <2> QED
      BY <1>1, <1>2, StatusWhole DEF Inv1, Inv2
  <1> HIDE DEF e
  <1> QED
    BY <1>3, <1>4

LEMMA WholeThrottled ==
    ASSUME Inv1, Inv2, NEW h \in Handlers, Throttled(h)
    PROVE  Inv2' /\ Keeps(db, db')
  <1>1. handler[h].pc \in Work /\ Goto(h, "defer") /\ db' = db /\ "defer" \in Leave
    BY DEF Throttled, At, Work, Leave
  <1> QED
    BY <1>1, WholeLeft

LEMMA WholeMark ==
    ASSUME Inv1, Inv2, NEW h \in Handlers, MarkInvocation(h)
    PROVE  Inv2' /\ Keeps(db, db')
  <1> DEFINE q == handler[h]
             v == q.job[2]
             open == db.inv[v].status \in {"pending", "running"}
             e == [db EXCEPT !.inv[v].status = "running"]
  <1>1. /\ q.pc = "mark" /\ q.job[1] = "physical" /\ db' = IF open THEN e ELSE db
        /\ Goto(h, IF open THEN "invoke" ELSE "throw")
    BY Zenon DEF MarkInvocation, At, Kind
  <1>2. q.pc \in Work /\ "invoke" \in Work /\ "throw" \in Leave
    BY <1>1 DEF Work, Leave
  <1>3. q.job[1] = "physical" /\ v \in Invocations /\ DbFits(db) /\ WholeFits(db)
    BY <1>1, <1>2, AtWork, WorkWhole, JobParts 
  <1>4. WholeFits(e) /\ Keeps(db, e)
    <2> HIDE DEF v
    <2> QED
      BY <1>3, StatusWhole
  <1> HIDE DEF e
  <1>5. CASE open
    <2>1. db' = e /\ Goto(h, "invoke")
      BY <1>1, <1>5
    <2> QED
      BY <1>2, <1>3, <1>4, <2>1, AdvancesWhole
  <1>6. CASE ~open
    <2>1. db' = db /\ Goto(h, "throw")
      BY <1>1, <1>6
    <2> QED
      BY <1>2, <2>1, WholeLeft
  <1> QED
    BY <1>5, <1>6

(* A chunk that is open gets another status.                               *)
LEMMA ChunkWhole ==
    ASSUME NEW d, DbFits(d), WholeFits(d), NEW c \in Nat, d.chunk[c].status # "completed",
           NEW e, DbFits(e), NEW s, e.chunk = [d.chunk EXCEPT ![c].status = s],
           \A x \in DOMAIN d \ {"chunk", "written", "state", "width"} : e[x] = d[x]
    PROVE  WholeFits(e) /\ Keeps(d, e)
  <1>1. \A b \in DOMAIN d.chunk : d.chunk[b] \in ChunkRow
    <2>1. d.chunk \in Seq(ChunkRow)
      BY DEF DbFits, Tables
    <2> HIDE DEF ChunkRow
    <2> QED
      BY <2>1
  <1>2. /\ DOMAIN e.chunk = DOMAIN d.chunk
        /\ \A b \in DOMAIN d.chunk : /\ e.chunk[b].first = d.chunk[b].first /\ e.chunk[b].last = d.chunk[b].last
                                     /\ d.chunk[b].status = "completed" => e.chunk[b].status = "completed"
    BY <1>1 DEF ChunkRow
  <1>3. /\ e.run = d.run /\ e.cursor = d.cursor /\ e.done = d.done /\ e.order = d.order /\ e.item = d.item
        /\ e.ended = d.ended /\ e.failed = d.failed /\ e.job = d.job
    BY DEF DbFits, Tables
  <1>4. Still(d, e)
    BY <1>2, <1>3 DEF Still, WholeFits
  <1> QED
    BY <1>4, StillWhole

LEMMA WholeMarkChunk ==
    ASSUME Inv1, Inv2, NEW h \in Handlers, MarkChunk(h)
    PROVE  Inv2' /\ Keeps(db, db')
  <1> DEFINE q == handler[h]
             c == q.job[2]
             open == db.chunk[c].status \in {"pending", "running"}
             e == [db EXCEPT !.chunk[c].status = "running"]
  <1>1. /\ q.pc = "mark" /\ q.job[1] = "write" /\ db' = IF open THEN e ELSE db
        /\ Goto(h, IF open THEN "invoke" ELSE "throw")
    BY Zenon DEF MarkChunk, At, Kind
  <1>2. q.pc \in Work /\ "invoke" \in Work /\ "throw" \in Leave
    BY <1>1 DEF Work, Leave
  <1>3. c \in Chunks /\ DbFits(db) /\ WholeFits(db)
    BY <1>1, <1>2, AtWork, WorkWhole, JobParts
  <1>4. CASE open
    <2>1. DbFits(e)
      <3>1. <<>> \in Seq(Chunks) /\ 0 \in Nat /\ 0 <= Len(db.chunk)
        BY EmptySeq DEF Inv1, DbFits, Tables
      <3> HIDE DEF c
      <3> QED
        BY <1>3, <3>1, WithChunk
    <2>2. /\ e.chunk = [db.chunk EXCEPT ![c].status = "running"]
          /\ \A x \in DOMAIN db \ {"chunk", "written", "state", "width"} : e[x] = db[x]
      <3> HIDE DEF c
      <3> QED
        BY <1>3 DEF DbFits, Tables
    <2>3. c \in Nat /\ db.chunk[c].status # "completed"
      BY <1>3, <1>4 DEF Chunks
    <2> HIDE DEF e, c
    <2>4. WholeFits(e) /\ Keeps(db, e)
      BY <1>3, <2>1, <2>2, <2>3, ChunkWhole
    <2>5. db' = e /\ Goto(h, "invoke")
      BY <1>1, <1>4 DEF c, e
    <2> QED
      BY <1>1, <1>2, <2>4, <2>5, AdvancesWhole
  <1>5. CASE ~open
    <2>1. db' = db /\ Goto(h, "throw")
      BY <1>1, <1>5
    <2> QED
      BY <1>2, <2>1, WholeLeft
  <1> QED
    BY <1>4, <1>5

LEMMA WholeInvokeFails ==
    ASSUME Inv1, Inv2, NEW h \in Handlers, InvokeFails(h)
    PROVE  Inv2' /\ Keeps(db, db')
  <1>1. /\ handler[h].pc \in Work /\ Goto(h, "throw") /\ "throw" \in Leave
        /\ db' = IF Kind(h) = "physical" THEN Reopened(h) ELSE db
    BY DEF InvokeFails, Answers, At, Work, Leave
  <1>2. WholeFits(db') /\ Keeps(db, db')
    BY <1>1, WorkWhole, ReopenedWhole DEF Kind
  <1> QED
    BY <1>1, <1>2, LeavesWhole

LEMMA WholeDatabaseFails ==
    ASSUME Inv1, Inv2, NEW h \in Handlers, DatabaseFails(h)
    PROVE  Inv2' /\ Keeps(db, db')
  <1>1. /\ handler[h].pc \in Work /\ Goto(h, "throw") /\ "throw" \in Leave
        /\ db' = IF Kind(h) = "physical" /\ ~At(h, "mark") THEN Reopened(h) ELSE db
    BY DEF DatabaseFails, Work, Leave
  <1>2. WholeFits(db') /\ Keeps(db, db')
    BY <1>1, WorkWhole, ReopenedWhole DEF Kind
  <1> QED
    BY <1>1, <1>2, LeavesWhole

LEMMA WholeInvokeAnswers ==
    ASSUME Inv1, Inv2, NEW h \in Handlers, InvokeAnswers(h)
    PROVE  Inv2' /\ Keeps(db, db')
  <1> DEFINE q == handler[h]
  <1>1. q.pc = "invoke" /\ db' = db
    BY DEF InvokeAnswers, Answers, At
  <1>2. q.pc \in Work /\ "commit" \in Work
    BY <1>1 DEF Work
  <1>3. /\ HandlerRow(q) /\ Whole(q, db) /\ WholeFits(db) /\ Keeps(db, db)
        /\ handler = [g \in Handlers |-> handler[g]]
    BY <1>2, AtWork, WorkWhole
  <1>4. CASE \E o : handler' = [handler EXCEPT ![h].pc = "commit", ![h].out = o]
    <2>1. PICK o : handler' = [handler EXCEPT ![h].pc = "commit", ![h].out = o]
      BY <1>4
    <2> DEFINE r == [q EXCEPT !.pc = "commit", !.out = o]
    <2>2. handler' = [handler EXCEPT ![h] = r]
      BY <1>3, <2>1
    <2> HIDE DEF q
    <2>3. r.pc = "commit" /\ r.job = q.job /\ r.cursor = q.cursor
      BY <1>3 DEF HandlerRow, Columns
    <2> HIDE DEF r
    <2>4. Whole(r, db)
      BY <1>1, <1>3, <2>3 DEF Whole
    <2> QED
      BY <1>1, <1>3, <2>2, <2>4, WholeSteps
  <1>5. CASE Goto(h, "commit")
    BY <1>1, <1>2, <1>3, <1>5, AdvancesWhole
  <1> QED
    BY <1>4, <1>5 DEF InvokeAnswers

LEMMA WholeCommitInitialize ==
    ASSUME Inv1, Inv2, Remembers, NEW h \in Handlers, CommitInitialize(h)
    PROVE  Inv2' /\ Keeps(db, db')
  <1> DEFINE q == handler[h]
             r == [q EXCEPT !.pc = "invoke", !.cursor = 0, !.out = "none"]
             e == [db EXCEPT !.snapshot = TRUE, !.cursor = 0, !.queued = FALSE]
  <1>1. /\ q.pc = "commit" /\ db' = e
        /\ handler' = [handler EXCEPT ![h].pc = "invoke", ![h].cursor = 0, ![h].out = "none"]
    BY DEF CommitInitialize, At
  <1>2. q.pc \in Work
    BY <1>1 DEF Work
  <1>3. /\ HandlerRow(q) /\ Whole(q, db) /\ DbFits(db) /\ WholeFits(db)
        /\ handler = [g \in Handlers |-> handler[g]]
    BY <1>2, AtWork, WorkWhole
  <1>4. handler' = [handler EXCEPT ![h] = r]
    BY <1>1, <1>3
  <1>5. /\ e.run = db.run /\ e.job = db.job /\ e.order = db.order /\ e.item = db.item /\ e.cursor = 0
        /\ e.failed = db.failed /\ e.ended = db.ended /\ e.done = db.done /\ e.chunk = db.chunk
    BY DEF Inv1, DbFits, Tables
  <1> HIDE DEF e
  <1>6. Known(e) = Known(db) /\ Ended(e) = Ended(db) /\ Failed(e) = Failed(db) /\ Queued(e) = Queued(db)
    BY <1>5 DEF Known, Ended, Failed, Queued
  <1>7. WholeFits(e) /\ Keeps(db, e)
    <2>1. SinkFits(e)
      BY <1>3, <1>5, <1>6 DEF WholeFits, SinkFits, Full, Covered
    <2>2. SeenBefore(db, Len(Pages) + 1) => SeenBefore(e, Len(Pages) + 1)
      BY <1>6 DEF SeenBefore
    <2> QED
      BY <1>3, <1>5, <1>6, <2>1, <2>2 DEF WholeFits, Counted, Keeps
  <1>8. r.pc = "invoke" /\ r.job = q.job /\ r.cursor = 0
    <2> HIDE DEF q
    <2> QED
      BY <1>3 DEF HandlerRow, Columns
  <1> HIDE DEF r
  <1>9. Whole(r, e)
    BY <1>3, <1>6, <1>8 DEF Whole
  <1> QED
    BY <1>1, <1>4, <1>7, <1>9, WholeSteps

LEMMA WholeCommitPage ==
    ASSUME Inv1, Inv2, NEW h \in Handlers, CommitPage(h)
    PROVE  Inv2' /\ Keeps(db, db')
  <1> DEFINE q == handler[h]
             p == IF handler[h].cursor = 0 THEN 1 ELSE handler[h].cursor
             pc == IF p = Len(Pages) THEN "count" ELSE "return"
             e == AcceptSourcePage(db, p)
  <1>1. q.pc = "commit" /\ q.job[1] = "source" /\ db' = e /\ Goto(h, pc)
    BY DEF CommitPage, At, Kind
  <1>2. q.pc \in Work
    BY <1>1 DEF Work
  <1>3. HandlerFits(q, db) /\ q.job \in JobIds /\ Whole(q, db) /\ WholeFits(db)
    BY <1>2, AtWork, WorkWhole
  <1>4. q.cursor \in 0..Len(Pages) /\ Len(Pages) \in Nat /\ 1 \in 1..Len(Pages)
    <2>1. q.cursor \in 0..Len(Pages)
      BY <1>1, <1>3 DEF HandlerFits, Reads
    <2>2. Len(Pages) \in Nat \ {0}
      BY PagesThere
    <2> QED
      BY <2>1, <2>2
  <1>5. p \in 1..Len(Pages) /\ SeenBefore(db, p)
    <2>1. CASE q.cursor = 0
      BY <1>4, <2>1 DEF SeenBefore
    <2>2. CASE q.cursor # 0
      <3>1. p = q.cursor /\ q.cursor > 0 /\ q.cursor \in 1..Len(Pages)
        BY <1>4, <2>2
      <3>2. SeenBefore(db, q.cursor)
        BY <1>1, <1>3, <3>1 DEF Whole
      <3> HIDE DEF p, q
      <3> QED
        BY <3>1, <3>2
    <2> QED
      BY <2>1, <2>2
  <1>6. WholeFits(e) /\ Keeps(db, e)
    <2> HIDE DEF p
    <2> QED
      BY <1>3, <1>5, AcceptWhole DEF Inv1
  <1> HIDE DEF e
  <1>7. CASE p = Len(Pages)
    BY <1>1, <1>2, <1>6, <1>7, AdvancesWhole DEF Work
  <1>8. CASE p # Len(Pages)
    BY <1>1, <1>2, <1>6, <1>8, LeavesWhole DEF Leave
  <1> QED
    BY <1>7, <1>8

(* A transaction that leaves an open item open.                            *)
LEMMA ItemsStill ==
    ASSUME NEW d, DbFits(d), WholeFits(d), NEW e, DbFits(e), NEW T, \A i \in T : Open(d, i),
           \A i \in Items : e.item[i] = d.item[i] \/ (i \in T /\ e.item[i] \in BacklogStatuses),
           \A x \in DOMAIN d \ {"item", "attempt", "rows", "closed", "passed", "inv"} : e[x] = d[x]
    PROVE  WholeFits(e) /\ Keeps(d, e)
  <1>1. /\ e.run = d.run /\ e.cursor = d.cursor /\ e.done = d.done /\ e.order = d.order
        /\ e.ended = d.ended /\ e.failed = d.failed /\ e.width = d.width /\ e.chunk = d.chunk
        /\ e.job = d.job
    BY DEF DbFits, Tables
  <1>2. \A i \in Items : /\ d.item[i] \in EndedStatuses \/ e.item[i] \in EndedStatuses => e.item[i] = d.item[i]
                         /\ e.item[i] = "canceled" => d.item[i] = "canceled"
    BY DEF Open, BacklogStatuses, EndedStatuses
  <1>3. Still(d, e)
    BY <1>1, <1>2 DEF Still, WholeFits
  <1> QED
    BY <1>3, StillWhole

LEMMA WholeRetryItem ==
    ASSUME Inv1, Inv2, Remembers, NEW h \in Handlers, RetryItem(h)
    PROVE  Inv2' /\ Keeps(db, db')
  <1> DEFINE i == handler[h].job[2]
             n == handler[h].cursor + 1
             e == [db EXCEPT !.item[i] = "pending", !.attempt[i] = n]
  <1>1. /\ handler[h].pc \in Work /\ Goto(h, "throw") /\ "throw" \in Leave
        /\ db' = IF Open(db, i) THEN e ELSE db
    BY DEF RetryItem, At, Work, Leave
  <1>2. DbFits(db) /\ WholeFits(db) /\ DbFits(db')
    BY StepRetryItem DEF Inv1, Inv2
  <1>3. CASE Open(db, i)
    <2>1. db' = e
      BY <1>1, <1>3
    <2>2. /\ \A k \in Items : e.item[k] = db.item[k] \/ (k \in {i} /\ e.item[k] \in BacklogStatuses)
          /\ \A x \in DOMAIN db \ {"item", "attempt", "rows", "closed", "passed", "inv"} : e[x] = db[x]
      <3> HIDE DEF i, n
      <3> QED
        BY <1>2 DEF DbFits, Tables, BacklogStatuses
    <2> HIDE DEF e
    <2>3. WholeFits(db') /\ Keeps(db, db')
      BY <1>2, <1>3, <2>1, <2>2, ItemsStill
    <2> QED
      BY <1>1, <2>3, LeavesWhole
  <1>4. CASE ~Open(db, i)
    <2>1. db' = db
      BY <1>1, <1>4
    <2> QED
      BY <1>1, <2>1, WholeLeft
  <1> QED
    BY <1>3, <1>4

LEMMA WholeCommitItem ==
    ASSUME Inv1, Inv2, NEW h \in Handlers, CommitItem(h)
    PROVE  Inv2' /\ Keeps(db, db')
  <1> DEFINE q == handler[h]
             i == q.job[2]
             pc == IF Open(db, i) THEN "after" ELSE "return"
             e == CompleteItem(db, i, q.out)
  <1>1. q.pc = "commit" /\ q.job[1] = "item" /\ q.out # "suspended" /\ db' = e /\ Goto(h, pc)
    BY DEF CommitItem, At, Kind
  <1>2. q.pc \in Work
    BY <1>1 DEF Work
  <1>3. q.out \in Answered /\ i \in Items /\ db.item[i] # "absent"
    BY <1>1, <1>2, AtWork DEF HandlerFits, Reads, Known
  <1>4. WholeFits(e) /\ Keeps(db, e)
    <2> HIDE DEF q, i
    <2> QED
      BY <1>3, CompleteItemWhole DEF Inv1, Inv2
  <1> HIDE DEF e
  <1>5. CASE Open(db, i)
    BY <1>1, <1>2, <1>4, <1>5, AdvancesWhole DEF Work
  <1>6. CASE ~Open(db, i)
    BY <1>1, <1>2, <1>4, <1>6, LeavesWhole DEF Leave
  <1> QED
    BY <1>5, <1>6

LEMMA WholeLookForInvocation ==
    ASSUME Inv1, Inv2, NEW h \in Handlers, LookForInvocation(h)
    PROVE  Inv2' /\ Keeps(db, db')
  <1> DEFINE q == handler[h]
             W == OpenWindows(db)
             r == [q EXCEPT !.pc = "join", !.left = W]
  <1>1. /\ q.pc = "commit" /\ db' = db
        /\ handler' = [handler EXCEPT ![h].pc = "join", ![h].left = W]
    BY DEF LookForInvocation, At
  <1>2. q.pc \in Work
    BY <1>1 DEF Work
  <1>3. /\ HandlerRow(q) /\ Whole(q, db) /\ WholeFits(db) /\ Keeps(db, db)
        /\ handler = [g \in Handlers |-> handler[g]]
    BY <1>2, AtWork, WorkWhole
  <1> HIDE DEF W
  <1>4. handler' = [handler EXCEPT ![h] = r]
    BY <1>1, <1>3
  <1>5. r.pc = "join" /\ r.job = q.job
    <2> HIDE DEF q
    <2> QED
      BY <1>3 DEF HandlerRow, Columns
  <1> HIDE DEF r
  <1>6. Whole(r, db)
    BY <1>3, <1>5 DEF Whole
  <1> QED
    BY <1>1, <1>3, <1>4, <1>6, WholeSteps

LEMMA WholeJoins ==
    ASSUME Inv1, Inv2, DbFits(db'), NEW h \in Handlers, handler[h].pc = "join", MayPark(h),
           NEW v, Joins(h, v)
    PROVE  Inv2' /\ Keeps(db, db')
  <1> DEFINE q == handler[h]
             i == q.job[2]
             n == q.cursor
             e == ParkAtPhysicalStep(db, i, n, v)
             o == IF e.inv[v].size >= MaxItems THEN "full" ELSE "none"
             r == [q EXCEPT !.pc = "enqueue", !.cursor = v, !.left = {}, !.out = o]
  <1>1. /\ db' = e /\ Open(db, i)
        /\ handler' = [handler EXCEPT ![h].pc = "enqueue", ![h].cursor = v, ![h].left = {}, ![h].out = o]
    BY Zenon DEF Joins, MayPark
  <1>2. q.pc \in Work
    BY DEF Work
  <1>3. /\ HandlerRow(q) /\ Whole(q, db) /\ DbFits(db) /\ WholeFits(db)
        /\ handler = [g \in Handlers |-> handler[g]]
    BY <1>2, AtWork, WorkWhole
  <1> HIDE DEF o
  <1>4. handler' = [handler EXCEPT ![h] = r]
    <2> HIDE DEF e
    <2> QED
      BY <1>1, <1>3
  <1>5. /\ e.item = [db.item EXCEPT ![i] = "waiting"]
        /\ \A x \in DOMAIN db \ {"inv", "rows", "item"} : e[x] = db[x]
    <2>1. DbFits(db)
      BY <1>3
    <2> HIDE DEF i, n
    <2> QED
      BY <2>1, ParkWrites
  <1> HIDE DEF e
  <1>6. \A k \in Items : e.item[k] = db.item[k] \/ (k \in {i} /\ e.item[k] \in BacklogStatuses)
    BY <1>3, <1>5 DEF DbFits, Tables, BacklogStatuses
  <1>7. WholeFits(e) /\ Keeps(db, e)
    BY <1>1, <1>3, <1>5, <1>6, ItemsStill
  <1>8. r.pc = "enqueue" /\ r.job = q.job
    <2> HIDE DEF q
    <2> QED
      BY <1>3 DEF HandlerRow, Columns
  <1> HIDE DEF r, i
  <1>9. Whole(r, e)
    BY <1>3, <1>7, <1>8 DEF Whole, Keeps
  <1> QED
    BY <1>1, <1>4, <1>7, <1>9, WholeSteps

LEMMA WholeCommitPark ==
    ASSUME Inv1, Inv2, Remembers, NEW h \in Handlers, CommitPark(h)
    PROVE  Inv2' /\ Keeps(db, db')
  <1>1. /\ handler[h].pc = "join" /\ MayPark(h)
        /\ Joins(h, Admitting(db, OpenWindows(db)))
    BY DEF CommitPark, At
  <1>2. DbFits(db')
    BY StepCommitPark DEF Inv1
  <1> QED
    BY <1>1, <1>2, WholeJoins

LEMMA WholeCommitLate ==
    ASSUME Inv1, Inv2, Remembers, NEW h \in Handlers, CommitLate(h)
    PROVE  Inv2' /\ Keeps(db, db')
  <1>1. /\ handler[h].pc = "join" /\ MayPark(h)
        /\ Joins(h, Admitting(db, handler[h].left))
    BY DEF CommitLate, At
  <1>2. DbFits(db')
    BY StepCommitLate DEF Inv1
  <1> QED
    BY <1>1, <1>2, WholeJoins

LEMMA WholeParkRefused ==
    ASSUME Inv1, Inv2, NEW h \in Handlers, ParkRefused(h)
    PROVE  Inv2' /\ Keeps(db, db')
  <1>1. handler[h].pc \in Work /\ Goto(h, "throw") /\ db' = db /\ "throw" \in Leave
    BY DEF ParkRefused, At, Work, Leave
  <1> QED
    BY <1>1, WholeLeft

LEMMA WholeEnqueuePhysical ==
    ASSUME Inv1, Inv2, Remembers, NEW h \in Handlers, EnqueuePhysical(h)
    PROVE  Inv2' /\ Keeps(db, db')
  <1> DEFINE v == handler[h].cursor
             j == <<"physical", v, 0>>
             full == handler[h].out = "full"
             s == IF full THEN "pending" ELSE "later"
             d == Enqueue(db, {j}, s)
             e == [d EXCEPT !.job[j].status = "pending"]
  <1>1. /\ handler[h].pc = "enqueue" /\ Goto(h, "return")
        /\ db' = IF full /\ d.job[j].status \in {"later", "parked"} THEN e ELSE d
    BY Zenon DEF EnqueuePhysical, At
  <1>2. handler[h].pc \in Work /\ "return" \in Leave
    BY <1>1 DEF Work, Leave
  <1>3. v \in Invocations /\ DbFits(db) /\ WholeFits(db) /\ DbFits(db')
    BY <1>1, <1>2, AtWork, StepEnqueuePhysical DEF HandlerFits, Reads, Inv1, Inv2
  <1>4. DbFits(d) /\ WholeFits(d) /\ Keeps(db, d)
    <2>1. \A k \in {j} \cap JobIds : MayQueue(db, k) /\ k[1] # "item"
      BY DEF MayQueue, SinkJobs, Start, Finalize
    <2>2. s \in {"pending", "later"}
      OBVIOUS
    <2> HIDE DEF s, j
    <2> QED
      BY <1>3, <2>1, <2>2, EnqueueWhole, EnqueueFits
  <1> HIDE DEF d
  <1>5. ASSUME db' = e, d.job[j].status \in {"later", "parked"}
        PROVE  WholeFits(e) /\ Keeps(d, e)
    <2>1. j \in JobIds
      BY <1>3 DEF JobIds
    <2> HIDE DEF j
    <2>2. \A k \in JobIds : e.job[k].status = "absent" <=> d.job[k].status = "absent"
      BY <1>4, <1>5, <2>1 DEF DbFits, Tables, JobRow
    <2>3. \A x \in DOMAIN d \ {"job"} : e[x] = d[x]
      OBVIOUS
    <2> HIDE DEF e
    <2> QED
      BY <1>3, <1>4, <1>5, <2>2, <2>3, JobsStill
  <1> HIDE DEF e, j
  <1>6. WholeFits(db') /\ Keeps(db, db')
    BY <1>1, <1>4, <1>5, KeepsTrans
  <1> QED
    BY <1>1, <1>2, <1>6, LeavesWhole

(* A handler that ended an item goes on.                                   *)
LEMMA WholeSettlesOn ==
    ASSUME Inv1, Inv2, NEW h \in Handlers, handler[h].pc \in Settling,
           NEW pc \in {"schedule", "count", "finalize", Back(h)}, Goto(h, pc),
           WholeFits(db'), Keeps(db, db'), pc = "finalize" => Full(db')
    PROVE  Inv2' /\ Keeps(db, db')
  <1>1. handler[h].pc \in Work
    BY DEF Work, Settling
  <1>2. CASE pc = "return"
    BY <1>1, <1>2, LeavesWhole DEF Leave
  <1>3. CASE pc # "return"
    <2>1. pc \in {"schedule", "count", "finalize", "members"}
      BY <1>3 DEF Back
    <2>2. pc \in Work
      BY <2>1 DEF Work
    <2> QED
      BY <1>1, <2>1, <2>2, AdvancesWhole
  <1> QED
    BY <1>2, <1>3

LEMMA WholeApplyFailurePolicy ==
    ASSUME Inv1, Inv2, NEW h \in Handlers, ApplyFailurePolicy(h)
    PROVE  Inv2' /\ Keeps(db, db')
  <1> DEFINE j == handler[h].job
             stop == handler[h].out = "failed" /\ db.failed >= MaxFailures
             e == IF stop /\ OwnsJob(db, h, j) THEN FailStep(db, {j}) ELSE db
             pc == IF stop THEN Back(h) ELSE "schedule"
  <1>1. handler[h].pc = "after" /\ db' = e /\ Goto(h, pc)
    BY DEF ApplyFailurePolicy, At
  <1>2. /\ handler[h].pc \in Settling /\ pc \in {"schedule", "count", "finalize", Back(h)}
        /\ pc # "finalize"
    BY <1>1 DEF Settling, Back
  <1>3. WholeFits(e) /\ Keeps(db, e)
    <2>1. OwnsJob(db, h, j) => \A k \in {j} \cap JobIds : db.job[k].status # "parked"
      BY DEF OwnsJob
    <2> HIDE DEF j
    <2> QED
      BY <2>1, FailStepWhole, KeepsRefl DEF Inv1, Inv2
  <1> HIDE DEF e, pc
  <1> QED
    BY <1>1, <1>2, <1>3, WholeSettlesOn

LEMMA WholeScheduleNext ==
    ASSUME Inv1, Inv2, NEW h \in Handlers, ScheduleNext(h)
    PROVE  Inv2' /\ Keeps(db, db')
  <1>1. handler[h].pc \in Settling /\ db' = ScheduleSourcePage(db) /\ Goto(h, "count")
    BY DEF ScheduleNext, At, Settling
  <1>2. WholeFits(db') /\ Keeps(db, db')
    BY <1>1, ScheduleWhole DEF Inv1, Inv2
  <1> QED
    BY <1>1, <1>2, WholeSettlesOn

LEMMA WholeCountEnded ==
    ASSUME Inv1, Inv2, NEW h \in Handlers, CountEnded(h)
    PROVE  Inv2' /\ Keeps(db, db')
  <1> DEFINE pc == IF db.done /\ db.ended >= Len(db.order) THEN "finalize" ELSE Back(h)
  <1>1. handler[h].pc \in Settling /\ db' = db /\ Goto(h, pc)
    BY DEF CountEnded, At, Settling
  <1>2. WholeFits(db') /\ Keeps(db, db')
    BY <1>1, KeepsRefl DEF Inv2
  <1>3. pc \in {"schedule", "count", "finalize", Back(h)} /\ (pc = "finalize" => Full(db'))
    BY <1>1, AllEnded DEF Inv1, Inv2, Back
  <1> HIDE DEF pc
  <1> QED
    BY <1>1, <1>2, <1>3, WholeSettlesOn

LEMMA WholeQueueSink ==
    ASSUME Inv1, Inv2, NEW h \in Handlers, QueueSink(h)
    PROVE  Inv2' /\ Keeps(db, db')
  <1>1. /\ handler[h].pc = "finalize" /\ handler[h].pc \in Settling
        /\ db' = FinalizeIfComplete(db) /\ Goto(h, Back(h)) /\ Back(h) # "finalize"
    BY DEF QueueSink, At, Settling, Back
  <1>2. Full(db)
    BY <1>1 DEF Inv2, Whole, At
  <1>3. WholeFits(db') /\ Keeps(db, db')
    BY <1>1, <1>2, FinalizeWhole DEF Inv1, Inv2
  <1> QED
    BY <1>1, <1>3, WholeSettlesOn

LEMMA WholeCommitOutcomes ==
    ASSUME Inv1, Inv2, NEW h \in Handlers, CommitOutcomes(h)
    PROVE  Inv2' /\ Keeps(db, db')
  <1> DEFINE q == handler[h]
             v == q.job[2]
             T == Resuming(q.items, q.out)
             S == {"item"} \X T \X {v}
             e == PersistPhysicalOutcomes(db, v, q.items, q.out)
             ends == TerminalOutcomes(q.items, q.out)
             r == [q EXCEPT !.pc = "members", !.left = ends, !.out = "none", !.items = <<>>]
  <1>1. /\ q.pc = "commit" /\ q.job[1] = "physical" /\ db' = e /\ \A i \in T : Open(db, i)
        /\ handler' = [handler EXCEPT ![h].pc = "members", ![h].left = ends,
                                      ![h].out = "none", ![h].items = <<>>]
    BY DEF CommitOutcomes, At, Kind
  <1>2. q.pc \in Work
    BY <1>1 DEF Work
  <1>3. /\ HandlerFits(q, db) /\ HandlerRow(q) /\ q.job \in JobIds
        /\ Whole(q, db) /\ DbFits(db) /\ WholeFits(db)
        /\ handler = [g \in Handlers |-> handler[g]]
    BY <1>2, AtWork, WorkWhole
  <1>4. handler' = [handler EXCEPT ![h] = r]
    <2> HIDE DEF ends
    <2> QED
      BY <1>1, <1>3
  <1>5. /\ v \in Invocations /\ DOMAIN q.out \subseteq Joined(db.inv[v])
        /\ \A i \in DOMAIN q.out : q.items[i] \in Nat
    BY <1>1, <1>3, JobParts DEF HandlerFits, Members
  <1>12. PICK f : Taken(db, v, q.items, q.out, f)
    <2> DEFINE seen == q.items
               out == q.out
    <2>1. /\ DbFits(db) /\ v \in Invocations /\ DOMAIN out \subseteq Joined(db.inv[v])
          /\ \A i \in DOMAIN out : seen[i] \in Nat
      BY <1>3, <1>5
    <2> HIDE DEF q, v, seen, out
    <2>2. \E f : Taken(db, v, seen, out, f)
      BY <2>1, OutcomesTaken
    <2> QED
      BY <2>2 DEF seen, out
  <1>6. /\ e = Enqueue(f, S, "pending")
        /\ DbFits(f)
        /\ f.item = [i \in Items |-> IF i \in T THEN "pending" ELSE db.item[i]]
        /\ \A x \in DOMAIN db \ {"inv", "closed", "passed", "item", "attempt"} : f[x] = db[x]
    BY <1>12, Zenon DEF Taken
  <1> HIDE DEF T, e
  <1>7. WholeFits(f) /\ Keeps(db, f)
    <2>1. \A i \in Items : f.item[i] = db.item[i] \/ (i \in T /\ f.item[i] \in BacklogStatuses)
      BY <1>6 DEF BacklogStatuses
    <2> QED
      BY <1>1, <1>3, <1>6, <2>1, ItemsStill
  <1>8. \A j \in S \cap JobIds : MayQueue(f, j)
    BY JobParts DEF MayQueue, Finalize
  <1> HIDE DEF S
  <1>9. WholeFits(e) /\ Keeps(db, e)
    BY <1>6, <1>7, <1>8, EnqueueWhole, KeepsTrans
  <1> HIDE DEF ends
  <1>10. r.pc = "members" /\ r.job = q.job
    <2> HIDE DEF q
    <2> QED
      BY <1>3 DEF HandlerRow, Columns
  <1> HIDE DEF r
  <1>11. Whole(r, e)
    BY <1>3, <1>9, <1>10 DEF Whole, Keeps
  <1> QED
    BY <1>1, <1>4, <1>9, <1>11, WholeSteps

LEMMA WholeOutcomesRefused ==
    ASSUME Inv1, Inv2, NEW h \in Handlers, OutcomesRefused(h)
    PROVE  Inv2' /\ Keeps(db, db')
  <1>1. /\ handler[h].pc \in Work /\ handler[h].job[1] = "physical" /\ Goto(h, "throw") /\ "throw" \in Leave
        /\ db' = Reopened(h)
    BY DEF OutcomesRefused, At, Kind, Work, Leave
  <1> QED
    BY <1>1, ReopenedWhole, LeavesWhole

LEMMA WholeCompleteMember ==
    ASSUME Inv1, Inv2, NEW h \in Handlers, CompleteMember(h)
    PROVE  Inv2' /\ Keeps(db, db')
  <1> DEFINE q == handler[h]
  <1>1. PICK m \in q.left :
            /\ q.pc = "members" /\ db' = CompleteItem(db, m[1], m[2])
            /\ handler' = [handler EXCEPT ![h].left = @ \ {m}, ![h].out = m[2],
                    ![h].pc = IF Open(db, m[1]) THEN "after" ELSE "members"]
    BY DEF CompleteMember, At
  <1>0. PICK l : l = q.left \ {m}
    OBVIOUS
  <1> DEFINE pc == IF Open(db, m[1]) THEN "after" ELSE "members"
             e == CompleteItem(db, m[1], m[2])
             r == [q EXCEPT !.left = l, !.out = m[2], !.pc = pc]
  <1>9. db' = e
    BY Zenon, <1>1
  <1>12. q.pc = "members"
    BY Zenon, <1>1
  <1>2. q.pc \in Work
    BY <1>12 DEF Work
  <1>3. /\ HandlerFits(q, db) /\ HandlerRow(q) /\ Whole(q, db) /\ DbFits(db) /\ WholeFits(db)
        /\ handler = [g \in Handlers |-> handler[g]]
    BY <1>2, AtWork, WorkWhole
  <1>4. handler' = [handler EXCEPT ![h] = r]
    <2>1. handler' = [handler EXCEPT ![h].left = l, ![h].out = m[2], ![h].pc = pc]
      BY Zenon, <1>0, <1>1
    <2> HIDE DEF pc
    <2> QED
      BY <1>3, <2>1
  <1>5. q.left \subseteq Items \X Answered /\ \A k \in q.left : k[1] \in Known(db)
    BY <1>3, <1>12, Zenon DEF HandlerFits, Reads, Settling
  <1>6. m[1] \in Items /\ m[2] \in Answered /\ db.item[m[1]] # "absent"
    BY <1>5 DEF Known
  <1>7. WholeFits(e) /\ Keeps(db, e)
    BY <1>3, <1>6, CompleteItemWhole
  <1>8. pc \in {"after", "members"}
    OBVIOUS
  <1> HIDE DEF e, pc
  <1>10. r.pc = pc /\ r.job = q.job
    <2> HIDE DEF q
    <2> QED
      BY <1>3 DEF HandlerRow, Columns
  <1> HIDE DEF r
  <1>11. Whole(r, e)
    BY <1>3, <1>7, <1>8, <1>10 DEF Whole, Keeps
  <1> QED
    BY <1>4, <1>7, <1>9, <1>11, WholeSteps

LEMMA WholeMembersDone ==
    ASSUME Inv1, Inv2, NEW h \in Handlers, MembersDone(h)
    PROVE  Inv2' /\ Keeps(db, db')
  <1>1. handler[h].pc \in Work /\ Goto(h, "return") /\ db' = db /\ "return" \in Leave
    BY DEF MembersDone, At, Work, Leave
  <1> QED
    BY <1>1, WholeLeft

LEMMA WholeCommitStart ==
    ASSUME Inv1, Inv2, Remembers, NEW h \in Handlers, CommitStart(h)
    PROVE  Inv2' /\ Keeps(db, db')
  <1>1. /\ handler[h].pc \in Work /\ Goto(h, "return") /\ "return" \in Leave
        /\ handler[h].job[1] = "start"
    BY DEF CommitStart, At, Work, Leave, Kind
  <1>2. DbFits(db) /\ WholeFits(db) /\ Full(db) /\ db.width \in Widths \cup {0}
    <2>1. DbFits(db) /\ WholeFits(db) /\ handler[h].job \in JobIds /\ handler[h].job \in Queued(db)
      BY <1>1, WorkWhole
    <2>2. handler[h].job \in SinkJobs
      BY <1>1, <2>1, JobParts
    <2>3. db.width \in Widths \cup {0}
      BY <2>1 DEF DbFits, Tables
    <2> QED
      BY <2>1, <2>2, <2>3 DEF WholeFits, SinkFits
  <1>5. PICK w \in Widths \cup {0} :
            /\ w \in Widths \/ Len(db.chunk) > 0
            /\ db' = IF w = 0 THEN CompleteStep(db, h, handler[h].job)
                     ELSE EnqueueNextSinkWork(CreateSinkChunks([db EXCEPT !.width = w, !.state = <<>>]))
    BY <1>2 DEF CommitStart
  <1> DEFINE d == [db EXCEPT !.width = w, !.state = <<>>]
             f == CreateSinkChunks(d)
  <1>3. CASE w = 0
    <2>1. db' = CompleteStep(db, h, handler[h].job)
      BY <1>3, <1>5
    <2>2. 0 \notin Widths => db.chunk # <<>> \/ Items = {}
      BY <1>3, <1>5, EmptySeq
    <2>3. WholeFits(db') /\ Keeps(db, db')
      BY <1>2, <2>1, <2>2, CompleteStepWhole
    <2> QED
      BY <1>1, <2>3, LeavesWhole
  <1>4. CASE w # 0
    <2>1. db' = EnqueueNextSinkWork(f)
      BY <1>4, <1>5
    <2>2. DbFits(d) /\ WholeFits(d) /\ Keeps(db, d) /\ Ended(d) = Ended(db)
      <3>1. <<>> \in Seq(Chunks)
        BY EmptySeq
      <3>2. d \in Tables
        BY <1>2, <3>1 DEF DbFits, Tables
      <3>3. /\ d.run = db.run /\ d.cursor = db.cursor /\ d.done = db.done /\ d.order = db.order
            /\ d.item = db.item /\ d.ended = db.ended /\ d.failed = db.failed
            /\ d.chunk = db.chunk /\ d.job = db.job /\ d.inv = db.inv /\ d.written = db.written
        BY <1>2 DEF DbFits, Tables
      <3> HIDE DEF d
      <3>4. Still(db, d)
        BY <1>2, <3>3 DEF Still, WholeFits
      <3>5. DbFits(d)
        BY <1>2, <3>2, <3>3, SameFits DEF DbFits
      <3> QED
        BY <1>2, <3>4, <3>5, StillWhole
    <2> HIDE DEF d
    <2>3. /\ DbFits(f) /\ WholeFits(f) /\ Keeps(d, f) /\ Ended(f) = Ended(d)
          /\ f.chunk # <<>> \/ Items = {}
      BY <1>2, <2>2, CreateFits, CreateWhole DEF Full
    <2> HIDE DEF f
    <2>4. LET g == EnqueueNextSinkWork(f) IN WholeFits(g) /\ Keeps(f, g) /\ Ended(g) = Ended(f)
      BY <1>2, <2>2, <2>3, NextSinkWhole DEF Full
    <2>5. WholeFits(db') /\ Keeps(db, db')
      BY <2>1, <2>2, <2>3, <2>4, KeepsTrans
    <2> QED
      BY <1>1, <2>5, LeavesWhole
  <1> QED
    BY <1>3, <1>4

LEMMA WholeCommitChunk ==
    ASSUME Inv1, Inv2, NEW h \in Handlers, CommitChunk(h)
    PROVE  Inv2' /\ Keeps(db, db')
  <1> DEFINE k == handler[h].job[2]
             s == IF db.width = 1 THEN Append(handler[h].state, k) ELSE <<>>
             n == db.written + 1
             d == [db EXCEPT !.chunk[k].status = "completed", !.written = n, !.state = s]
             e == EnqueueNextSinkWork(d)
             chunk == [db.chunk EXCEPT ![k].status = "completed"]
  <1>1. /\ handler[h].pc = "commit" /\ handler[h].job[1] = "write" /\ Goto(h, "return")
        /\ db' = e /\ db.written < Len(db.chunk)
    BY DEF CommitChunk, At, Kind, Inv1, DbFits, Tables
  <1>2. handler[h].pc \in Work /\ "return" \in Leave
    BY <1>1 DEF Work, Leave
  <1>3. DbFits(db) /\ WholeFits(db) /\ k \in DOMAIN db.chunk
    BY <1>1, <1>2, WorkWhole, ChunkThere
  <1>4. DbFits(d)
    <2>1. s \in Seq(Chunks)
      <3>1. handler[h].state \in Seq(Chunks) /\ k \in Chunks
        BY <1>1, <1>2, AtWork, JobParts DEF HandlerFits, Reads
      <3> HIDE DEF k
      <3> QED
        BY <3>1
    <2>2. n \in Nat /\ n <= Len(db.chunk)
      BY <1>1 DEF Inv1, DbFits, Tables
    <2> HIDE DEF s, n
    <2> QED
      BY <1>3, <2>1, <2>2, WithChunk
  <1>5. d = [db EXCEPT !.chunk = chunk, !.written = n, !.state = s]
    OBVIOUS
  <1>6. /\ DOMAIN chunk = DOMAIN db.chunk
        /\ \A b \in DOMAIN db.chunk : /\ chunk[b].first = db.chunk[b].first /\ chunk[b].last = db.chunk[b].last
                                      /\ db.chunk[b].status = "completed" => chunk[b].status = "completed"
    <2>1. \A b \in DOMAIN db.chunk : db.chunk[b] \in ChunkRow
      <3>1. db.chunk \in Seq(ChunkRow)
        BY <1>3 DEF DbFits, Tables
      <3> HIDE DEF ChunkRow
      <3> QED
        BY <3>1
    <2> QED
      BY <2>1 DEF ChunkRow
  <1> HIDE DEF chunk, d, s, n
  <1>7. /\ d.run = db.run /\ d.cursor = db.cursor /\ d.done = db.done /\ d.order = db.order /\ d.item = db.item
        /\ d.ended = db.ended /\ d.failed = db.failed /\ d.chunk = chunk /\ d.job = db.job
    BY <1>3, <1>5 DEF DbFits, Tables
  <1>8. Still(db, d)
    BY <1>3, <1>6, <1>7 DEF Still, WholeFits
  <1>9. WholeFits(d) /\ Keeps(db, d) /\ Ended(d) = Ended(db)
    BY <1>3, <1>4, <1>8, StillWhole
  <1>10. Full(d) /\ d.chunk # <<>>
    <2>1. d.chunk # <<>>
      BY <1>3, <1>4, <1>6, <1>7, EmptyChunks
    <2> QED
      BY <1>9, <2>1 DEF WholeFits, SinkFits
  <1>11. WholeFits(e) /\ Keeps(d, e) /\ Ended(e) = Ended(d)
    BY <1>4, <1>9, <1>10, NextSinkWhole
  <1> HIDE DEF e
  <1>12. WholeFits(db') /\ Keeps(db, db')
    BY <1>1, <1>9, <1>11, KeepsTrans
  <1> QED
    BY <1>1, <1>2, <1>12, LeavesWhole

LEMMA WholeChunkRefused ==
    ASSUME Inv1, Inv2, NEW h \in Handlers, ChunkRefused(h)
    PROVE  Inv2' /\ Keeps(db, db')
  <1>1. handler[h].pc \in Work /\ Goto(h, "throw") /\ db' = db /\ "throw" \in Leave
    BY DEF ChunkRefused, At, Work, Leave
  <1> QED
    BY <1>1, WholeLeft

LEMMA WholeCommitFinalize ==
    ASSUME Inv1, Inv2, NEW h \in Handlers, CommitFinalize(h)
    PROVE  Inv2' /\ Keeps(db, db')
  <1>1. /\ handler[h].pc \in Work /\ Goto(h, "return") /\ "return" \in Leave
        /\ handler[h].job[1] = "finalize" /\ db' = CompleteStep(db, h, handler[h].job)
    BY DEF CommitFinalize, At, Work, Leave, Kind
  <1>2. DbFits(db) /\ WholeFits(db) /\ Finalize \in Queued(db) /\ Finalize \in SinkJobs
    BY <1>1, WorkWhole, JobParts
  <1>3. Full(db) /\ (db.chunk # <<>> \/ Items = {})
    BY <1>2 DEF WholeFits, SinkFits
  <1>4. WholeFits(db') /\ Keeps(db, db')
    BY <1>1, <1>2, <1>3, CompleteStepWhole
  <1> QED
    BY <1>1, <1>4, LeavesWhole

-----------------------------------------------------------------------------
(* Settling, time and callers from outside.                                *)

LEMMA WholeSettles ==
    ASSUME Inv1, Inv2, NEW h \in Handlers, handler[h].pc \in Leave,
           NEW d, DbFits(d), WholeFits(d), Keeps(db, d), Ended(d) = Ended(db), NEW row,
           OwnsJob(db, h, handler[h].job) => /\ row \in JobRow /\ JobFits(row) /\ row.status # "absent"
                                             /\ row.status = "parked" => d.run = "paused",
           Settle(h, d, row)
    PROVE  Inv2' /\ Keeps(db, db')
  <1> DEFINE j == handler[h].job
             e == [d EXCEPT !.job[j] = row]
             r == Idle
  <1>1. handler' = [handler EXCEPT ![h] = r] /\ db' = IF OwnsJob(db, h, j) THEN e ELSE d
    BY DEF Settle
  <1>2. r.pc = "idle"
    BY DEF Idle
  <1>3. j \in JobIds
    BY DEF Inv1, HandlersFit, HandlerFits, Leave
  <1>4. ASSUME OwnsJob(db, h, j)
        PROVE  WholeFits(e) /\ Keeps(d, e) /\ Ended(e) = Ended(d)
    <2>1. j \in Queued(db) /\ j \in Queued(d)
      BY <1>3, <1>4 DEF OwnsJob, Queued, Keeps
    <2>2. j[1] = "item" => j[2] \in Known(d)
      BY <1>3, <2>1 DEF KnownFit, DbFits, Queued
    <2>3. row \in JobRow /\ JobFits(row) /\ row.status # "absent" /\ (row.status = "parked" => d.run = "paused")
      BY <1>4
    <2> HIDE DEF j
    <2>4. /\ DbFits(e) /\ e.job[j] = row
          /\ \A k \in JobIds : k # j => e.job[k] = d.job[k]
          /\ \A x \in DOMAIN d \ {"job"} : e[x] = d[x]
      BY <1>3, <2>2, <2>3, WithRow
    <2> HIDE DEF e
    <2>5. \A k \in JobIds : e.job[k].status = "absent" <=> d.job[k].status = "absent"
      BY <2>1, <2>3, <2>4 DEF Queued
    <2> QED
      BY <2>4, <2>5, JobsStill
  <1>5. WholeFits(db') /\ Keeps(db, db')
    <2> HIDE DEF e, j
    <2> QED
      BY <1>1, <1>4, KeepsTrans
  <1> HIDE DEF r
  <1> QED
    BY <1>1, <1>2, <1>5, WholeSteps

LEMMA WholeJobComplete ==
    ASSUME Inv1, Inv2, NEW h \in Handlers, JobComplete(h)
    PROVE  Inv2' /\ Keeps(db, db')
  <1>1. handler[h].pc \in Leave /\ Settle(h, db, Job("completed"))
    BY DEF JobComplete, At, Leave
  <1> QED
    BY <1>1, JobFresh, KeepsRefl, WholeSettles DEF Inv1, Inv2

LEMMA WholeJobFail ==
    ASSUME Inv1, Inv2, NEW h \in Handlers, JobFail(h)
    PROVE  Inv2' /\ Keeps(db, db')
  <1> DEFINE j == handler[h].job
             n == db.job[j].attempt
             last == n >= MaxAttempts
             d == IF last /\ j \in SinkJobs /\ OwnsJob(db, h, j) THEN FailStep(db, {j}) ELSE db
             row == IF last THEN Job("failed") ELSE Pending("pending", n)
  <1>1. handler[h].pc \in Leave /\ Settle(h, d, row)
    BY DEF JobFail, At, Leave
  <1>2. j \in JobIds
    BY <1>1 DEF Inv1, HandlersFit, HandlerFits, Leave
  <1>3. DbFits(d) /\ WholeFits(d) /\ Keeps(db, d) /\ Ended(d) = Ended(db)
    <2>1. OwnsJob(db, h, j) => \A k \in {j} \cap JobIds : db.job[k].status # "parked"
      BY DEF OwnsJob
    <2>2. DbFits(db) /\ WholeFits(db)
      BY DEF Inv1, Inv2
    <2> HIDE DEF j
    <2> QED
      BY <2>1, <2>2, FailStepFits, FailStepWhole, KeepsRefl
  <1>4. row \in JobRow /\ JobFits(row) /\ row.status \notin {"parked", "absent"}
    <2>1. n \in 0..MaxAttempts /\ MaxAttempts \in Nat
      BY <1>2, BatchAssumption DEF Inv1, DbFits, Tables, JobRow
    <2> HIDE DEF n
    <2>2. ~last => Pending("pending", n) \in JobRow /\ JobFits(Pending("pending", n))
                    /\ Pending("pending", n).status = "pending"
      BY <2>1 DEF Pending, JobRow, JobFits, LiveStatuses
    <2> QED
      BY <2>2, JobFresh
  <1> HIDE DEF d, row
  <1> QED
    BY <1>1, <1>3, <1>4, WholeSettles

LEMMA WholeJobDefer ==
    ASSUME Inv1, Inv2, NEW h \in Handlers, JobDefer(h)
    PROVE  Inv2' /\ Keeps(db, db')
  <1> DEFINE row == Pending("pending", db.job[handler[h].job].attempt - 1)
  <1>1. handler[h].pc \in Leave /\ Settle(h, db, row)
    BY DEF JobDefer, At, Leave
  <1>2. OwnsJob(db, h, handler[h].job) => row \in JobRow /\ JobFits(row) /\ row.status = "pending"
    BY <1>1, PendingFits
  <1> HIDE DEF row
  <1> QED
    BY <1>1, <1>2, KeepsRefl, WholeSettles DEF Inv1, Inv2

LEMMA WholeJobPark ==
    ASSUME Inv1, Inv2, NEW h \in Handlers, JobPark(h)
    PROVE  Inv2' /\ Keeps(db, db')
  <1> DEFINE s == IF db.run = "paused" THEN "parked" ELSE "pending"
             row == Pending(s, db.job[handler[h].job].attempt - 1)
  <1>1. handler[h].pc \in Leave /\ Settle(h, db, row)
    BY DEF JobPark, At, Leave
  <1>2. s \in {"pending", "parked"} /\ (s = "parked" => db.run = "paused")
    OBVIOUS
  <1> HIDE DEF s
  <1>3. OwnsJob(db, h, handler[h].job) => row \in JobRow /\ JobFits(row) /\ row.status = s
    BY <1>1, <1>2, PendingFits
  <1> HIDE DEF row
  <1> QED
    BY <1>1, <1>2, <1>3, KeepsRefl, WholeSettles DEF Inv1, Inv2

LEMMA WholeCrash ==
    ASSUME Inv1, Inv2, NEW h \in Handlers, Crash(h)
    PROVE  Inv2' /\ Keeps(db, db')
  <1> DEFINE r == Idle
  <1>1. handler' = [handler EXCEPT ![h] = r] /\ db' = db
    BY DEF Crash
  <1>2. r.pc = "idle"
    BY DEF Idle
  <1>3. WholeFits(db') /\ Keeps(db, db')
    BY <1>1, KeepsRefl DEF Inv2
  <1> HIDE DEF r
  <1> QED
    BY <1>1, <1>2, <1>3, WholeSteps

LEMMA WholeRequeued ==
    ASSUME Inv1, Inv2, NEW j \in JobIds, db.job[j].status = "running",
           db' = Requeued(j), handler' = handler
    PROVE  Inv2' /\ Keeps(db, db')
  <1>1. /\ DbFits(db') /\ \A k \in JobIds : k # j => db'.job[k] = db.job[k]
        /\ \A x \in DOMAIN db \ {"job"} : db'[x] = db[x]
        /\ db'.job[j].status = "pending"
    BY RequeuedFits
  <1>2. WholeFits(db') /\ Keeps(db, db')
    BY <1>1, JobsStill DEF Inv1, Inv2
  <1> QED
    BY <1>2, WholeOutside

LEMMA WholeHandleExhausted ==
    ASSUME Inv1, Inv2, Remembers, NEW j \in JobIds, HandleExhaustedJob(j)
    PROVE  Inv2' /\ Keeps(db, db')
  <1> DEFINE d == FailStep(db, {})
             e == [d EXCEPT !.job[j].status = "handled"]
  <1>1. db' = e /\ handler' = handler /\ db.job[j].status = "failed"
    BY DEF HandleExhaustedJob
  <1>2. DbFits(db) /\ WholeFits(db) /\ DbFits(e)
    BY <1>1, StepHandleExhausted DEF Inv1, Inv2
  <1>3. DbFits(d) /\ WholeFits(d) /\ Keeps(db, d) /\ Ended(d) = Ended(db)
    BY <1>2, FailStepFits, FailStepWhole
  <1>4. d.job[j].status # "absent"
    BY <1>1, <1>3 DEF Keeps, Queued
  <1> HIDE DEF d
  <1>5. d.job \in [JobIds -> JobRow] /\ d \in Tables
    BY <1>3 DEF DbFits, Tables
  <1>6. \A k \in JobIds : e.job[k].status = "absent" <=> d.job[k].status = "absent"
    <2> DEFINE f == [d.job EXCEPT ![j].status = "handled"]
    <2>1. f[j].status = "handled" /\ \A k \in JobIds : k # j => f[k] = d.job[k]
      BY <1>5 DEF JobRow
    <2>2. e.job = f
      BY <1>5 DEF Tables
    <2> QED
      BY <1>4, <2>1, <2>2
  <1>7. \A x \in DOMAIN d \ {"job"} : e[x] = d[x]
    OBVIOUS
  <1> HIDE DEF e
  <1>8. WholeFits(e) /\ Keeps(d, e) /\ Ended(e) = Ended(d)
    BY <1>2, <1>3, <1>6, <1>7, JobsStill
  <1> QED
    BY <1>1, <1>3, <1>8, KeepsTrans, WholeOutside

(* A transaction from outside that ends no item.                           *)
LEMMA OutsideStill ==
    ASSUME Inv1, Inv2, Inv1', handler' = handler, Still(db, db')
    PROVE  Inv2' /\ Keeps(db, db')
  <1>1. WholeFits(db') /\ Keeps(db, db')
    BY StillWhole DEF Inv1, Inv2
  <1> QED
    BY <1>1, WholeOutside

LEMMA WholeWindowCloses ==
    ASSUME Inv1, Inv2, Remembers, NEW v \in Invocations, WindowCloses(v)
    PROVE  Inv2' /\ Keeps(db, db')
  <1>1. db' = [db EXCEPT !.inv[v].closed = TRUE] /\ handler' = handler
    BY DEF WindowCloses
  <1>2. Still(db, db')
    BY <1>1 DEF Still, Inv1, Inv2, WholeFits, DbFits, Tables
  <1> QED
    BY <1>1, <1>2, StepWindowCloses, OutsideStill

LEMMA WholePause ==
    ASSUME Inv1, Inv2, Remembers, PauseOperator
    PROVE  Inv2' /\ Keeps(db, db')
  <1>1. db.run = "active" /\ db' = [db EXCEPT !.run = "paused"] /\ handler' = handler
    BY DEF PauseOperator
  <1>2. Still(db, db')
    BY <1>1 DEF Still, Inv1, Inv2, WholeFits, DbFits, Tables, Over
  <1> QED
    BY <1>1, <1>2, StepPause, OutsideStill

LEMMA WholeResume ==
    ASSUME Inv1, Inv2, Remembers, ResumeOperator
    PROVE  Inv2' /\ Keeps(db, db')
  <1> DEFINE f == [j \in JobIds |-> IF db.job[j].status \in {"parked", "later"}
                                    THEN [db.job[j] EXCEPT !.status = "pending"] ELSE db.job[j]]
  <1>1. /\ db.run = "paused" /\ handler' = handler
        /\ db' = [db EXCEPT !.run = "active", !.job = f]
    BY DEF ResumeOperator
  <1>2. \A j \in JobIds : f[j].status = "absent" <=> db.job[j].status = "absent"
    BY DEF Inv1, DbFits, Tables, JobRow
  <1> HIDE DEF f
  <1>3. Still(db, db')
    BY <1>1, <1>2 DEF Still, Inv1, Inv2, WholeFits, DbFits, Tables, Over
  <1> QED
    BY <1>1, <1>3, StepResume, OutsideStill

LEMMA WholeCancel ==
    ASSUME Inv1, Inv2, Remembers, Cancel
    PROVE  Inv2' /\ Keeps(db, db')
  <1>1. db' = EndScope(db, "canceled", {}) /\ handler' = handler /\ "canceled" \in Over
    BY DEF Cancel, Over
  <1>2. Still(db, db')
    BY <1>1, EndScopeStill DEF Inv1
  <1> QED
    BY <1>1, <1>2, StepCancel, OutsideStill

-----------------------------------------------------------------------------

LEMMA InitWhole ==
    ASSUME Init
    PROVE  Inv2
  <1> DEFINE d == [run |-> "active", cursor |-> 0, snapshot |-> FALSE, done |-> FALSE, queued |-> FALSE,
                   order |-> <<>>,
                   item |-> [i \in Items |-> "absent"], attempt |-> [i \in Items |-> 0],
                   rows |-> [i \in Items |-> {}], closed |-> [i \in Items |-> {}],
                   passed |-> [i \in Items |-> {}],
                   ended |-> 0, failed |-> 0,
                   inv |-> [v \in Invocations |-> [status |-> "absent", size |-> 0, closed |-> FALSE,
                                                   member |-> [i \in Items |-> "absent"],
                                                   resume |-> [i \in Items |-> 0]]],
                   width |-> 0, state |-> <<>>, chunk |-> <<>>, written |-> 0,
                   job |-> [j \in JobIds |-> Job("absent")]]
  <1>2. db = Enqueue(d, {<<"source", 1, 0>>}, "pending")
    BY DEF Init
  <1>3. /\ d.run = "active" /\ d.cursor = 0 /\ d.done = FALSE /\ d.ended = 0 /\ d.failed = 0
        /\ d.chunk = <<>> /\ d.item = [i \in Items |-> "absent"] /\ d.job = [j \in JobIds |-> Job("absent")]
        /\ DOMAIN d = DOMAIN [run |-> 0, cursor |-> 0, snapshot |-> 0, done |-> 0, queued |-> 0, order |-> 0,
                              item |-> 0, attempt |-> 0, rows |-> 0, closed |-> 0, passed |-> 0, ended |-> 0,
                              failed |-> 0, inv |-> 0, width |-> 0, state |-> 0, chunk |-> 0, written |-> 0,
                              job |-> 0]
    OBVIOUS
  <1> HIDE DEF d
  <1>4. /\ \A x \in DOMAIN d \ {"job"} : db[x] = d[x]
        /\ \A j \in JobIds : db.job[j] = d.job[j] \/ j \in {<<"source", 1, 0>>}
    BY <1>2, <1>3 DEF Enqueue
  <1>5. /\ db.run = "active" /\ db.cursor = 0 /\ db.done = FALSE /\ db.ended = 0 /\ db.failed = 0
        /\ db.chunk = <<>> /\ db.item = [i \in Items |-> "absent"]
    BY <1>3, <1>4
  <1>6. Queued(db) \subseteq {<<"source", 1, 0>>}
    <2>1. \A j \in JobIds : d.job[j].status = "absent"
      BY <1>3, JobFresh
    <2> QED
      BY <1>4, <2>1 DEF Queued
  <1>7. Ended(db) = {} /\ Failed(db) = {}
    BY <1>5 DEF Ended, Failed, EndedStatuses
  <1>8. Counted(db)
    BY <1>5, <1>7, FS_EmptySet DEF Counted
  <1>9. \A j \in Queued(db) : j \notin SinkJobs
    <2> DEFINE j == <<"source", 1, 0>>
    <2>1. j \notin SinkJobs
      BY DEF SinkJobs, Start, Finalize
    <2> HIDE DEF j
    <2> QED
      BY <1>6, <2>1 DEF j
  <1>10. SinkFits(db)
    BY <1>5, <1>9 DEF SinkFits, SinkJobs
  <1>11. WholeFits(db)
    BY <1>5, <1>8, <1>9, <1>10 DEF WholeFits
  <1>12. \A h \in Handlers : At(h, "idle")
    BY DEF Init, Idle, At
  <1> QED
    BY <1>11, <1>12 DEF Inv2

LEMMA NextWhole ==
    ASSUME Inv1, Inv2, UsedFits, [Next]_vars
    PROVE  Inv2' /\ Keeps(db, db')
  <1> Remembers
    BY NextTold
  <1>1. ASSUME NEW h \in Handlers, Handle(h)
        PROVE  Inv2' /\ Keeps(db, db')
    BY <1>1, WholeBeginAttempt, WholeMark, WholeMarkChunk, WholeFenced, WholeInvokeAnswers,
       WholeCommitInitialize, WholeCommitPage, WholeRetryItem, WholeCommitItem,
       WholeApplyFailurePolicy, WholeScheduleNext, WholeCountEnded, WholeQueueSink,
       WholeLookForInvocation, WholeCommitPark, WholeParkRefused, WholeEnqueuePhysical,
       WholeCommitOutcomes, WholeOutcomesRefused, WholeCompleteMember, WholeMembersDone,
       WholeCommitStart, WholeCommitChunk, WholeChunkRefused, WholeCommitFinalize,
       WholeJobComplete, WholeJobFail, WholeJobDefer, WholeJobPark DEF Handle
  <1>2. ASSUME NEW h \in Handlers, NEW j \in JobIds, Take(h, j)
        PROVE  Inv2' /\ Keeps(db, db')
    BY <1>2, WholeLoadContext, WholeSource, WholeItem, WholeMembers, WholeStart, WholeChunk,
       WholeFinalizeBegun DEF Take
  <1>7. ASSUME NEW j \in JobIds, Lapse(j) \/ Stall(j)
        PROVE  Inv2' /\ Keeps(db, db')
    BY <1>7, WholeRequeued DEF Lapse, Stall
  <1>3. CASE Proceed
    BY <1>1, <1>2, <1>3, <1>7, WholeHandleExhausted, WholeWindowCloses DEF Proceed
  <1>4. CASE \E h \in Handlers : Throttled(h) \/ InvokeFails(h) \/ DatabaseFails(h)
                                \/ CommitLate(h) \/ Crash(h)
    BY <1>4, WholeThrottled, WholeInvokeFails, WholeDatabaseFails, WholeCommitLate, WholeCrash
  <1>5. CASE PauseOperator \/ ResumeOperator \/ Cancel
    BY <1>5, WholePause, WholeResume, WholeCancel
  <1>6. CASE UNCHANGED vars
    <2>1. db' = db /\ handler' = handler
      BY <1>6 DEF vars
    <2>2. Inv2'
      BY <2>1 DEF Inv2, At
    <2> QED
      BY <2>1, <2>2, KeepsRefl
  <1> QED
    BY <1>3, <1>4, <1>5, <1>6, <1>7 DEF Next

(* The second layer is an invariant of a batch step, whatever crashes,     *)
(* fails, stalls or is delivered again.                                    *)
THEOREM BatchWhole == Spec => [](Inv1 /\ UsedFits /\ Inv2)
  <1>1. Init => Inv2
    BY InitWhole
  <1>2. Inv1 /\ UsedFits /\ Inv2 /\ [Next]_vars => Inv2'
    BY NextWhole
  <1> QED
    BY <1>1, <1>2, BatchFits, PTL DEF Spec

(* The counters of the state row are the numbers of items that have ended  *)
(* and that failed (completeItem).                                         *)
THEOREM CountersAreExact == Spec => []CountsExact
  <1>1. Inv1 /\ Inv2 => CountsExact
    BY DEF Inv2, WholeFits, Counted, Ended, Failed, CountsExact
  <1> QED
    BY <1>1, BatchWhole, PTL

(* The sink does not start, and the step does not complete, before every   *)
(* key of every page is an item that has ended; the chunks cover the items *)
(* in source order, each once (finalizeIfComplete, createSinkChunks).      *)
THEOREM SinkIsWhole == Spec => []SinkSeesAll
  <1>1. Inv1 /\ Inv2 => SinkSeesAll
    <2> SUFFICES ASSUME Inv1, Inv2, Len(db.chunk) > 0 \/ db.run = "completed"
                 PROVE  /\ Range(db.order) = Items /\ Len(db.order) = Cardinality(Items)
                        /\ \A i \in Items : db.item[i] \in EndedStatuses
                        /\ db.width > 0 =>
                            \A n \in DOMAIN db.order : \E c \in DOMAIN db.chunk :
                                /\ db.chunk[c].first <= n /\ n <= db.chunk[c].last
                                /\ \A b \in DOMAIN db.chunk : b < c => db.chunk[b].last < n
      BY DEF SinkSeesAll
    <2>1. DbFits(db) /\ SinkFits(db)
      BY DEF Inv1, Inv2, WholeFits
    <2>2. db.chunk \in Seq(ChunkRow)
      BY <2>1 DEF DbFits, Tables
    <2>3. Len(db.chunk) > 0 => db.chunk # <<>>
      BY <2>2, EmptySeq
    <2>4. Ended(db) = Items
      BY <2>1, <2>3 DEF SinkFits, Full
    <2>5. Range(db.order) = Items /\ Len(db.order) = Cardinality(Items)
      <3>1. Known(db) = Items
        BY <2>1, <2>4, KnownOrder DEF Known
      <3> QED
        BY <2>1, <3>1, KnownOrder
    <2>6. db.width > 0 => db.chunk # <<>> \/ Items = {}
      <3>1. db.width \in Widths \cup {0}
        BY <2>1 DEF DbFits, Tables
      <3>2. db.width > 0 => 0 \notin Widths
        BY <3>1, BatchAssumption
      <3> QED
        BY <2>1, <2>3, <3>2 DEF SinkFits
    <2>7. Items = {} => DOMAIN db.order = {}
      BY <2>5 DEF Range
    <2>8. db.chunk # <<>> \/ Items = {} => Covered(db)
      BY <2>1, <2>7 DEF SinkFits, Covered
    <2> QED
      BY <2>4, <2>5, <2>6, <2>8 DEF Ended, Covered
  <1> QED
    BY <1>1, BatchWhole, PTL

(* An item that has ended keeps its outcome, and a chunk that the sink     *)
(* acknowledged is not written again (completeItem, writeSinkChunk).       *)
THEOREM OutcomesStand == Spec => OutcomesAreFinal
  <1> DEFINE Stands ==
        /\ \A i \in Items : db.item[i] \in EndedStatuses => db'.item[i] = db.item[i]
        /\ \A c \in DOMAIN db.chunk : db.chunk[c].status = "completed" => db'.chunk[c].status = "completed"
  <1>1. Inv1 /\ UsedFits /\ Inv2 /\ [Next]_vars => [Stands]_vars
    BY NextWhole DEF Keeps
  <1>2. Spec => [][Stands]_vars
    <2> HIDE DEF Stands
    <2> QED
      BY <1>1, BatchWhole, PTL DEF Spec
  <1> QED
    BY <1>2 DEF OutcomesAreFinal

-----------------------------------------------------------------------------
(* The third layer: how the sink takes its chunks.                         *)

Write(c) == <<"write", c, 0>>
Written(d) == ChunksIn(d, "completed")

(* The jobs that write the chunks and finalize the sink.                   *)
Outputs == {Finalize} \cup {Write(c) : c \in Chunks}

(* Chunks that use up a slot of the sink.                                  *)
Busy(d) == {c \in DOMAIN d.chunk : \/ d.chunk[c].status = "running"
                                   \/ d.chunk[c].status = "pending" /\ Write(c) \in Queued(d)}

(* Slots are given in source order, and no more than there are; finalize   *)
(* is last.                                                                *)
WindowFits(d) ==
    /\ DOMAIN d.chunk \subseteq Chunks
    /\ \A c \in DOMAIN d.chunk : d.chunk[c].status = "failed" => d.run \in Over
    /\ d.run \notin Over => Cardinality(Busy(d)) <= d.width
    /\ \A e, c \in DOMAIN d.chunk : e < c /\ c \in Busy(d) /\ d.chunk[e].status = "pending" => e \in Busy(d)
    /\ Finalize \in Queued(d) \/ (d.run = "completed" /\ d.width > 0) => Written(d) = DOMAIN d.chunk

(* A serial sink has written the first chunks, and its state has been      *)
(* through them.                                                           *)
ThreadFits(d) ==
    d.width = 1 =>
        /\ \A e, c \in DOMAIN d.chunk : e < c /\ c \in Written(d) => e \in Written(d)
        /\ d.state = [n \in 1..Cardinality(Written(d)) |-> n]

Writing(r) == r.pc \in {"mark", "invoke", "commit"} /\ r.job[1] = "write"
Starting(r) == r.pc \in {"invoke", "commit"} /\ r.job[1] = "start"

(* What a handler of the sink has read is still so.                        *)
StillSo(r, d) ==
    /\ Writing(r) =>
        /\ \/ d.chunk[r.job[2]].status \in {"running", "failed"}
           \/ r.pc = "mark" /\ d.chunk[r.job[2]].status = "pending"
        /\ d.width = 1 => /\ r.state = d.state
                          /\ \A e \in DOMAIN d.chunk : e < r.job[2] => e \in Written(d)
    /\ Starting(r) => d.chunk = <<>>

(* The slots are kept whoever stalls.  The state is only as long as nobody *)
(* does: the commit of a chunk takes what its handler read for the truth.  *)
Inv3 ==
    /\ WindowFits(db)
    /\ Timely =>
        /\ ThreadFits(db)
        /\ \A h \in Handlers : StillSo(handler[h], db)
        /\ db.width = 1 => \A g, h \in Handlers : Writing(handler[g]) /\ Writing(handler[h]) => g = h

-----------------------------------------------------------------------------
(* The chunks stay as they are, or the ones that are open fail.            *)
SameChunks(d, e) == \A c \in DOMAIN d.chunk : e.chunk[c].status = d.chunk[c].status

OpenChunks == {"pending", "running"}

FailedChunks(d, e) ==
    /\ e.run \in Over
    /\ \A c \in DOMAIN d.chunk :
            e.chunk[c].status = IF d.chunk[c].status \in OpenChunks THEN "failed" ELSE d.chunk[c].status

(* A transaction that gives the sink nothing to do.                        *)
Calm(d, e) ==
    /\ e.width = d.width /\ e.state = d.state /\ DOMAIN e.chunk = DOMAIN d.chunk
    /\ \A j \in Outputs : j \in Queued(e) <=> j \in Queued(d)
    /\ d.run \in Over => e.run \in Over
    /\ e.run = "completed" => d.run = "completed" \/ d.width = 0 \/ Written(d) = DOMAIN d.chunk
    /\ SameChunks(d, e) \/ FailedChunks(d, e)

LEMMA CalmRefl ==
    ASSUME NEW d
    PROVE  Calm(d, d)
  BY DEF Calm, SameChunks

LEMMA CalmWritten ==
    ASSUME NEW d, NEW e, Calm(d, e)
    PROVE  Written(e) = Written(d)
  BY DEF Calm, SameChunks, FailedChunks, OpenChunks, Written, ChunksIn

LEMMA CalmTrans ==
    ASSUME NEW d, NEW e, NEW f, Calm(d, e), Calm(e, f)
    PROVE  Calm(d, f)
  <1>1. Written(e) = Written(d)
    BY CalmWritten
  <1>2. SameChunks(d, f) \/ FailedChunks(d, f)
    <2>1. CASE SameChunks(d, e) /\ SameChunks(e, f)
      BY <2>1 DEF Calm, SameChunks
    <2>2. CASE SameChunks(d, e) /\ FailedChunks(e, f)
      BY <2>2 DEF Calm, SameChunks, FailedChunks
    <2>3. CASE FailedChunks(d, e) /\ SameChunks(e, f)
      BY <2>3 DEF Calm, SameChunks, FailedChunks
    <2>4. CASE FailedChunks(d, e) /\ FailedChunks(e, f)
      BY <2>4 DEF Calm, FailedChunks, OpenChunks
    <2> QED
      BY <2>1, <2>2, <2>3, <2>4 DEF Calm
  <1> QED
    BY <1>1, <1>2 DEF Calm

LEMMA OutputJobs ==
    ASSUME NEW j \in Outputs
    PROVE  /\ j \in JobIds /\ j \in SinkJobs /\ j[1] \in {"write", "finalize"} /\ j # Start
           /\ j[1] = "write" => j[2] \in Chunks /\ j = Write(j[2])
  BY DEF Outputs, Write, JobIds, SinkJobs, Start, Finalize

(* A transaction of other tables.                                          *)
LEMMA CalmElsewhere ==
    ASSUME NEW d, NEW e, e.run = d.run, e.width = d.width, e.state = d.state, e.chunk = d.chunk,
           \A j \in Outputs : e.job[j].status = "absent" <=> d.job[j].status = "absent"
    PROVE  Calm(d, e)
  BY OutputJobs DEF Calm, SameChunks, Queued

LEMMA CalmColumns ==
    ASSUME NEW d, DbFits(d), NEW e, \A x \in {"run", "width", "state", "chunk", "job"} : e[x] = d[x]
    PROVE  Calm(d, e)
  BY CalmElsewhere

LEMMA CalmJobs ==
    ASSUME NEW d, DbFits(d), NEW e, \A x \in DOMAIN d \ {"job"} : e[x] = d[x],
           \A j \in Outputs : e.job[j].status = "absent" <=> d.job[j].status = "absent"
    PROVE  Calm(d, e)
  <1>1. {"run", "width", "state", "chunk"} \subseteq DOMAIN d \ {"job"}
    BY DEF DbFits, Tables
  <1> QED
    BY <1>1, CalmElsewhere

LEMMA CalmEnqueue ==
    ASSUME NEW d, DbFits(d), NEW S, NEW s, \A j \in S : j \notin Outputs
    PROVE  Calm(d, Enqueue(d, S, s))
  <1> DEFINE e == Enqueue(d, S, s)
  <1>1. /\ \A x \in DOMAIN d \ {"job"} : e[x] = d[x]
        /\ \A j \in Outputs : e.job[j] = d.job[j]
    BY EnqueueJobs, OutputJobs
  <1> HIDE DEF e
  <1>2. Calm(d, e)
    BY <1>1, CalmJobs
  <1> QED
    BY <1>2 DEF e

LEMMA CalmSchedule ==
    ASSUME NEW d, DbFits(d)
    PROVE  Calm(d, ScheduleSourcePage(d))
  <1> DEFINE S == {<<"source", d.cursor, 0>>}
             e == Enqueue(d, S, "pending")
             f == [e EXCEPT !.queued = TRUE]
  <1>1. ScheduleSourcePage(d) = d \/ ScheduleSourcePage(d) = f
    BY Zenon DEF ScheduleSourcePage
  <1>2. \A j \in S : j \notin Outputs
    BY OutputJobs
  <1> HIDE DEF S
  <1>3. Calm(d, e)
    BY <1>2, CalmEnqueue
  <1>4. DOMAIN e = DOMAIN d
    BY DEF Enqueue
  <1>5. DOMAIN e \in {DOMAIN d} /\ {"run", "width", "state", "chunk", "job"} \subseteq DOMAIN d
    BY <1>4 DEF DbFits, Tables
  <1> HIDE DEF e
  <1>6. /\ f.run = e.run /\ f.width = e.width /\ f.state = e.state /\ f.chunk = e.chunk /\ f.job = e.job
    BY <1>5
  <1> HIDE DEF f
  <1>7. Calm(e, f)
    BY <1>6, CalmElsewhere
  <1> QED
    BY <1>1, <1>3, <1>7, CalmRefl, CalmTrans

LEMMA CalmFinalize ==
    ASSUME NEW d, DbFits(d)
    PROVE  Calm(d, FinalizeIfComplete(d))
  <1>1. FinalizeIfComplete(d) = d \/ FinalizeIfComplete(d) = Enqueue(d, {Start}, "pending")
    BY DEF FinalizeIfComplete
  <1>2. Start \notin Outputs
    BY OutputJobs
  <1> QED
    BY <1>1, <1>2, CalmRefl, CalmEnqueue

LEMMA CalmEndScope ==
    ASSUME NEW d, DbFits(d), NEW s \in Over, NEW keep
    PROVE  Calm(d, EndScope(d, s, keep))
  <1> DEFINE f == [j \in JobIds |-> IF LiveJob(d, j) /\ j \notin keep
                                    THEN [d.job[j] EXCEPT !.status = "canceled", !.holder = NoHandler]
                                    ELSE d.job[j]]
             e == EndScope(d, s, keep)
  <1>1. /\ e.run = s /\ e.width = d.width /\ e.state = d.state /\ e.chunk = d.chunk /\ e.job = f
    BY DEF EndScope, DbFits, Tables
  <1>2. \A j \in JobIds : f[j].status = "absent" <=> d.job[j].status = "absent"
    <2> SUFFICES ASSUME NEW j \in JobIds
                 PROVE  f[j].status = "absent" <=> d.job[j].status = "absent"
      OBVIOUS
    <2>1. d.job[j] \in JobRow
      BY DEF DbFits, Tables
    <2> QED
      BY <2>1 DEF JobRow, LiveJob, LiveStatuses
  <1> HIDE DEF e, f
  <1>3. Calm(d, e)
    BY <1>1, <1>2, OutputJobs DEF Calm, SameChunks, Queued, Over
  <1> QED
    BY <1>3 DEF e

LEMMA CalmFailStep ==
    ASSUME NEW d, DbFits(d), NEW keep
    PROVE  Calm(d, FailStep(d, keep))
  <1>1. CASE d.run # "active"
    BY <1>1, CalmRefl DEF FailStep
  <1>2. CASE d.run = "active"
    <2> DEFINE e == EndScope(d, "failed", keep)
               resolved(m) == [i \in Items |-> IF m[i] = "pending" THEN "resolved" ELSE m[i]]
               inv == [v \in Invocations |-> [e.inv[v] EXCEPT !.member = resolved(e.inv[v].member)]]
               chunk == [c \in DOMAIN d.chunk |-> IF d.chunk[c].status \in {"pending", "running"}
                                                  THEN [d.chunk[c] EXCEPT !.status = "failed"] ELSE d.chunk[c]]
               g == [e EXCEPT !.inv = inv, !.closed = d.rows, !.chunk = chunk]
    <2>1. FailStep(d, keep) = g
      BY <1>2, Zenon DEF FailStep
    <2>2. Calm(d, e) /\ e.run \in Over
      <3>1. e.run = "failed"
        BY DEF EndScope, DbFits, Tables
      <3> QED
        BY <3>1, CalmEndScope DEF Over
    <2>3. DOMAIN e = DOMAIN d /\ {"run", "width", "state", "chunk", "job"} \subseteq DOMAIN d
      BY DEF EndScope, DbFits, Tables
    <2>4. e.chunk = d.chunk
      BY DEF EndScope, DbFits, Tables
    <2>5. /\ DOMAIN chunk = DOMAIN d.chunk
          /\ \A c \in DOMAIN d.chunk :
                chunk[c].status = IF d.chunk[c].status \in OpenChunks THEN "failed" ELSE d.chunk[c].status
      <3>1. \A c \in DOMAIN d.chunk : d.chunk[c] \in ChunkRow
        <4>1. d.chunk \in Seq(ChunkRow)
          BY DEF DbFits, Tables
        <4> HIDE DEF ChunkRow
        <4> QED
          BY <4>1
      <3> QED
        BY <3>1 DEF ChunkRow, OpenChunks
    <2> HIDE DEF e, inv, chunk
    <2>6. /\ g.run = e.run /\ g.width = e.width /\ g.state = e.state /\ g.job = e.job /\ g.chunk = chunk
      BY <2>3
    <2> HIDE DEF g
    <2>7. Calm(e, g)
      BY <2>2, <2>4, <2>5, <2>6, OutputJobs DEF Calm, FailedChunks, Queued, Over
    <2> QED
      BY <2>1, <2>2, <2>7, CalmTrans
  <1> QED
    BY <1>1, <1>2

LEMMA CalmCompleteItem ==
    ASSUME NEW d, DbFits(d), NEW i, NEW s
    PROVE  Calm(d, CompleteItem(d, i, s))
  <1> DEFINE e == CompleteItem(d, i, s)
  <1>1. e.run = d.run /\ e.width = d.width /\ e.state = d.state /\ e.chunk = d.chunk /\ e.job = d.job
    BY DEF CompleteItem, DbFits, Tables
  <1> HIDE DEF e
  <1>2. Calm(d, e)
    BY <1>1, CalmElsewhere
  <1> QED
    BY <1>2 DEF e

LEMMA CalmCompleteStep ==
    ASSUME NEW d, DbFits(d), NEW h, NEW j, d.width = 0 \/ Written(d) = DOMAIN d.chunk
    PROVE  Calm(d, CompleteStep(d, h, j))
  <1> DEFINE e == [d EXCEPT !.run = "completed"]
  <1>1. CompleteStep(d, h, j) = d \/ (CompleteStep(d, h, j) = e /\ d.run = "active")
    BY DEF CompleteStep
  <1>2. e.run = "completed" /\ e.width = d.width /\ e.state = d.state /\ e.chunk = d.chunk /\ e.job = d.job
    BY DEF DbFits, Tables
  <1> HIDE DEF e
  <1>3. d.run = "active" => Calm(d, e)
    BY <1>2, OutputJobs DEF Calm, SameChunks, Queued, Over
  <1> QED
    BY <1>1, <1>3, CalmRefl

(* A calm transaction leaves the chunks in order.                          *)
LEMMA CalmFits ==
    ASSUME NEW d, NEW e, WindowFits(d), Calm(d, e)
    PROVE  WindowFits(e) /\ (ThreadFits(d) => ThreadFits(e))
  <1>1. Written(e) = Written(d) /\ DOMAIN e.chunk = DOMAIN d.chunk /\ e.width = d.width
    BY CalmWritten DEF Calm
  <1>2. \A c \in DOMAIN d.chunk : Write(c) \in Queued(e) <=> Write(c) \in Queued(d)
    BY DEF WindowFits, Calm, Outputs
  <1>3. ThreadFits(d) => ThreadFits(e)
    BY <1>1 DEF ThreadFits, Calm
  <1>4. Finalize \in Queued(e) \/ (e.run = "completed" /\ e.width > 0) => Written(e) = DOMAIN e.chunk
    <2>1. Finalize \in Queued(e) => Finalize \in Queued(d)
      BY DEF Calm, Outputs
    <2>2. e.width > 0 => d.width # 0
      BY <1>1
    <2> QED
      BY <1>1, <2>1, <2>2 DEF WindowFits, Calm
  <1>5. CASE SameChunks(d, e)
    <2>1. Busy(e) = Busy(d)
      BY <1>1, <1>2, <1>5 DEF Busy, SameChunks
    <2>2. WindowFits(e)
      BY <1>1, <1>4, <1>5, <2>1 DEF WindowFits, Calm, SameChunks
    <2> QED
      BY <1>3, <2>2
  <1>6. CASE FailedChunks(d, e)
    <2>1. Busy(e) = {}
      BY <1>1, <1>6 DEF Busy, FailedChunks, OpenChunks
    <2>2. WindowFits(e)
      BY <1>1, <1>4, <1>6, <2>1 DEF WindowFits, FailedChunks
    <2> QED
      BY <1>3, <2>2
  <1> QED
    BY <1>5, <1>6 DEF Calm

-----------------------------------------------------------------------------
(* The transactions that the sink goes by.                                 *)
LEMMA ChunkSets ==
    ASSUME NEW d, WindowFits(d), NEW S \in SUBSET DOMAIN d.chunk
    PROVE  IsFiniteSet(S) /\ Cardinality(S) \in Nat
  <1>1. IsFiniteSet(Chunks)
    <2>1. Cardinality(Items) \in Nat
      BY BatchAssumption, FS_CardinalityType
    <2> QED
      BY <2>1, FS_Interval DEF Chunks
  <1>2. IsFiniteSet(S)
    BY <1>1, FS_Subset DEF WindowFits
  <1> QED
    BY <1>2, FS_CardinalityType

LEMMA WidthFits ==
    ASSUME NEW d, DbFits(d)
    PROVE  d.width \in Nat
  <1>1. Widths \subseteq Nat
    BY Zenon, BatchAssumption
  <1>2. d.width \in Widths \cup {0}
    <2>1. d \in Tables
      BY DEF DbFits
    <2> QED
      BY <2>1, Zenon DEF Tables
  <1>3. CASE d.width \in Widths
    BY <1>1, <1>3
  <1>4. CASE d.width = 0
    BY <1>4
  <1> QED
    BY <1>2, <1>3, <1>4

LEMMA LargestOf ==
    ASSUME NEW S \in SUBSET Nat, IsFiniteSet(S), S # {}
    PROVE  \E m \in S : \A c \in S : c <= m
  <1> DEFINE m == Nth(S, Cardinality(S))
             T == {c \in S : c <= m}
  <1>1. Cardinality(S) \in 1..Cardinality(S)
    <2>1. Cardinality(S) \in Nat /\ Cardinality(S) # 0
      BY FS_CardinalityType, FS_EmptySet
    <2> HIDE DEF m
    <2> QED
      BY <2>1
  <1>2. m \in S /\ Cardinality(T) = Cardinality(S)
    BY <1>1, NthFits
  <1> HIDE DEF m
  <1>3. T = S
    BY <1>2, FS_Subset
  <1> QED
    BY <1>2, <1>3

(* The first pending chunks, with those that run, fit in the window.       *)
LEMMA WindowHolds ==
    ASSUME NEW d, WindowFits(d), NEW width \in Nat
    PROVE  LET next == {c \in ChunksIn(d, "pending") :
                            Cardinality(ChunksIn(d, "running"))
                            + Cardinality({b \in ChunksIn(d, "pending") : b < c}) < width}
           IN  /\ Cardinality(ChunksIn(d, "running")) <= width
                      => Cardinality(ChunksIn(d, "running") \cup next) <= width
               /\ \A c \in next, b \in ChunksIn(d, "pending") : b < c => b \in next
  <1> DEFINE R == ChunksIn(d, "running")
             P == ChunksIn(d, "pending")
             Below(c) == {b \in P : b < c}
             next == {c \in P : Cardinality(R) + Cardinality(Below(c)) < width}
  <1>1. R \subseteq DOMAIN d.chunk /\ P \subseteq DOMAIN d.chunk /\ DOMAIN d.chunk \subseteq Nat
    BY DEF ChunksIn, WindowFits, Chunks
  <1> HIDE DEF R, P
  <1>2. /\ IsFiniteSet(R) /\ Cardinality(R) \in Nat
        /\ \A S \in SUBSET P : IsFiniteSet(S) /\ Cardinality(S) \in Nat
    BY <1>1, ChunkSets
  <1>3. ASSUME NEW c \in next, NEW b \in P, b < c
        PROVE  b \in next
    <2>1. Below(b) \subseteq Below(c)
      BY <1>1, <1>3
    <2>2. Cardinality(Below(b)) <= Cardinality(Below(c))
      BY <1>2, <2>1, FS_Subset
    <2>3. Cardinality(R) + Cardinality(Below(c)) < width
      BY <1>3
    <2>4. Cardinality(Below(b)) \in Nat /\ Cardinality(Below(c)) \in Nat
      BY <1>2
    <2> HIDE DEF Below
    <2> QED
      BY <1>2, <2>2, <2>3, <2>4
  <1>4. ASSUME Cardinality(R) <= width
        PROVE  Cardinality(R \cup next) <= width
    <2>1. CASE next = {}
      <3>1. R \cup next = R
        BY <2>1
      <3> QED
        BY <1>4, <3>1
    <2>2. CASE next # {}
      <3>1. IsFiniteSet(next) /\ next \subseteq Nat
        BY <1>1, <1>2
      <3>2. PICK m \in next : \A c \in next : c <= m
        <4> HIDE DEF next
        <4> QED
          BY <2>2, <3>1, LargestOf
      <3>3. next \subseteq Below(m) \cup {m}
        <4>1. \A c \in next : c \in P /\ (c < m \/ c = m)
          BY <3>1, <3>2
        <4> QED
          BY <4>1
      <3>4. m \in P /\ Cardinality(R) + Cardinality(Below(m)) < width
        BY <3>2
      <3>5. IsFiniteSet(Below(m)) /\ Cardinality(Below(m)) \in Nat /\ m \notin Below(m)
        BY <1>1, <1>2, <3>4
      <3> HIDE DEF next, Below
      <3>6. Cardinality(Below(m) \cup {m}) = Cardinality(Below(m)) + 1 /\ IsFiniteSet(Below(m) \cup {m})
        BY <3>5, FS_AddElement
      <3>7. Cardinality(next) <= Cardinality(Below(m) \cup {m})
        BY <3>3, <3>6, FS_Subset
      <3>8. Cardinality(R \cup next) = Cardinality(R) + Cardinality(next) - Cardinality(R \cap next)
        BY <1>2, <3>1, FS_Union
      <3>9. Cardinality(next) \in Nat /\ Cardinality(R \cap next) \in Nat
        <4>1. IsFiniteSet(R \cap next)
          BY <3>1, FS_Intersection, <1>2
        <4> QED
          BY <3>1, <4>1, FS_CardinalityType
      <3> QED
        BY <1>2, <3>4, <3>5, <3>6, <3>7, <3>8, <3>9
    <2> QED
      BY <2>1, <2>2
  <1> QED
    BY <1>3, <1>4 DEF R, P

(* enqueueNextSinkWork gives the next slots in order.                      *)
LEMMA NextSlots ==
    ASSUME NEW d, DbFits(d), WindowFits(d)
    PROVE  LET e == EnqueueNextSinkWork(d)
           IN  /\ WindowFits(e) /\ (ThreadFits(d) => ThreadFits(e))
               /\ e.run = d.run /\ e.width = d.width /\ e.state = d.state /\ e.chunk = d.chunk
  <1> DEFINE R == ChunksIn(d, "running")
             P == ChunksIn(d, "pending")
             next == {c \in P : Cardinality(R) + Cardinality({b \in P : b < c}) < d.width}
             S == {"write"} \X next \X {0}
             e == EnqueueNextSinkWork(d)
  <1>1. \/ e = d
        \/ e = Enqueue(d, S, "pending")
        \/ e = Enqueue(d, {Finalize}, "pending") /\ Written(d) = DOMAIN d.chunk
    BY DEF EnqueueNextSinkWork, Written
  <1>2. /\ P \subseteq DOMAIN d.chunk /\ next \subseteq P /\ DOMAIN d.chunk \subseteq Chunks
        /\ \A c \in P : d.chunk[c].status = "pending"
        /\ \A c \in R : c \in Busy(d)
    BY DEF ChunksIn, WindowFits, Busy
  <1>3. /\ \A x \in DOMAIN d \ {"job"} : e[x] = d[x]
    BY <1>1, EnqueueJobs
  <1>4. /\ e.run = d.run /\ e.width = d.width /\ e.state = d.state /\ e.chunk = d.chunk
        /\ d.width \in Nat
    BY <1>3, WidthFits DEF DbFits, Tables
  <1>5. ASSUME NEW T, e = Enqueue(d, T, "pending")
        PROVE  /\ \A j \in Outputs : j \in Queued(e) <=> j \in Queued(d) \/ j \in T
    <2>1. ASSUME NEW j \in JobIds
          PROVE  j \in Queued(e) <=> j \in Queued(d) \/ j \in T
      <3>1. CASE j \in T /\ ~LiveJob(d, j)
        BY <1>5, <3>1, EnqueueJobs, JobFresh DEF Queued
      <3>2. CASE j \in T /\ LiveJob(d, j)
        BY <1>5, <3>2, EnqueueJobs DEF Queued, LiveJob, LiveStatuses
      <3>3. CASE j \notin T
        BY <1>5, <3>3, EnqueueJobs DEF Queued
      <3> QED
        BY <3>1, <3>2, <3>3
    <2> QED
      BY <2>1, OutputJobs
  <1>6. Written(e) = Written(d) /\ (ThreadFits(d) => ThreadFits(e))
    BY <1>4 DEF Written, ChunksIn, ThreadFits
  <1> HIDE DEF e, S
  <1>7. e = d => WindowFits(e)
    OBVIOUS
  <1>8. ASSUME e = Enqueue(d, S, "pending")
        PROVE  WindowFits(e)
    <2>1. \A c \in DOMAIN d.chunk : Write(c) \in Queued(e) <=> Write(c) \in Queued(d) \/ c \in next
      <3>1. \A c \in DOMAIN d.chunk : Write(c) \in Outputs /\ (Write(c) \in S <=> c \in next)
        BY <1>2 DEF Outputs, Write, S
      <3> HIDE DEF next
      <3> QED
        BY <1>5, <1>8, <3>1
    <2>2. Finalize \in Queued(e) <=> Finalize \in Queued(d)
      <3>1. Finalize \in Outputs /\ Finalize \notin S
        BY DEF Outputs, Finalize, S
      <3> QED
        BY <1>5, <1>8, <3>1
    <2> HIDE DEF next, R, P
    <2>3. Busy(e) = Busy(d) \cup next
      BY <1>2, <1>4, <2>1 DEF Busy
    <2>4. Cardinality(R) <= d.width => Cardinality(R \cup next) <= d.width
      BY <1>4, WindowHolds DEF next, R, P
    <2>5. \A c \in next, b \in P : b < c => b \in next
      BY <1>4, WindowHolds DEF next, R, P
    <2>6. ASSUME e.run \notin Over
          PROVE  Cardinality(Busy(e)) <= e.width
      <3>1. Cardinality(Busy(d)) <= d.width /\ Busy(d) \subseteq DOMAIN d.chunk
        BY <1>4, <2>6 DEF WindowFits, Busy
      <3>2. Cardinality(R) <= d.width
        <4>1. IsFiniteSet(Busy(d)) /\ R \subseteq Busy(d)
          BY <1>2, <3>1, ChunkSets
        <4>2. Cardinality(R) <= Cardinality(Busy(d)) /\ IsFiniteSet(R)
          BY <4>1, FS_Subset
        <4>3. Cardinality(R) \in Nat /\ Cardinality(Busy(d)) \in Nat
          BY <4>1, <4>2, FS_CardinalityType
        <4> QED
          BY <1>4, <3>1, <4>2, <4>3
      <3>3. CASE Busy(d) \subseteq R \cup next
        <4>1. Busy(e) = R \cup next
          BY <1>2, <2>3, <3>3
        <4> QED
          BY <1>4, <2>4, <3>2, <4>1
      <3>4. CASE ~(Busy(d) \subseteq R \cup next)
        <4>1. PICK q \in Busy(d) : q \notin R /\ q \notin next
          BY <3>4
        <4>2. q \in P /\ q \in DOMAIN d.chunk
          BY <4>1 DEF Busy, R, P, ChunksIn
        <4>3. ASSUME NEW n \in next
              PROVE  n \in Busy(d)
          <5>1. n \in DOMAIN d.chunk /\ n \in Nat /\ q \in Nat /\ d.chunk[n].status = "pending"
            BY <1>2, <4>2 DEF Chunks
          <5>2. n < q
            BY <2>5, <4>1, <4>2, <5>1
          <5> QED
            BY <4>2, <5>1, <5>2 DEF WindowFits
        <4>4. Busy(e) = Busy(d)
          BY <2>3, <4>3
        <4> QED
          BY <1>4, <3>1, <4>4
      <3> QED
        BY <3>3, <3>4
    <2>7. ASSUME NEW b \in DOMAIN d.chunk, NEW c \in Busy(d) \cup next, b < c, d.chunk[b].status = "pending"
          PROVE  b \in Busy(d) \cup next
      <3>1. c \in DOMAIN d.chunk /\ b \in P
        BY <1>2, <2>7 DEF Busy, P, ChunksIn
      <3> QED
        BY <2>5, <2>7, <3>1 DEF WindowFits
    <2>8. WindowFits(e)
      BY <1>4, <1>6, <2>2, <2>3, <2>6, <2>7 DEF WindowFits
    <2> QED
      BY <2>8
  <1>9. ASSUME e = Enqueue(d, {Finalize}, "pending"), Written(d) = DOMAIN d.chunk
        PROVE  WindowFits(e)
    <2>1. \A c \in DOMAIN d.chunk : Write(c) \in Queued(e) <=> Write(c) \in Queued(d)
      <3>1. \A c \in DOMAIN d.chunk : Write(c) \in Outputs /\ Write(c) # Finalize
        BY <1>2 DEF Outputs, Write, Finalize
      <3> QED
        BY <1>5, <1>9, <3>1
    <2>2. Busy(e) = Busy(d)
      BY <1>4, <2>1 DEF Busy
    <2>3. WindowFits(e)
      BY <1>4, <1>6, <1>9, <2>2 DEF WindowFits
    <2> QED
      BY <2>3
  <1>10. WindowFits(e) /\ (ThreadFits(d) => ThreadFits(e)) /\ e.run = d.run /\ e.width = d.width /\ e.state = d.state /\ e.chunk = d.chunk
    BY <1>1, <1>4, <1>6, <1>7, <1>8, <1>9
  <1> QED
    BY <1>10 DEF e

-----------------------------------------------------------------------------
(* The handlers of the sink.                                               *)
LEMMA WritingThere ==
    ASSUME Inv1, Inv2, NEW h \in Handlers, Writing(handler[h])
    PROVE  /\ handler[h].pc \in Work /\ handler[h].job \in JobIds /\ handler[h].job \in Queued(db)
           /\ handler[h].job = Write(handler[h].job[2]) /\ handler[h].job[2] \in DOMAIN db.chunk
  <1>1. handler[h].pc \in Work /\ handler[h].job[1] = "write"
    BY DEF Writing, Work
  <1>2. handler[h].job \in JobIds /\ handler[h].job \in Queued(db) /\ DbFits(db) /\ WholeFits(db)
    BY <1>1, WorkWhole
  <1> QED
    BY <1>1, <1>2, ChunkThere, JobParts DEF Write

LEMMA CalmSo ==
    ASSUME NEW d, DbFits(d), NEW e, DbFits(e), Calm(d, e), NEW r, StillSo(r, d),
           Writing(r) => r.job[2] \in DOMAIN d.chunk
    PROVE  StillSo(r, e)
  <1>1. Written(e) = Written(d) /\ e.width = d.width /\ e.state = d.state /\ DOMAIN e.chunk = DOMAIN d.chunk
    BY CalmWritten DEF Calm
  <1>2. d.chunk = <<>> => e.chunk = <<>>
    BY <1>1, EmptyChunks
  <1>3. Writing(r) => \/ e.chunk[r.job[2]].status \in {"running", "failed"}
                      \/ r.pc = "mark" /\ e.chunk[r.job[2]].status = "pending"
    BY DEF StillSo, Calm, SameChunks, FailedChunks, OpenChunks
  <1> QED
    BY <1>1, <1>2, <1>3 DEF StillSo

(* A calm step after which no handler writes or starts that did not.       *)
LEMMA SinkCalm ==
    ASSUME Inv1, Inv2, Inv3, Inv1', Remembers, Calm(db, db'),
           \A g \in Handlers : /\ Writing(handler'[g]) => /\ Writing(handler[g])
                                                          /\ handler'[g].job = handler[g].job
                                                          /\ handler'[g].state = handler[g].state
                                                          /\ handler[g].pc # "mark" \/ handler'[g].pc = "mark"
                               /\ Starting(handler'[g]) => Starting(handler[g])
    PROVE  Inv3'
  <1>1. WindowFits(db') /\ db'.width = db.width /\ (Timely => ThreadFits(db'))
    BY CalmFits DEF Inv3, Calm
  <1>2. ASSUME Timely, NEW g \in Handlers
        PROVE  StillSo(handler'[g], db')
    <2>1. StillSo(handler[g], db')
      BY <1>2, WritingThere, CalmSo DEF Inv1, Inv3
    <2> QED
      BY <2>1 DEF StillSo
  <1> QED
    BY <1>1, <1>2 DEF Inv3, Remembers

LEMMA SinkOutside ==
    ASSUME Inv1, Inv2, Inv3, Inv1', Remembers, Calm(db, db'), handler' = handler
    PROVE  Inv3'
  BY SinkCalm

LEMMA SinkSteps ==
    ASSUME Inv1, Inv2, Inv3, Inv1', Remembers, Calm(db, db'), NEW h \in Handlers, NEW r,
           handler' = [handler EXCEPT ![h] = r],
           Writing(r) => /\ Writing(handler[h]) /\ r.job = handler[h].job /\ r.state = handler[h].state
                         /\ handler[h].pc # "mark" \/ r.pc = "mark",
           Starting(r) => Starting(handler[h])
    PROVE  Inv3'
  <1>1. /\ handler'[h] = r
        /\ \A g \in Handlers \ {h} : handler'[g] = handler[g]
    BY DEF Inv1, HandlersFit
  <1> QED
    BY <1>1, SinkCalm

LEMMA SinkGoes ==
    ASSUME Inv1, Inv2, Inv3, Inv1', Remembers, Calm(db, db'), NEW h \in Handlers,
           handler[h].pc \in Work, NEW pc, Goto(h, pc),
           \/ pc \notin {"mark", "invoke", "commit"}
           \/ pc = "commit" /\ handler[h].pc = "invoke"
           \/ handler[h].job[1] = "physical"
    PROVE  Inv3'
  <1> DEFINE q == handler[h]
  <1>1. CASE pc \in Leave
    <2> DEFINE r == [Idle EXCEPT !.pc = pc, !.job = q.job]
    <2>1. handler' = [handler EXCEPT ![h] = r]
      BY <1>1, Zenon DEF Goto, Leave
    <2>2. r.pc = pc
      BY DEF Idle
    <2> HIDE DEF r
    <2>4. ~Writing(r) /\ ~Starting(r)
      BY <1>1, <2>2 DEF Writing, Starting, Leave
    <2> QED
      BY <2>1, <2>4, SinkSteps
  <1>2. CASE pc \notin Leave
    <2> DEFINE r == [q EXCEPT !.pc = pc]
    <2>1. handler' = [handler EXCEPT ![h] = r]
      BY <1>2 DEF Goto, Leave
    <2>2. HandlerRow(q)
      BY AtWork
    <2> HIDE DEF q
    <2>4. r.pc = pc /\ r.job = q.job /\ r.state = q.state
      BY <2>2 DEF HandlerRow, Columns
    <2> HIDE DEF r
    <2>5. /\ Writing(r) => /\ Writing(handler[h]) /\ r.job = handler[h].job /\ r.state = handler[h].state
                           /\ handler[h].pc # "mark" \/ r.pc = "mark"
          /\ Starting(r) => Starting(handler[h])
      BY <2>4 DEF Writing, Starting, q
    <2> QED
      BY <2>1, <2>5, SinkSteps
  <1> QED
    BY <1>1, <1>2

LEMMA CalmClaimed ==
    ASSUME Inv1, NEW h \in Handlers, NEW j \in JobIds, Claimable(h, j)
    PROVE  Calm(db, Claimed(h, j))
  <1> DEFINE c == Claimed(h, j)
  <1>1. /\ \A x \in DOMAIN db \ {"job"} : c[x] = db[x]
        /\ \A k \in JobIds : k # j => c.job[k] = db.job[k]
        /\ c.job[j].status = "running" /\ db.job[j].status \in {"pending", "parked", "later"}
    BY ClaimedFits DEF Inv1
  <1> HIDE DEF c
  <1>2. \A k \in Outputs : c.job[k].status = "absent" <=> db.job[k].status = "absent"
    BY <1>1, OutputJobs
  <1>3. Calm(db, c)
    BY <1>1, <1>2, CalmJobs DEF Inv1
  <1> QED
    BY <1>3 DEF c

LEMMA SinkTakes ==
    ASSUME Inv1, Inv2, Inv3, Inv1', Remembers, NEW h \in Handlers, NEW j \in JobIds, Claimable(h, j),
           Calm(Claimed(h, j), db'), NEW r, handler' = [handler EXCEPT ![h] = r], r.job = j,
           r.pc \in {"mark", "invoke", "commit"} => j[1] \notin {"write", "start"}
    PROVE  Inv3'
  <1>1. Calm(db, db')
    BY CalmClaimed, CalmTrans
  <1>2. ~Writing(r) /\ ~Starting(r)
    BY DEF Writing, Starting
  <1> QED
    BY <1>1, <1>2, SinkSteps

(* Settling gives the job a row again.                                     *)
LEMMA SinkSettles ==
    ASSUME Inv1, Inv2, Inv3, Inv1', Remembers, NEW h \in Handlers, handler[h].pc \in Leave,
           NEW d, DbFits(d), Calm(db, d), NEW row, row.status # "absent", Settle(h, d, row)
    PROVE  Inv3'
  <1> DEFINE j == handler[h].job
             e == [d EXCEPT !.job[j] = row]
             r == Idle
  <1>1. handler' = [handler EXCEPT ![h] = r] /\ db' = IF OwnsJob(db, h, j) THEN e ELSE d
    BY DEF Settle
  <1>2. r.pc = "idle"
    BY DEF Idle
  <1>3. j \in JobIds
    BY DEF Inv1, HandlersFit, HandlerFits, Leave
  <1>4. ASSUME OwnsJob(db, h, j)
        PROVE  Calm(d, e)
    <2>1. j \in Outputs => d.job[j].status # "absent"
      BY <1>3, <1>4 DEF OwnsJob, Queued, Calm
    <2>2. \A x \in DOMAIN d \ {"job"} : e[x] = d[x]
      OBVIOUS
    <2>3. e.job = [d.job EXCEPT ![j] = row]
      <3> HIDE DEF j
      <3> QED
        BY DEF DbFits, Tables
    <2> HIDE DEF j
    <2>4. e.job[j] = row /\ \A k \in JobIds : k # j => e.job[k] = d.job[k]
      BY <1>3, <2>3 DEF DbFits, Tables
    <2> HIDE DEF e
    <2>5. \A k \in Outputs : e.job[k].status = "absent" <=> d.job[k].status = "absent"
      BY <2>1, <2>4, OutputJobs
    <2> QED
      BY <2>2, <2>5, CalmJobs
  <1>5. Calm(db, db')
    <2> HIDE DEF e, j
    <2> QED
      BY <1>1, <1>4, CalmTrans
  <1> HIDE DEF r
  <1>6. ~Writing(r) /\ ~Starting(r)
    BY <1>2 DEF Writing, Starting
  <1> QED
    BY <1>1, <1>5, <1>6, SinkSteps

-----------------------------------------------------------------------------
(* The steps that give the sink nothing to do.                             *)
LEMMA SinkLoadContext ==
    ASSUME Inv1, Inv2, Inv3, Inv1', Remembers, NEW h \in Handlers, NEW j \in JobIds, LoadContext(h, j)
    PROVE  Inv3'
  <1> DEFINE pc == IF db.run = "paused" THEN "park" ELSE "return"
             r == Enter(h, j, pc)
  <1>1. Claimable(h, j) /\ db' = Claimed(h, j) /\ handler' = [handler EXCEPT ![h] = r]
    BY DEF LoadContext
  <1>2. r.pc = pc /\ r.job = j /\ pc \notin {"mark", "invoke", "commit"}
    BY EnterRow
  <1> HIDE DEF pc, r
  <1> QED
    BY <1>1, <1>2, CalmRefl, SinkTakes

LEMMA SinkSource ==
    ASSUME Inv1, Inv2, Inv3, Inv1', Remembers, NEW h \in Handlers, NEW j \in JobIds, BeginSource(h, j)
    PROVE  Inv3'
  <1> DEFINE pc == IF j[2] = 1 THEN "begin" ELSE "invoke"
             c == IF j[2] = 1 THEN 0 ELSE db.cursor
             q == Enter(h, j, pc)
             r == [q EXCEPT !.cursor = c]
  <1>1. /\ j[1] = "source" /\ Claimable(h, j) /\ db' = Claimed(h, j)
        /\ handler' = [handler EXCEPT ![h] = r]
    BY Zenon DEF BeginSource, Loads
  <1>2. HandlerRow(q) /\ q.job = j
    BY EnterRow
  <1> HIDE DEF q, c
  <1>3. r.job = j
    BY <1>2 DEF HandlerRow, Columns
  <1> HIDE DEF r
  <1> QED
    BY <1>1, <1>3, CalmRefl, SinkTakes

LEMMA SinkItem ==
    ASSUME Inv1, Inv2, Inv3, Inv1', Remembers, NEW h \in Handlers, NEW j \in JobIds, BeginItem(h, j)
    PROVE  Inv3'
  <1> DEFINE i == j[2]
             n == ItemAttempt(j)
             runs == Open(db, i)
             c == Claimed(h, j)
             m == [c EXCEPT !.item[i] = "running", !.attempt[i] = n]
             e == IF runs THEN m ELSE c
             o == IF i \in Physical /\ db.passed[i] = {} THEN "suspended" ELSE "none"
             q == Enter(h, j, "invoke")
             r == IF runs THEN [q EXCEPT !.cursor = n, !.out = o] ELSE Enter(h, j, "return")
  <1>1. j[1] = "item" /\ Claimable(h, j)
    BY DEF BeginItem, Loads
  <1>2. handler' = [handler EXCEPT ![h] = r] /\ db' = e
    <2>1. /\ handler' = [handler EXCEPT ![h] = IF ~runs THEN Enter(h, j, "return")
                                               ELSE [q EXCEPT !.cursor = n, !.out = o]]
          /\ db' = e
      BY Zenon DEF BeginItem
    <2> HIDE DEF runs, q, n, o, e
    <2> QED
      BY <2>1
  <1>3. r.job = j
    <2>1. HandlerRow(q) /\ q.job = j /\ Enter(h, j, "return").job = j
      BY EnterRow
    <2> HIDE DEF q, o, n, runs
    <2> QED
      BY <2>1 DEF HandlerRow, Columns
  <1>4. DbFits(c)
    BY <1>1, ClaimedWhole
  <1>5. Calm(c, e)
    <2> HIDE DEF c, n
    <2>1. \A x \in {"run", "width", "state", "chunk", "job"} : m[x] = c[x]
      BY <1>4 DEF DbFits, Tables
    <2> HIDE DEF m
    <2> QED
      BY <1>4, <2>1, CalmColumns, CalmRefl
  <1> HIDE DEF r, e, c
  <1> QED
    BY <1>1, <1>2, <1>3, <1>5, SinkTakes DEF c

LEMMA SinkMembers ==
    ASSUME Inv1, Inv2, Inv3, Inv1', Remembers, NEW h \in Handlers, NEW j \in JobIds, ReadMembers(h, j)
    PROVE  Inv3'
  <1> DEFINE inv == db.inv[j[2]]
             members == {i \in Items : inv.member[i] = "pending"}
             over == inv.status \in {"completed", "canceled"} \/ members = {}
             q == Enter(h, j, "mark")
             r == IF over THEN Enter(h, j, "return")
                  ELSE [q EXCEPT !.items = [i \in members |-> db.attempt[i]]]
  <1>1. j[1] = "physical" /\ Claimable(h, j) /\ db' = Claimed(h, j) /\ handler' = [handler EXCEPT ![h] = r]
    BY Zenon DEF ReadMembers, Loads
  <1>2. r.job = j
    <2> HIDE DEF over, members
    <2>1. HandlerRow(q) /\ q.job = j
      BY EnterRow
    <2> HIDE DEF q
    <2> QED
      BY <2>1, EnterRow DEF HandlerRow, Columns
  <1> HIDE DEF r
  <1> QED
    BY <1>1, <1>2, CalmRefl, SinkTakes

LEMMA SinkFinalizeBegun ==
    ASSUME Inv1, Inv2, Inv3, Inv1', Remembers, NEW h \in Handlers, NEW j \in JobIds, BeginFinalize(h, j)
    PROVE  Inv3'
  <1> DEFINE q == Enter(h, j, "invoke")
             r == [q EXCEPT !.state = db.state]
  <1>1. /\ j[1] = "finalize" /\ Claimable(h, j) /\ db' = Claimed(h, j)
        /\ handler' = [handler EXCEPT ![h] = r]
    BY Zenon DEF BeginFinalize, Loads
  <1>2. HandlerRow(q) /\ q.job = j
    BY EnterRow
  <1> HIDE DEF q
  <1>3. r.job = j
    BY <1>2 DEF HandlerRow, Columns
  <1> HIDE DEF r
  <1> QED
    BY <1>1, <1>3, CalmRefl, SinkTakes

LEMMA SinkLeft ==
    ASSUME Inv1, Inv2, Inv3, Inv1', Remembers, NEW h \in Handlers, handler[h].pc \in Work, db' = db,
           NEW pc, Goto(h, pc),
           \/ pc \notin {"mark", "invoke", "commit"}
           \/ pc = "commit" /\ handler[h].pc = "invoke"
    PROVE  Inv3'
  BY CalmRefl, SinkGoes

LEMMA SinkBeginAttempt ==
    ASSUME Inv1, Inv2, Inv3, Inv1', Remembers, NEW h \in Handlers, BeginAttempt(h)
    PROVE  Inv3'
  <1>1. handler[h].pc = "begin" /\ db' = db /\ handler[h].pc \in Work
    BY DEF BeginAttempt, At, Work
  <1>2. CASE db.run = "active" /\ OwnsJob(db, h, handler[h].job)
    <2> DEFINE q == handler[h]
               o == IF db.snapshot THEN "none" ELSE "initialize"
               r == [q EXCEPT !.cursor = db.cursor, !.pc = "invoke", !.out = o]
    <2>1. handler' = [handler EXCEPT ![h].cursor = db.cursor, ![h].pc = "invoke", ![h].out = o]
      BY <1>2 DEF BeginAttempt
    <2> HIDE DEF o
    <2>2. handler' = [handler EXCEPT ![h] = r]
      BY <1>1, <2>1, AtWork
    <2>3. HandlerRow(q) /\ q.job[1] = "source"
      BY <1>1, AtWork DEF HandlerFits, Reads
    <2> HIDE DEF q
    <2>4. r.job = q.job
      BY <2>3 DEF HandlerRow, Columns
    <2> HIDE DEF r
    <2>5. ~Writing(r) /\ ~Starting(r)
      BY <2>3, <2>4 DEF Writing, Starting
    <2> QED
      BY <1>1, <2>2, <2>5, CalmRefl, SinkSteps
  <1>3. CASE ~(db.run = "active" /\ OwnsJob(db, h, handler[h].job))
    <2>1. Goto(h, "return")
      BY <1>3 DEF BeginAttempt
    <2> QED
      BY <1>1, <2>1, SinkLeft
  <1> QED
    BY <1>2, <1>3

LEMMA SinkFenced ==
    ASSUME Inv1, Inv2, Inv3, Inv1', Remembers, NEW h \in Handlers, Fenced(h)
    PROVE  Inv3'
  <1>1. handler[h].pc \in Work /\ Goto(h, "throw") /\ db' = db
    BY DEF Fenced, At, Work
  <1> QED
    BY <1>1, SinkLeft

LEMMA SinkThrottled ==
    ASSUME Inv1, Inv2, Inv3, Inv1', Remembers, NEW h \in Handlers, Throttled(h)
    PROVE  Inv3'
  <1>1. handler[h].pc \in Work /\ Goto(h, "defer") /\ db' = db
    BY DEF Throttled, At, Work
  <1> QED
    BY <1>1, SinkLeft

LEMMA CalmStatus ==
    ASSUME NEW d, DbFits(d), NEW v, NEW s
    PROVE  Calm(d, [d EXCEPT !.inv[v].status = s])
  <1> DEFINE e == [d EXCEPT !.inv[v].status = s]
  <1>1. \A x \in {"run", "width", "state", "chunk", "job"} : e[x] = d[x]
    BY DEF DbFits, Tables
  <1> HIDE DEF e
  <1>2. Calm(d, e)
    BY <1>1, CalmColumns
  <1> QED
    BY <1>2 DEF e

LEMMA CalmReopened ==
    ASSUME Inv1, NEW h
    PROVE  Calm(db, Reopened(h))
  <1> DEFINE j == handler[h].job
             s == IF handler[h].attempt >= MaxAttempts THEN "failed" ELSE "pending"
             e == [db EXCEPT !.inv[j[2]].status = s]
  <1>1. Reopened(h) = e
    BY Zenon DEF Reopened
  <1>2. Calm(db, e)
    <2> HIDE DEF s, j
    <2> QED
      BY CalmStatus DEF Inv1
  <1> HIDE DEF e
  <1> QED
    BY <1>1, <1>2

LEMMA SinkMark ==
    ASSUME Inv1, Inv2, Inv3, Inv1', Remembers, NEW h \in Handlers, MarkInvocation(h)
    PROVE  Inv3'
  <1> DEFINE v == handler[h].job[2]
             open == db.inv[v].status \in {"pending", "running"}
             e == [db EXCEPT !.inv[v].status = "running"]
             pc == IF open THEN "invoke" ELSE "throw"
  <1>1. /\ handler[h].pc = "mark" /\ db' = IF open THEN e ELSE db
        /\ Goto(h, pc)
    BY Zenon DEF MarkInvocation, At
  <1>2. handler[h].pc \in Work
    BY <1>1 DEF Work
  <1>3. handler[h].job[1] = "physical"
    BY Zenon DEF MarkInvocation, Kind
  <1>4. Calm(db, db')
    <2>1. Calm(db, e)
      <3> HIDE DEF v
      <3> QED
        BY CalmStatus DEF Inv1
    <2> HIDE DEF e, open
    <2> QED
      BY <1>1, <2>1, CalmRefl
  <1> HIDE DEF pc
  <1> QED
    BY <1>1, <1>2, <1>3, <1>4, SinkGoes

LEMMA SinkInvokeFails ==
    ASSUME Inv1, Inv2, Inv3, Inv1', Remembers, NEW h \in Handlers, InvokeFails(h)
    PROVE  Inv3'
  <1>1. /\ handler[h].pc \in Work /\ Goto(h, "throw")
        /\ db' = IF Kind(h) = "physical" THEN Reopened(h) ELSE db
    BY DEF InvokeFails, Answers, At, Work
  <1>2. Calm(db, db')
    BY <1>1, CalmReopened, CalmRefl
  <1> QED
    BY <1>1, <1>2, SinkGoes

LEMMA SinkDatabaseFails ==
    ASSUME Inv1, Inv2, Inv3, Inv1', Remembers, NEW h \in Handlers, DatabaseFails(h)
    PROVE  Inv3'
  <1>1. /\ handler[h].pc \in Work /\ Goto(h, "throw")
        /\ db' = IF Kind(h) = "physical" /\ ~At(h, "mark") THEN Reopened(h) ELSE db
    BY DEF DatabaseFails, Work
  <1>2. Calm(db, db')
    BY <1>1, CalmReopened, CalmRefl
  <1> QED
    BY <1>1, <1>2, SinkGoes

LEMMA SinkInvokeAnswers ==
    ASSUME Inv1, Inv2, Inv3, Inv1', Remembers, NEW h \in Handlers, InvokeAnswers(h)
    PROVE  Inv3'
  <1> DEFINE q == handler[h]
  <1>1. q.pc = "invoke" /\ db' = db
    BY DEF InvokeAnswers, Answers, At
  <1>2. q.pc \in Work
    BY <1>1 DEF Work
  <1>3. HandlerRow(q) /\ handler = [g \in Handlers |-> handler[g]]
    BY <1>2, AtWork
  <1>4. CASE \E o : handler' = [handler EXCEPT ![h].pc = "commit", ![h].out = o]
    <2>1. PICK o : handler' = [handler EXCEPT ![h].pc = "commit", ![h].out = o]
      BY <1>4
    <2> DEFINE r == [q EXCEPT !.pc = "commit", !.out = o]
    <2>2. handler' = [handler EXCEPT ![h] = r]
      BY <1>3, <2>1
    <2> HIDE DEF q
    <2>3. r.pc = "commit" /\ r.job = q.job /\ r.state = q.state
      BY <1>3 DEF HandlerRow, Columns
    <2> HIDE DEF r
    <2>4. /\ Writing(r) => /\ Writing(handler[h]) /\ r.job = handler[h].job /\ r.state = handler[h].state
                           /\ handler[h].pc # "mark"
          /\ Starting(r) => Starting(handler[h])
      BY <1>1, <2>3 DEF Writing, Starting, q
    <2> QED
      BY <1>1, <2>2, <2>4, CalmRefl, SinkSteps
  <1>5. CASE Goto(h, "commit")
    BY <1>1, <1>2, <1>5, SinkLeft
  <1> QED
    BY <1>4, <1>5 DEF InvokeAnswers

LEMMA CalmAccept ==
    ASSUME NEW d, DbFits(d), NEW p \in 1..Len(Pages)
    PROVE  Calm(d, AcceptSourcePage(d, p))
  <1>1. PICK f, S :
            /\ AcceptSourcePage(d, p) = Enqueue(f, S, "pending")
            /\ DbFits(f)
            /\ \A j \in S \cap JobIds : j[1] = "source" \/ (j[1] = "item" /\ j[2] \in Known(f) /\ j[3] = 0)
            /\ f.run = d.run /\ f.job = d.job /\ f.width = d.width /\ f.state = d.state /\ f.chunk = d.chunk
    BY PageTaken
  <1>2. Calm(d, f)
    BY <1>1, CalmElsewhere
  <1>3. \A j \in S : j \notin Outputs
    BY <1>1, OutputJobs
  <1> QED
    BY <1>1, <1>2, <1>3, CalmEnqueue, CalmTrans

LEMMA SinkCommitInitialize ==
    ASSUME Inv1, Inv2, Inv3, Inv1', Remembers, NEW h \in Handlers, CommitInitialize(h)
    PROVE  Inv3'
  <1> DEFINE q == handler[h]
             r == [q EXCEPT !.pc = "invoke", !.cursor = 0, !.out = "none"]
             e == [db EXCEPT !.snapshot = TRUE, !.cursor = 0, !.queued = FALSE]
  <1>1. /\ q.pc = "commit" /\ q.job[1] = "source" /\ db' = e
        /\ handler' = [handler EXCEPT ![h].pc = "invoke", ![h].cursor = 0, ![h].out = "none"]
    BY DEF CommitInitialize, At, Kind
  <1>2. q.pc \in Work
    BY <1>1 DEF Work
  <1>3. HandlerRow(q) /\ handler = [g \in Handlers |-> handler[g]]
    BY <1>2, AtWork
  <1>4. handler' = [handler EXCEPT ![h] = r]
    BY <1>1, <1>3
  <1>5. \A x \in {"run", "width", "state", "chunk", "job"} : e[x] = db[x]
    BY DEF Inv1, DbFits, Tables
  <1> HIDE DEF e
  <1>6. Calm(db, db')
    BY <1>1, <1>5, CalmColumns DEF Inv1
  <1>7. r.job = q.job
    <2> HIDE DEF q
    <2> QED
      BY <1>3 DEF HandlerRow, Columns
  <1> HIDE DEF r
  <1>8. ~Writing(r) /\ ~Starting(r)
    BY <1>1, <1>7 DEF Writing, Starting
  <1> QED
    BY <1>4, <1>6, <1>8, SinkSteps

LEMMA SinkCommitPage ==
    ASSUME Inv1, Inv2, Inv3, Inv1', Remembers, NEW h \in Handlers, CommitPage(h)
    PROVE  Inv3'
  <1> DEFINE q == handler[h]
             p == IF handler[h].cursor = 0 THEN 1 ELSE handler[h].cursor
             pc == IF p = Len(Pages) THEN "count" ELSE "return"
  <1>1. q.pc = "commit" /\ q.job[1] = "source" /\ db' = AcceptSourcePage(db, p) /\ Goto(h, pc)
    BY DEF CommitPage, At, Kind
  <1>2. q.pc \in Work
    BY <1>1 DEF Work
  <1>3. p \in 1..Len(Pages)
    <2>1. q.cursor \in 0..Len(Pages)
      BY <1>1, <1>2, AtWork DEF HandlerFits, Reads
    <2>2. Len(Pages) \in Nat \ {0}
      BY PagesThere
    <2> QED
      BY <2>1, <2>2
  <1>4. Calm(db, db')
    <2> HIDE DEF p
    <2> QED
      BY <1>1, <1>3, CalmAccept DEF Inv1
  <1>5. pc \notin {"mark", "invoke", "commit"}
    OBVIOUS
  <1> HIDE DEF pc
  <1> QED
    BY <1>1, <1>2, <1>4, <1>5, SinkGoes

LEMMA SinkRetryItem ==
    ASSUME Inv1, Inv2, Inv3, Inv1', Remembers, NEW h \in Handlers, RetryItem(h)
    PROVE  Inv3'
  <1> DEFINE i == handler[h].job[2]
             n == handler[h].cursor + 1
             e == [db EXCEPT !.item[i] = "pending", !.attempt[i] = n]
  <1>1. /\ handler[h].pc \in Work /\ Goto(h, "throw")
        /\ db' = IF Open(db, i) THEN e ELSE db
    BY DEF RetryItem, At, Work
  <1>2. Calm(db, e)
    <2> HIDE DEF i, n
    <2>1. \A x \in {"run", "width", "state", "chunk", "job"} : e[x] = db[x]
      BY DEF Inv1, DbFits, Tables
    <2> HIDE DEF e
    <2> QED
      BY <2>1, CalmColumns DEF Inv1
  <1> HIDE DEF e
  <1>3. Calm(db, db')
    BY <1>1, <1>2, CalmRefl
  <1> QED
    BY <1>1, <1>3, SinkGoes

LEMMA SinkCommitItem ==
    ASSUME Inv1, Inv2, Inv3, Inv1', Remembers, NEW h \in Handlers, CommitItem(h)
    PROVE  Inv3'
  <1> DEFINE i == handler[h].job[2]
             pc == IF Open(db, i) THEN "after" ELSE "return"
  <1>1. handler[h].pc \in Work /\ db' = CompleteItem(db, i, handler[h].out) /\ Goto(h, pc)
    BY DEF CommitItem, At, Work
  <1>2. Calm(db, db')
    BY <1>1, CalmCompleteItem DEF Inv1
  <1>3. pc \notin {"mark", "invoke", "commit"}
    OBVIOUS
  <1> HIDE DEF pc
  <1> QED
    BY <1>1, <1>2, <1>3, SinkGoes

LEMMA SinkApplyFailurePolicy ==
    ASSUME Inv1, Inv2, Inv3, Inv1', Remembers, NEW h \in Handlers, ApplyFailurePolicy(h)
    PROVE  Inv3'
  <1> DEFINE j == handler[h].job
             stop == handler[h].out = "failed" /\ db.failed >= MaxFailures
             pc == IF stop THEN Back(h) ELSE "schedule"
  <1>1. /\ handler[h].pc = "after" /\ Goto(h, pc)
        /\ db' = IF stop /\ OwnsJob(db, h, j) THEN FailStep(db, {j}) ELSE db
    BY DEF ApplyFailurePolicy, At
  <1>2. handler[h].pc \in Work
    BY <1>1 DEF Work
  <1>3. pc \notin {"mark", "invoke", "commit"}
    BY DEF Back
  <1> HIDE DEF pc, stop
  <1>4. Calm(db, db')
    BY <1>1, CalmFailStep, CalmRefl DEF Inv1
  <1> QED
    BY <1>1, <1>2, <1>3, <1>4, SinkGoes

LEMMA SinkScheduleNext ==
    ASSUME Inv1, Inv2, Inv3, Inv1', Remembers, NEW h \in Handlers, ScheduleNext(h)
    PROVE  Inv3'
  <1>1. handler[h].pc \in Work /\ db' = ScheduleSourcePage(db) /\ Goto(h, "count")
    BY DEF ScheduleNext, At, Work
  <1> QED
    BY <1>1, CalmSchedule, SinkGoes DEF Inv1

LEMMA SinkCountEnded ==
    ASSUME Inv1, Inv2, Inv3, Inv1', Remembers, NEW h \in Handlers, CountEnded(h)
    PROVE  Inv3'
  <1> DEFINE pc == IF db.done /\ db.ended >= Len(db.order) THEN "finalize" ELSE Back(h)
  <1>1. handler[h].pc \in Work /\ db' = db /\ Goto(h, pc)
    BY DEF CountEnded, At, Work
  <1>2. pc \notin {"mark", "invoke", "commit"}
    BY DEF Back
  <1> HIDE DEF pc
  <1> QED
    BY <1>1, <1>2, SinkLeft

LEMMA SinkQueueSink ==
    ASSUME Inv1, Inv2, Inv3, Inv1', Remembers, NEW h \in Handlers, QueueSink(h)
    PROVE  Inv3'
  <1>1. handler[h].pc \in Work /\ db' = FinalizeIfComplete(db) /\ Goto(h, Back(h))
    BY DEF QueueSink, At, Work
  <1>2. Back(h) \notin {"mark", "invoke", "commit"}
    BY DEF Back
  <1>3. Calm(db, db')
    BY <1>1, CalmFinalize DEF Inv1
  <1> QED
    BY <1>1, <1>2, <1>3, SinkGoes

LEMMA SinkLookForInvocation ==
    ASSUME Inv1, Inv2, Inv3, Inv1', Remembers, NEW h \in Handlers, LookForInvocation(h)
    PROVE  Inv3'
  <1> DEFINE q == handler[h]
             W == OpenWindows(db)
             r == [q EXCEPT !.pc = "join", !.left = W]
  <1>1. /\ q.pc = "commit" /\ db' = db
        /\ handler' = [handler EXCEPT ![h].pc = "join", ![h].left = W]
    BY DEF LookForInvocation, At
  <1>2. q.pc \in Work
    BY <1>1 DEF Work
  <1>3. HandlerRow(q) /\ handler = [g \in Handlers |-> handler[g]]
    BY <1>2, AtWork
  <1> HIDE DEF W
  <1>4. handler' = [handler EXCEPT ![h] = r]
    BY <1>1, <1>3
  <1>5. r.pc = "join"
    <2> HIDE DEF q
    <2> QED
      BY <1>3 DEF HandlerRow, Columns
  <1> HIDE DEF r
  <1>6. ~Writing(r) /\ ~Starting(r)
    BY <1>5 DEF Writing, Starting
  <1> QED
    BY <1>1, <1>4, <1>6, CalmRefl, SinkSteps

LEMMA CalmPark ==
    ASSUME NEW d, DbFits(d), NEW i, NEW n, NEW v
    PROVE  Calm(d, ParkAtPhysicalStep(d, i, n, v))
  <1> DEFINE e == ParkAtPhysicalStep(d, i, n, v)
  <1>1. \A x \in {"run", "width", "state", "chunk", "job"} : e[x] = d[x]
    BY DEF ParkAtPhysicalStep, DbFits, Tables
  <1> HIDE DEF e
  <1>2. Calm(d, e)
    BY <1>1, CalmColumns
  <1> QED
    BY <1>2 DEF e

LEMMA SinkJoins ==
    ASSUME Inv1, Inv2, Inv3, Inv1', Remembers, NEW h \in Handlers, handler[h].pc = "join",
           NEW v, Joins(h, v)
    PROVE  Inv3'
  <1> DEFINE q == handler[h]
             e == ParkAtPhysicalStep(db, q.job[2], q.cursor, v)
             o == IF e.inv[v].size >= MaxItems THEN "full" ELSE "none"
             r == [q EXCEPT !.pc = "enqueue", !.cursor = v, !.left = {}, !.out = o]
  <1>1. /\ db' = e
        /\ handler' = [handler EXCEPT ![h].pc = "enqueue", ![h].cursor = v, ![h].left = {}, ![h].out = o]
    BY Zenon DEF Joins
  <1>2. q.pc \in Work
    BY DEF Work
  <1>3. HandlerRow(q) /\ DbFits(db) /\ handler = [g \in Handlers |-> handler[g]]
    BY <1>2, AtWork, WorkWhole
  <1> HIDE DEF o
  <1>4. handler' = [handler EXCEPT ![h] = r]
    <2> HIDE DEF e
    <2> QED
      BY <1>1, <1>3
  <1>5. Calm(db, e)
    <2> HIDE DEF q
    <2> QED
      BY <1>3, CalmPark
  <1> HIDE DEF e
  <1>6. Calm(db, db')
    BY <1>1, <1>5
  <1>7. r.pc = "enqueue"
    <2> HIDE DEF q
    <2> QED
      BY <1>3 DEF HandlerRow, Columns
  <1> HIDE DEF r
  <1>8. ~Writing(r) /\ ~Starting(r)
    BY <1>7 DEF Writing, Starting
  <1> QED
    BY <1>4, <1>6, <1>8, SinkSteps

LEMMA SinkCommitPark ==
    ASSUME Inv1, Inv2, Inv3, Inv1', Remembers, NEW h \in Handlers, CommitPark(h)
    PROVE  Inv3'
  <1>1. handler[h].pc = "join" /\ Joins(h, Admitting(db, OpenWindows(db)))
    BY DEF CommitPark, At
  <1> QED
    BY <1>1, SinkJoins

LEMMA SinkCommitLate ==
    ASSUME Inv1, Inv2, Inv3, Inv1', Remembers, NEW h \in Handlers, CommitLate(h)
    PROVE  Inv3'
  <1>1. handler[h].pc = "join" /\ Joins(h, Admitting(db, handler[h].left))
    BY DEF CommitLate, At
  <1> QED
    BY <1>1, SinkJoins

LEMMA SinkParkRefused ==
    ASSUME Inv1, Inv2, Inv3, Inv1', Remembers, NEW h \in Handlers, ParkRefused(h)
    PROVE  Inv3'
  <1>1. handler[h].pc \in Work /\ Goto(h, "throw") /\ db' = db
    BY DEF ParkRefused, At, Work
  <1> QED
    BY <1>1, SinkLeft

LEMMA SinkEnqueuePhysical ==
    ASSUME Inv1, Inv2, Inv3, Inv1', Remembers, NEW h \in Handlers, EnqueuePhysical(h)
    PROVE  Inv3'
  <1> DEFINE v == handler[h].cursor
             j == <<"physical", v, 0>>
             full == handler[h].out = "full"
             s == IF full THEN "pending" ELSE "later"
             d == Enqueue(db, {j}, s)
             e == [d EXCEPT !.job[j].status = "pending"]
  <1>1. db' = IF full /\ d.job[j].status \in {"later", "parked"} THEN e ELSE d
    BY Zenon DEF EnqueuePhysical
  <1>2. handler[h].pc = "enqueue" /\ handler[h].pc \in Work /\ Goto(h, "return")
    <2>1. handler[h].pc = "enqueue" /\ Goto(h, "return")
      BY Zenon DEF EnqueuePhysical, At
    <2> QED
      BY <2>1 DEF Work
  <1>3. v \in Invocations /\ DbFits(db)
    BY <1>2, AtWork DEF HandlerFits, Reads, Inv1
  <1>4. j \notin Outputs
    BY OutputJobs
  <1>5. DbFits(d) /\ Calm(db, d)
    <2>1. \A k \in {j} \cap JobIds : k[1] # "item"
      OBVIOUS
    <2>2. s \in {"pending", "later"}
      OBVIOUS
    <2> HIDE DEF s, j
    <2> QED
      BY <1>3, <1>4, <2>1, <2>2, CalmEnqueue, EnqueueFits
  <1> HIDE DEF d, j
  <1>6. Calm(d, e)
    <2>1. \A k \in Outputs : e.job[k] = d.job[k]
      BY <1>4, <1>5, OutputJobs DEF DbFits, Tables
    <2>2. \A x \in DOMAIN d \ {"job"} : e[x] = d[x]
      OBVIOUS
    <2> HIDE DEF e
    <2> QED
      BY <1>5, <2>1, <2>2, CalmJobs
  <1> HIDE DEF e, full
  <1>7. Calm(db, db')
    BY <1>1, <1>5, <1>6, CalmTrans
  <1> QED
    BY <1>1, <1>2, <1>7, SinkGoes

LEMMA SinkCommitOutcomes ==
    ASSUME Inv1, Inv2, Inv3, Inv1', Remembers, NEW h \in Handlers, CommitOutcomes(h)
    PROVE  Inv3'
  <1> DEFINE q == handler[h]
             v == q.job[2]
             T == Resuming(q.items, q.out)
             S == {"item"} \X T \X {v}
             e == PersistPhysicalOutcomes(db, v, q.items, q.out)
             ends == TerminalOutcomes(q.items, q.out)
             r == [q EXCEPT !.pc = "members", !.left = ends, !.out = "none", !.items = <<>>]
  <1>1. /\ q.pc = "commit" /\ q.job[1] = "physical" /\ db' = e
        /\ handler' = [handler EXCEPT ![h].pc = "members", ![h].left = ends,
                                      ![h].out = "none", ![h].items = <<>>]
    BY DEF CommitOutcomes, At, Kind
  <1>2. q.pc \in Work
    BY <1>1 DEF Work
  <1>3. /\ HandlerFits(q, db) /\ HandlerRow(q) /\ q.job \in JobIds /\ DbFits(db)
        /\ handler = [g \in Handlers |-> handler[g]]
    BY <1>2, AtWork, WorkWhole
  <1>4. handler' = [handler EXCEPT ![h] = r]
    <2> HIDE DEF ends
    <2> QED
      BY <1>1, <1>3
  <1>5. /\ v \in Invocations /\ DOMAIN q.out \subseteq Joined(db.inv[v])
        /\ \A i \in DOMAIN q.out : q.items[i] \in Nat
    BY <1>1, <1>3, JobParts DEF HandlerFits, Members
  <1>6. PICK f : Taken(db, v, q.items, q.out, f)
    <2> DEFINE seen == q.items
               out == q.out
    <2>1. /\ DbFits(db) /\ v \in Invocations /\ DOMAIN out \subseteq Joined(db.inv[v])
          /\ \A i \in DOMAIN out : seen[i] \in Nat
      BY <1>3, <1>5
    <2> HIDE DEF q, v, seen, out
    <2>2. \E f : Taken(db, v, seen, out, f)
      BY <2>1, OutcomesTaken
    <2> QED
      BY <2>2 DEF seen, out
  <1>7. /\ e = Enqueue(f, S, "pending")
        /\ DbFits(f)
        /\ \A x \in DOMAIN db \ {"inv", "closed", "passed", "item", "attempt"} : f[x] = db[x]
    BY <1>6, Zenon DEF Taken
  <1> HIDE DEF T, e
  <1>8. \A x \in {"run", "width", "state", "chunk", "job"} : f[x] = db[x]
    <2>1. {"run", "width", "state", "chunk", "job"} \subseteq DOMAIN db \ {"inv", "closed", "passed", "item", "attempt"}
      BY <1>3 DEF DbFits, Tables
    <2> QED
      BY <1>7, <2>1
  <1>9. \A j \in S : j \notin Outputs
    BY OutputJobs
  <1> HIDE DEF S
  <1>10. Calm(db, db')
    BY <1>1, <1>3, <1>7, <1>8, <1>9, CalmColumns, CalmEnqueue, CalmTrans
  <1> HIDE DEF ends
  <1>11. r.pc = "members"
    <2> HIDE DEF q
    <2> QED
      BY <1>3 DEF HandlerRow, Columns
  <1> HIDE DEF r
  <1>12. ~Writing(r) /\ ~Starting(r)
    BY <1>11 DEF Writing, Starting
  <1> QED
    BY <1>4, <1>10, <1>12, SinkSteps

LEMMA SinkOutcomesRefused ==
    ASSUME Inv1, Inv2, Inv3, Inv1', Remembers, NEW h \in Handlers, OutcomesRefused(h)
    PROVE  Inv3'
  <1>1. handler[h].pc \in Work /\ Goto(h, "throw") /\ db' = Reopened(h)
    BY DEF OutcomesRefused, At, Work
  <1> QED
    BY <1>1, CalmReopened, SinkGoes

LEMMA SinkCompleteMember ==
    ASSUME Inv1, Inv2, Inv3, Inv1', Remembers, NEW h \in Handlers, CompleteMember(h)
    PROVE  Inv3'
  <1> DEFINE q == handler[h]
  <1>1. PICK m \in q.left :
            /\ q.pc = "members" /\ db' = CompleteItem(db, m[1], m[2])
            /\ handler' = [handler EXCEPT ![h].left = @ \ {m}, ![h].out = m[2],
                    ![h].pc = IF Open(db, m[1]) THEN "after" ELSE "members"]
    BY DEF CompleteMember, At
  <1>2. PICK l : l = q.left \ {m}
    OBVIOUS
  <1> DEFINE pc == IF Open(db, m[1]) THEN "after" ELSE "members"
             r == [q EXCEPT !.left = l, !.out = m[2], !.pc = pc]
  <1>3. db' = CompleteItem(db, m[1], m[2])
    BY Zenon, <1>1
  <1>4. q.pc = "members"
    BY Zenon, <1>1
  <1>5. q.pc \in Work
    BY <1>4 DEF Work
  <1>6. HandlerRow(q) /\ handler = [g \in Handlers |-> handler[g]]
    BY <1>5, AtWork
  <1>7. handler' = [handler EXCEPT ![h] = r]
    <2>1. handler' = [handler EXCEPT ![h].left = l, ![h].out = m[2], ![h].pc = pc]
      BY Zenon, <1>1, <1>2
    <2> HIDE DEF pc
    <2> QED
      BY <1>6, <2>1
  <1>8. Calm(db, db')
    BY <1>3, CalmCompleteItem DEF Inv1
  <1>9. pc \in {"after", "members"}
    OBVIOUS
  <1> HIDE DEF pc
  <1>10. r.pc = pc
    <2> HIDE DEF q
    <2> QED
      BY <1>6 DEF HandlerRow, Columns
  <1> HIDE DEF r
  <1>11. ~Writing(r) /\ ~Starting(r)
    BY <1>9, <1>10 DEF Writing, Starting
  <1> QED
    BY <1>7, <1>8, <1>11, SinkSteps

LEMMA SinkMembersDone ==
    ASSUME Inv1, Inv2, Inv3, Inv1', Remembers, NEW h \in Handlers, MembersDone(h)
    PROVE  Inv3'
  <1>1. handler[h].pc \in Work /\ Goto(h, "return") /\ db' = db
    BY DEF MembersDone, At, Work
  <1> QED
    BY <1>1, SinkLeft

LEMMA SinkChunkRefused ==
    ASSUME Inv1, Inv2, Inv3, Inv1', Remembers, NEW h \in Handlers, ChunkRefused(h)
    PROVE  Inv3'
  <1>1. handler[h].pc \in Work /\ Goto(h, "throw") /\ db' = db
    BY DEF ChunkRefused, At, Work
  <1> QED
    BY <1>1, SinkLeft

LEMMA SinkCommitFinalize ==
    ASSUME Inv1, Inv2, Inv3, Inv1', Remembers, NEW h \in Handlers, CommitFinalize(h)
    PROVE  Inv3'
  <1>1. /\ handler[h].pc \in Work /\ Goto(h, "return")
        /\ handler[h].job[1] = "finalize" /\ db' = CompleteStep(db, h, handler[h].job)
    BY DEF CommitFinalize, At, Work, Kind
  <1>2. DbFits(db) /\ Finalize \in Queued(db)
    BY <1>1, WorkWhole, JobParts
  <1>3. Written(db) = DOMAIN db.chunk
    BY <1>2 DEF Inv3, WindowFits
  <1>4. Calm(db, db')
    BY <1>1, <1>2, <1>3, CalmCompleteStep
  <1> QED
    BY <1>1, <1>4, SinkGoes

LEMMA SinkJobComplete ==
    ASSUME Inv1, Inv2, Inv3, Inv1', Remembers, NEW h \in Handlers, JobComplete(h)
    PROVE  Inv3'
  <1>1. handler[h].pc \in Leave /\ Settle(h, db, Job("completed"))
    BY DEF JobComplete, At, Leave
  <1>2. Job("completed").status # "absent"
    BY JobFresh
  <1> QED
    BY <1>1, <1>2, CalmRefl, SinkSettles DEF Inv1

LEMMA SinkJobFail ==
    ASSUME Inv1, Inv2, Inv3, Inv1', Remembers, NEW h \in Handlers, JobFail(h)
    PROVE  Inv3'
  <1> DEFINE j == handler[h].job
             n == db.job[j].attempt
             last == n >= MaxAttempts
             d == IF last /\ j \in SinkJobs /\ OwnsJob(db, h, j) THEN FailStep(db, {j}) ELSE db
             row == IF last THEN Job("failed") ELSE Pending("pending", n)
  <1>1. handler[h].pc \in Leave /\ Settle(h, d, row)
    BY DEF JobFail, At, Leave
  <1>2. row.status # "absent"
    BY DEF Job, Pending
  <1>3. DbFits(d) /\ Calm(db, d)
    <2>1. OwnsJob(db, h, j) => \A k \in {j} \cap JobIds : db.job[k].status # "parked"
      BY DEF OwnsJob
    <2> HIDE DEF j
    <2> QED
      BY <2>1, FailStepFits, CalmFailStep, CalmRefl DEF Inv1
  <1> HIDE DEF d, row
  <1> QED
    BY <1>1, <1>2, <1>3, SinkSettles

LEMMA SinkJobDefer ==
    ASSUME Inv1, Inv2, Inv3, Inv1', Remembers, NEW h \in Handlers, JobDefer(h)
    PROVE  Inv3'
  <1> DEFINE row == Pending("pending", db.job[handler[h].job].attempt - 1)
  <1>1. handler[h].pc \in Leave /\ Settle(h, db, row)
    BY DEF JobDefer, At, Leave
  <1>2. row.status # "absent"
    BY DEF Pending
  <1> HIDE DEF row
  <1> QED
    BY <1>1, <1>2, CalmRefl, SinkSettles DEF Inv1

LEMMA SinkJobPark ==
    ASSUME Inv1, Inv2, Inv3, Inv1', Remembers, NEW h \in Handlers, JobPark(h)
    PROVE  Inv3'
  <1> DEFINE s == IF db.run = "paused" THEN "parked" ELSE "pending"
             row == Pending(s, db.job[handler[h].job].attempt - 1)
  <1>1. handler[h].pc \in Leave /\ Settle(h, db, row)
    BY DEF JobPark, At, Leave
  <1>2. row.status # "absent"
    BY DEF Pending
  <1> HIDE DEF row
  <1> QED
    BY <1>1, <1>2, CalmRefl, SinkSettles DEF Inv1

LEMMA SinkCrash ==
    ASSUME Inv1, Inv2, Inv3, Inv1', Remembers, NEW h \in Handlers, Crash(h)
    PROVE  Inv3'
  <1> DEFINE r == Idle
  <1>1. handler' = [handler EXCEPT ![h] = r] /\ db' = db
    BY DEF Crash
  <1>2. ~Writing(r) /\ ~Starting(r)
    BY DEF Writing, Starting, Idle
  <1> HIDE DEF r
  <1> QED
    BY <1>1, <1>2, CalmRefl, SinkSteps

LEMMA CalmRequeued ==
    ASSUME Inv1, NEW j \in JobIds, db.job[j].status = "running"
    PROVE  Calm(db, Requeued(j))
  <1>1. /\ \A k \in JobIds : k # j => Requeued(j).job[k] = db.job[k]
        /\ \A x \in DOMAIN db \ {"job"} : Requeued(j)[x] = db[x]
        /\ Requeued(j).job[j].status = "pending"
    BY RequeuedFits
  <1>2. \A k \in Outputs : Requeued(j).job[k].status = "absent" <=> db.job[k].status = "absent"
    BY <1>1, OutputJobs
  <1> QED
    BY <1>1, <1>2, CalmJobs DEF Inv1

LEMMA SinkRequeued ==
    ASSUME Inv1, Inv2, Inv3, Inv1', Remembers, NEW j \in JobIds, Lapse(j) \/ Stall(j)
    PROVE  Inv3'
  <1>1. db.job[j].status = "running" /\ db' = Requeued(j) /\ handler' = handler
    BY DEF Lapse, Stall
  <1>2. Calm(db, db')
    BY <1>1, CalmRequeued
  <1> QED
    BY <1>1, <1>2, SinkOutside

LEMMA SinkHandleExhausted ==
    ASSUME Inv1, Inv2, Inv3, Inv1', Remembers, NEW j \in JobIds, HandleExhaustedJob(j)
    PROVE  Inv3'
  <1> DEFINE d == FailStep(db, {})
             e == [d EXCEPT !.job[j].status = "handled"]
  <1>1. db' = e /\ handler' = handler /\ db.job[j].status = "failed"
    BY DEF HandleExhaustedJob
  <1>2. DbFits(d) /\ Calm(db, d)
    BY FailStepFits, CalmFailStep DEF Inv1
  <1>3. j \in Outputs => d.job[j].status # "absent"
    BY <1>1, <1>2 DEF Queued, Calm
  <1> HIDE DEF d
  <1>4. d.job \in [JobIds -> JobRow] /\ d \in Tables
    BY <1>2 DEF DbFits, Tables
  <1>5. \A k \in Outputs : e.job[k].status = "absent" <=> d.job[k].status = "absent"
    <2> DEFINE f == [d.job EXCEPT ![j].status = "handled"]
    <2>1. f[j].status = "handled" /\ \A k \in JobIds : k # j => f[k] = d.job[k]
      BY <1>4 DEF JobRow
    <2>2. e.job = f
      BY <1>4 DEF Tables
    <2> HIDE DEF e, f
    <2> QED
      BY <1>3, <2>1, <2>2, OutputJobs
  <1>6. \A x \in DOMAIN d \ {"job"} : e[x] = d[x]
    OBVIOUS
  <1> HIDE DEF e
  <1>7. Calm(db, db')
    BY <1>1, <1>2, <1>5, <1>6, CalmJobs, CalmTrans
  <1> QED
    BY <1>1, <1>7, SinkOutside

LEMMA SinkWindowCloses ==
    ASSUME Inv1, Inv2, Inv3, Inv1', Remembers, NEW v \in Invocations, WindowCloses(v)
    PROVE  Inv3'
  <1>1. db' = [db EXCEPT !.inv[v].closed = TRUE] /\ handler' = handler
    BY DEF WindowCloses
  <1>2. \A x \in {"run", "width", "state", "chunk", "job"} : db'[x] = db[x]
    BY <1>1 DEF Inv1, DbFits, Tables
  <1>3. Calm(db, db')
    BY <1>2, CalmColumns DEF Inv1
  <1> QED
    BY <1>1, <1>3, SinkOutside

LEMMA SinkPause ==
    ASSUME Inv1, Inv2, Inv3, Inv1', Remembers, PauseOperator
    PROVE  Inv3'
  <1>1. db.run = "active" /\ db' = [db EXCEPT !.run = "paused"] /\ handler' = handler
    BY DEF PauseOperator
  <1>2. Calm(db, db')
    BY <1>1 DEF Calm, SameChunks, Queued, Inv1, DbFits, Tables, Over
  <1> QED
    BY <1>1, <1>2, SinkOutside

LEMMA SinkResume ==
    ASSUME Inv1, Inv2, Inv3, Inv1', Remembers, ResumeOperator
    PROVE  Inv3'
  <1> DEFINE f == [j \in JobIds |-> IF db.job[j].status \in {"parked", "later"}
                                    THEN [db.job[j] EXCEPT !.status = "pending"] ELSE db.job[j]]
  <1>1. /\ db.run = "paused" /\ handler' = handler
        /\ db' = [db EXCEPT !.run = "active", !.job = f]
    BY DEF ResumeOperator
  <1>2. \A j \in JobIds : f[j].status = "absent" <=> db.job[j].status = "absent"
    BY DEF Inv1, DbFits, Tables, JobRow
  <1> HIDE DEF f
  <1>3. /\ db'.run = "active" /\ db'.job = f
        /\ db'.width = db.width /\ db'.state = db.state /\ db'.chunk = db.chunk
    BY <1>1 DEF Inv1, DbFits, Tables
  <1>4. Calm(db, db')
    BY <1>1, <1>2, <1>3, OutputJobs DEF Calm, SameChunks, Queued, Over
  <1> QED
    BY <1>1, <1>4, SinkOutside

LEMMA SinkCancel ==
    ASSUME Inv1, Inv2, Inv3, Inv1', Remembers, Cancel
    PROVE  Inv3'
  <1>1. db' = EndScope(db, "canceled", {}) /\ handler' = handler /\ "canceled" \in Over
    BY DEF Cancel, Over
  <1> QED
    BY <1>1, CalmEndScope, SinkOutside DEF Inv1

-----------------------------------------------------------------------------
(* The steps that give the sink its slots.                                 *)
LEMMA SinkSplit ==
    ASSUME Inv1, Inv3, Remembers, WindowFits(db'), NEW h \in Handlers, NEW r,
           handler' = [handler EXCEPT ![h] = r],
           Timely => /\ ThreadFits(db') /\ StillSo(r, db')
                     /\ \A g \in Handlers \ {h} : StillSo(handler[g], db')
                     /\ db'.width = db.width \/ \A g \in Handlers : ~Writing(handler[g])
                     /\ Writing(r) /\ db'.width = 1 => \A g \in Handlers \ {h} : ~Writing(handler[g])
    PROVE  Inv3'
  <1>1. /\ handler'[h] = r
        /\ \A g \in Handlers \ {h} : handler'[g] = handler[g]
    BY DEF Inv1, HandlersFit
  <1>2. ASSUME Timely
        PROVE  \A g \in Handlers : StillSo(handler'[g], db')
    BY <1>1, <1>2
  <1>3. ASSUME Timely, db'.width = 1, NEW f \in Handlers, NEW g \in Handlers,
               Writing(handler'[f]), Writing(handler'[g])
        PROVE  f = g
    <2>1. CASE f = h \/ g = h
      BY <1>1, <1>3, <2>1
    <2>2. CASE f # h /\ g # h
      BY <1>1, <1>3, <2>2 DEF Inv3
    <2> QED
      BY <2>1, <2>2
  <1> QED
    BY <1>2, <1>3 DEF Inv3, Remembers

LEMMA SinkSchedules ==
    ASSUME Inv1, Inv3, Remembers, NEW h \in Handlers, NEW d, DbFits(d), WindowFits(d),
           db' = EnqueueNextSinkWork(d), NEW r, handler' = [handler EXCEPT ![h] = r],
           ~Writing(r), ~Starting(r),
           Timely => /\ ThreadFits(d)
                     /\ \A g \in Handlers \ {h} : StillSo(handler[g], d)
                     /\ d.width = db.width \/ \A g \in Handlers : ~Writing(handler[g])
    PROVE  Inv3'
  <1>1. /\ WindowFits(db') /\ (ThreadFits(d) => ThreadFits(db'))
        /\ db'.run = d.run /\ db'.width = d.width /\ db'.state = d.state /\ db'.chunk = d.chunk
    BY NextSlots
  <1>2. Written(db') = Written(d)
    BY <1>1 DEF Written, ChunksIn
  <1>3. Timely => \A g \in Handlers \ {h} : StillSo(handler[g], db')
    BY <1>1, <1>2 DEF StillSo
  <1>4. StillSo(r, db')
    BY DEF StillSo
  <1> QED
    BY <1>1, <1>3, <1>4, SinkSplit

LEMMA OthersSo ==
    ASSUME Inv1, Inv2, Inv3, Timely, NEW d, DbFits(d), Calm(db, d), NEW g \in Handlers
    PROVE  StillSo(handler[g], d)
  BY WritingThere, CalmSo DEF Inv1, Inv3

LEMMA SinkStart ==
    ASSUME Inv1, Inv2, Inv3, Inv1', Remembers, NEW h \in Handlers, NEW j \in JobIds, BeginStart(h, j)
    PROVE  Inv3'
  <1> DEFINE c == Claimed(h, j)
             started == Len(db.chunk) > 0
             pc == IF started THEN "return" ELSE "invoke"
             r == Enter(h, j, pc)
  <1>1. /\ j[1] = "start" /\ Claimable(h, j) /\ handler' = [handler EXCEPT ![h] = r]
        /\ db' = IF started THEN EnqueueNextSinkWork(c) ELSE c
    BY Zenon DEF BeginStart, Loads
  <1>2. DbFits(c) /\ Calm(db, c) /\ \A x \in DOMAIN db \ {"job"} : c[x] = db[x]
    BY <1>1, ClaimedWhole, CalmClaimed
  <1>3. WindowFits(c) /\ c.width = db.width /\ (Timely => ThreadFits(c))
    BY <1>2, CalmFits DEF Inv1, Inv3, Calm
  <1>4. c.chunk = db.chunk /\ db.chunk \in Seq(ChunkRow)
    BY <1>2 DEF Inv1, DbFits, Tables
  <1>5. r.pc = pc /\ r.job = j
    BY EnterRow
  <1> HIDE DEF c, r
  <1>6. Timely => \A g \in Handlers : StillSo(handler[g], c)
    BY <1>2, OthersSo
  <1>7. CASE started
    <2>1. r.pc = "return" /\ db' = EnqueueNextSinkWork(c)
      BY <1>1, <1>5, <1>7
    <2>2. ~Writing(r) /\ ~Starting(r)
      BY <2>1 DEF Writing, Starting
    <2> QED
      BY <1>1, <1>2, <1>3, <1>6, <2>1, <2>2, SinkSchedules
  <1>8. CASE ~started
    <2>1. db' = c /\ c.chunk = <<>>
      <3>1. Len(db.chunk) \in Nat
        BY <1>4
      <3>2. Len(db.chunk) = 0
        BY <1>8, <3>1
      <3> QED
        BY <1>1, <1>4, <1>8, <3>2, EmptySeq
    <2>2. ~Writing(r)
      BY <1>1, <1>5 DEF Writing
    <2>3. StillSo(r, c)
      BY <2>1, <2>2 DEF StillSo
    <2> QED
      BY <1>1, <1>3, <1>6, <2>1, <2>2, <2>3, SinkSplit
  <1> QED
    BY <1>7, <1>8

(* A serial sink has one slot.                                             *)
LEMMA OneBusy ==
    ASSUME NEW d, WindowFits(d), d.run \notin Over, d.width = 1, NEW a \in Busy(d), NEW b \in Busy(d)
    PROVE  a = b
  <1>1. Busy(d) \subseteq DOMAIN d.chunk
    BY DEF Busy
  <1>2. IsFiniteSet(Busy(d)) /\ Cardinality(Busy(d)) \in Nat /\ Cardinality(Busy(d)) <= 1
    BY <1>1, ChunkSets DEF WindowFits
  <1>3. CASE a # b
    <2>1. {a, b} \subseteq Busy(d)
      OBVIOUS
    <2>2. Cardinality({a, b}) <= Cardinality(Busy(d))
      BY <1>2, <2>1, FS_Subset
    <2>3. Cardinality({a, b}) = 2
      <3>1. IsFiniteSet({a}) /\ Cardinality({a}) = 1
        BY FS_Singleton
      <3>2. Cardinality({a} \cup {b}) = Cardinality({a}) + 1
        <4>1. b \notin {a}
          BY <1>3
        <4> QED
          BY <3>1, <4>1, FS_AddElement
      <3>3. {a, b} = {a} \cup {b}
        OBVIOUS
      <3> QED
        BY <3>1, <3>2, <3>3
    <2> QED
      BY <1>2, <2>2, <2>3
  <1> QED
    BY <1>3

(* A chunk that is taken up.                                               *)
LEMMA ChunkRuns ==
    ASSUME NEW d, WindowFits(d), NEW k \in DOMAIN d.chunk,
           Write(k) \in Queued(d), d.chunk[k].status \in {"pending", "running"}, NEW m, m.run = d.run,
           m.width = d.width, m.state = d.state, m.job = d.job, DOMAIN m.chunk = DOMAIN d.chunk,
           m.chunk[k].status = "running",
           \A c \in DOMAIN d.chunk \ {k} : m.chunk[c].status = d.chunk[c].status
    PROVE  /\ WindowFits(m) /\ (ThreadFits(d) => ThreadFits(m))
           /\ Busy(m) = Busy(d) /\ k \in Busy(d) /\ Written(m) = Written(d)
  <1>1. Queued(m) = Queued(d)
    BY DEF Queued
  <1>2. k \in Busy(d) /\ Busy(m) = Busy(d)
    BY <1>1 DEF Busy
  <1>3. Written(m) = Written(d)
    BY DEF Written, ChunksIn
  <1>4. WindowFits(m)
    <2>1. \A c \in DOMAIN d.chunk : m.chunk[c].status = "pending" => d.chunk[c].status = "pending"
      OBVIOUS
    <2> QED
      BY <1>1, <1>2, <1>3, <2>1 DEF WindowFits
  <1>5. ThreadFits(d) => ThreadFits(m)
    BY <1>3 DEF ThreadFits
  <1> QED
    BY <1>2, <1>3, <1>4, <1>5

LEMMA EarlierWritten ==
    ASSUME NEW d, DbFits(d), WindowFits(d), d.run \notin Over, d.width = 1, NEW k \in Busy(d),
           NEW e \in DOMAIN d.chunk, e < k
    PROVE  e \in Written(d)
  <1>1. d.chunk[e].status \in {"pending", "running", "completed"} /\ k \in DOMAIN d.chunk
    <2>1. d.chunk[e] \in ChunkRow
      <3>1. d.chunk \in Seq(ChunkRow)
        BY DEF DbFits, Tables
      <3> HIDE DEF ChunkRow
      <3> QED
        BY <3>1
    <2> QED
      BY <2>1 DEF ChunkRow, WindowFits, Busy
  <1>2. ASSUME d.chunk[e].status # "completed"
        PROVE  FALSE
    <2>1. e \in Busy(d)
      BY <1>1, <1>2 DEF Busy, WindowFits
    <2>2. e = k
      BY <2>1, OneBusy
    <2>3. k \in Nat
      BY <1>1 DEF WindowFits, Chunks
    <2> QED
      BY <2>2, <2>3
  <1> QED
    BY <1>2 DEF Written, ChunksIn

LEMMA SinkChunk ==
    ASSUME Inv1, Inv2, Inv3, Inv1', Remembers, NEW h \in Handlers, NEW j \in JobIds, BeginChunk(h, j)
    PROVE  Inv3'
  <1> DEFINE c == Claimed(h, j)
             k == j[2]
             written == db.chunk[k].status = "completed"
             q == Enter(h, j, "mark")
             r == IF written THEN Enter(h, j, "return") ELSE [q EXCEPT !.state = db.state]
  <1>1. /\ j[1] = "write" /\ Claimable(h, j) /\ db.run = "active"
        /\ db' = (IF written THEN EnqueueNextSinkWork(c) ELSE c)
        /\ handler' = [handler EXCEPT ![h] = r]
    BY Zenon DEF BeginChunk, Loads
  <1>2. /\ DbFits(c) /\ WholeFits(c) /\ Queued(db) \subseteq Queued(c) /\ j \in Queued(c) /\ Calm(db, c)
        /\ \A x \in DOMAIN db \ {"job"} : c[x] = db[x]
    BY <1>1, ClaimedWhole, CalmClaimed DEF Keeps
  <1>3. WindowFits(c) /\ (Timely => ThreadFits(c))
    BY <1>2, CalmFits DEF Inv1, Inv3
  <1>4. c.chunk = db.chunk /\ c.run = "active" /\ c.width = db.width /\ c.state = db.state
    BY <1>1, <1>2 DEF Inv1, DbFits, Tables
  <1>5. k \in DOMAIN c.chunk /\ c.chunk # <<>> /\ j = Write(k)
    BY <1>1, <1>2, ChunkThere, JobParts DEF Write
  <1>6. c.run \notin Over
    BY <1>4 DEF Over
  <1> HIDE DEF c
  <1>7. Timely => \A g \in Handlers : StillSo(handler[g], c)
    BY <1>2, OthersSo
  <1>8. CASE written
    <2>1. r = Enter(h, j, "return") /\ db' = EnqueueNextSinkWork(c)
      BY <1>1, <1>8
    <2> HIDE DEF r, written
    <2>2. r.pc = "return"
      BY <2>1, EnterRow
    <2>3. ~Writing(r) /\ ~Starting(r)
      BY <2>2 DEF Writing, Starting
    <2> QED
      BY <1>1, <1>2, <1>3, <1>4, <1>7, <2>1, <2>3, SinkSchedules
  <1>9. CASE ~written
    <2>1. r = [q EXCEPT !.state = db.state] /\ db' = c
      BY <1>1, <1>9
    <2>2. r.pc = "mark" /\ r.job = j /\ r.state = db.state
      <3>1. HandlerRow(q) /\ q.pc = "mark" /\ q.job = j
        BY EnterRow
      <3> HIDE DEF q, r
      <3> QED
        BY <2>1, <3>1 DEF HandlerRow, Columns
    <2> HIDE DEF r, q
    <2>3. c.chunk[k].status \in {"pending", "running"} /\ k \in Busy(c)
      <3>1. c.chunk[k] \in ChunkRow
        <4>1. c.chunk \in Seq(ChunkRow)
          BY <1>2 DEF DbFits, Tables
        <4> HIDE DEF ChunkRow
        <4> QED
          BY <1>5, <4>1
      <3>2. c.chunk[k].status \notin {"completed", "failed"}
        BY <1>3, <1>4, <1>5, <1>6, <1>9 DEF WindowFits
      <3> QED
        BY <1>2, <1>5, <3>1, <3>2 DEF ChunkRow, Busy
    <2>4. StillSo(r, c)
      <3>1. ~Starting(r)
        BY <1>1, <2>2 DEF Starting
      <3>2. c.width = 1 => r.state = c.state /\ \A e \in DOMAIN c.chunk : e < k => e \in Written(c)
        BY <1>2, <1>3, <1>4, <1>6, <2>2, <2>3, EarlierWritten
      <3> QED
        BY <2>2, <2>3, <3>1, <3>2 DEF StillSo
    <2>5. ASSUME Timely, c.width = 1, NEW g \in Handlers, Writing(handler[g])
          PROVE  FALSE
      <3> DEFINE b == handler[g].job[2]
      <3>1. /\ b \in DOMAIN c.chunk /\ handler[g].job = Write(b) /\ handler[g].pc \in Work
            /\ Write(b) \in Queued(c)
        BY <1>2, <1>4, <2>5, WritingThere
      <3>2. c.chunk[b].status \in {"pending", "running", "failed"}
        BY <1>7, <2>5 DEF StillSo
      <3>3. b \in Busy(c)
        BY <1>3, <1>6, <3>1, <3>2 DEF WindowFits, Busy
      <3>4. b = k
        BY <1>3, <1>6, <2>3, <2>5, <3>3, OneBusy
      <3>5. OwnsJob(db, g, j)
        <4>1. handler[g].job = j /\ ~At(g, "idle")
          BY <1>5, <3>1, <3>4 DEF At, Work
        <4> QED
          BY <1>1, <2>5, <4>1 DEF Inv1, HandlersFit, Held, Over
      <3> QED
        BY <1>1, <3>5, ClaimedFits DEF Inv1
    <2>6. handler' = [handler EXCEPT ![h] = r]
      BY <1>1
    <2>7. WindowFits(db') /\ (Timely => ThreadFits(db')) /\ StillSo(r, db') /\ db'.width = db.width
      BY <1>3, <1>4, <2>1, <2>4
    <2>8. Timely => /\ \A g \in Handlers \ {h} : StillSo(handler[g], db')
                    /\ Writing(r) /\ db'.width = 1 => \A g \in Handlers \ {h} : ~Writing(handler[g])
      BY <1>7, <2>1, <2>5
    <2> QED
      BY <2>6, <2>7, <2>8, SinkSplit
  <1> QED
    BY <1>8, <1>9

LEMMA SinkMarkChunk ==
    ASSUME Inv1, Inv2, Inv3, Inv1', Remembers, NEW h \in Handlers, MarkChunk(h)
    PROVE  Inv3'
  <1> DEFINE q == handler[h]
             k == q.job[2]
             open == db.chunk[k].status \in {"pending", "running"}
             m == [db EXCEPT !.chunk[k].status = "running"]
             r == [q EXCEPT !.pc = "invoke"]
  <1>1. /\ q.pc = "mark" /\ q.job[1] = "write" /\ db' = (IF open THEN m ELSE db)
        /\ Goto(h, IF open THEN "invoke" ELSE "throw")
    BY Zenon DEF MarkChunk, At, Kind
  <1>2. q.pc \in Work /\ Writing(q)
    BY <1>1 DEF Work, Writing
  <1>3. DbFits(db) /\ k \in DOMAIN db.chunk /\ q.job = Write(k) /\ Write(k) \in Queued(db)
    BY <1>2, WritingThere DEF Inv1
  <1>4. CASE open
    <2>1. db' = m /\ Goto(h, "invoke")
      BY <1>1, <1>4
    <2>2. handler' = [handler EXCEPT ![h] = r]
      BY <2>1, Zenon DEF Goto
    <2>3. r.pc = "invoke" /\ r.job = q.job /\ r.state = q.state
      <3>1. HandlerRow(q)
        BY <1>2, AtWork
      <3> HIDE DEF q
      <3> QED
        BY <3>1 DEF HandlerRow, Columns
    <2> HIDE DEF r
    <2>4. /\ m.run = db.run /\ m.width = db.width /\ m.state = db.state /\ m.job = db.job
          /\ DOMAIN m.chunk = DOMAIN db.chunk /\ m.chunk[k].status = "running"
          /\ \A b \in DOMAIN db.chunk \ {k} : m.chunk[b].status = db.chunk[b].status
      <3> DEFINE row == [db.chunk[k] EXCEPT !.status = "running"]
                 chunk == [db.chunk EXCEPT ![k] = row]
      <3>1. m = [db EXCEPT !.chunk = chunk]
        OBVIOUS
      <3>2. db.chunk[k] \in ChunkRow
        <4>1. db.chunk \in Seq(ChunkRow)
          BY <1>3 DEF DbFits, Tables
        <4> HIDE DEF ChunkRow, k
        <4> QED
          BY <1>3, <4>1
      <3>3. row.status = "running"
        BY <3>2 DEF ChunkRow
      <3> HIDE DEF row, k
      <3>4. /\ DOMAIN chunk = DOMAIN db.chunk /\ chunk[k].status = "running"
            /\ \A b \in DOMAIN db.chunk \ {k} : chunk[b] = db.chunk[b]
        BY <1>3, <3>3
      <3> HIDE DEF chunk, m
      <3>5. /\ m.run = db.run /\ m.width = db.width /\ m.state = db.state /\ m.job = db.job /\ m.chunk = chunk
        BY <1>3, <3>1 DEF DbFits, Tables
      <3> QED
        BY <3>4, <3>5
    <2> HIDE DEF m
    <2>5. WindowFits(m) /\ (ThreadFits(db) => ThreadFits(m)) /\ Written(m) = Written(db)
      BY <1>3, <1>4, <2>4, ChunkRuns DEF Inv3
    <2>6. ASSUME Timely, NEW g \in Handlers
          PROVE  StillSo(handler[g], m)
      <3>1. StillSo(handler[g], db) /\ ~Starting(handler[g])
        <4>1. StillSo(handler[g], db) /\ db.chunk # <<>>
          BY <1>3, <2>6, EmptyChunks DEF Inv3
        <4> QED
          BY <4>1 DEF StillSo
      <3>2. Writing(handler[g]) => handler[g].job[2] \in DOMAIN db.chunk
        BY WritingThere
      <3>3. Writing(handler[g]) =>
                \/ m.chunk[handler[g].job[2]].status \in {"running", "failed"}
                \/ handler[g].pc = "mark" /\ m.chunk[handler[g].job[2]].status = "pending"
        BY <2>4, <3>1, <3>2 DEF StillSo
      <3> QED
        BY <2>4, <2>5, <3>1, <3>3 DEF StillSo
    <2>7. ASSUME Timely
          PROVE  StillSo(r, m)
      <3>1. ~Starting(r)
        BY <1>1, <2>3 DEF Starting
      <3>2. StillSo(q, m)
        BY <2>6, <2>7
      <3>3. m.chunk[r.job[2]].status = "running"
        BY <2>3, <2>4
      <3> HIDE DEF k
      <3> QED
        BY <1>2, <2>3, <3>1, <3>2, <3>3 DEF StillSo
    <2>8. Timely => \A g \in Handlers \ {h} : db.width = 1 => ~Writing(handler[g])
      BY <1>2 DEF Inv3
    <2>9. /\ WindowFits(db') /\ db'.width = db.width
          /\ Timely => ThreadFits(db') /\ StillSo(r, db') /\ \A g \in Handlers \ {h} : StillSo(handler[g], db')
      BY <2>1, <2>4, <2>5, <2>6, <2>7 DEF Inv3
    <2> HIDE DEF q, k
    <2> QED
      BY <2>2, <2>8, <2>9, SinkSplit
  <1>5. CASE ~open
    <2>1. db' = db /\ Goto(h, "throw")
      BY <1>1, <1>5
    <2> QED
      BY <1>2, <2>1, SinkLeft
  <1> QED
    BY <1>4, <1>5

-----------------------------------------------------------------------------
(* The steps that fill the sink.                                           *)

(* There are no more chunks than items, and none is open or written.       *)
LEMMA CreatedChunks ==
    ASSUME NEW d, DbFits(d), d.chunk = <<>>
    PROVE  LET f == CreateSinkChunks(d)
           IN  /\ DOMAIN f.chunk \subseteq Chunks
               /\ \A c \in DOMAIN f.chunk : f.chunk[c].status = "pending"
               /\ f.run = d.run /\ f.width = d.width /\ f.state = d.state /\ f.job = d.job
  <1> DEFINE ended == {n \in DOMAIN d.order : d.item[d.order[n]] \in EndedStatuses}
             size == Cardinality(ended)
             count == (size + ChunkSize - 1) \div ChunkSize
             chunk == [c \in 1..count |->
                        [status |-> "pending", first |-> Nth(ended, (c - 1) * ChunkSize + 1),
                         last |-> Nth(ended, IF c = count THEN size ELSE c * ChunkSize)]]
             f == [d EXCEPT !.chunk = chunk]
             N == Cardinality(Items)
  <1>1. CreateSinkChunks(d) = f
    <2>1. CreateSinkChunks(d) = IF Len(d.chunk) > 0 THEN d ELSE f
      BY Zenon DEF CreateSinkChunks
    <2>2. ~(Len(d.chunk) > 0)
      <3>1. Len(d.chunk) = 0
        BY EmptySeq
      <3> QED
        BY <3>1
    <2> HIDE DEF f
    <2> QED
      BY <2>1, <2>2
  <1>2. N \in Nat /\ size \in Nat /\ size <= N
    <2>1. N \in Nat /\ IsFiniteSet(1..N) /\ Cardinality(1..N) = N
      <3>1. N \in Nat
        BY BatchAssumption, FS_CardinalityType
      <3> HIDE DEF N
      <3> QED
        BY <3>1, FS_Interval
    <2>2. ended \subseteq 1..N
      BY OrderBound
    <2> HIDE DEF ended, N
    <2> QED
      BY <2>1, <2>2, FS_Subset, FS_CardinalityType
  <1>3. count \in Nat /\ count <= N
    <2>1. ChunkSize \in Nat /\ ChunkSize >= 1
      BY BatchAssumption
    <2> HIDE DEF size, N
    <2>2. size + ChunkSize - 1 \in Nat
      BY <1>2, <2>1
    <2>3. \A n \in Nat : n \div ChunkSize \in Nat /\ (n \div ChunkSize) * ChunkSize <= n
      BY <2>1
    <2>4. count \in Nat /\ count * ChunkSize <= size + ChunkSize - 1
      BY <2>2, <2>3
    <2> HIDE DEF count
    <2>5. ASSUME count > size
          PROVE  FALSE
      <3>1. PICK n \in Nat : count = size + 1 + n
        <4>1. count - size - 1 \in Nat
          BY <1>2, <2>4, <2>5
        <4>2. count = size + 1 + (count - size - 1)
          BY <1>2, <2>4
        <4> QED
          BY <4>1, <4>2
      <3>2. count * ChunkSize = size * ChunkSize + ChunkSize + n * ChunkSize
        BY <1>2, <2>1, <3>1
      <3>3. size * ChunkSize >= size /\ n * ChunkSize >= 0 /\ size * ChunkSize \in Nat /\ n * ChunkSize \in Nat
        BY <1>2, <2>1, <3>1
      <3> QED
        BY <1>2, <2>1, <2>4, <3>2, <3>3
    <2> QED
      BY <1>2, <2>4, <2>5
  <1> HIDE DEF count, ended, size, N
  <1>4. DOMAIN chunk \subseteq 1..N /\ \A c \in DOMAIN chunk : chunk[c].status = "pending"
    BY <1>2, <1>3
  <1> HIDE DEF chunk
  <1>5. f.chunk = chunk /\ f.run = d.run /\ f.width = d.width /\ f.state = d.state /\ f.job = d.job
    BY DEF DbFits, Tables
  <1> HIDE DEF f
  <1> QED
    BY <1>1, <1>4, <1>5 DEF Chunks, N

LEMMA NoneThreaded == <<>> = [n \in 1..0 |-> n]
  <1> DEFINE s == [n \in 1..0 |-> n]
  <1>1. s \in [1..0 -> Nat] /\ DOMAIN s = 1..0
    OBVIOUS
  <1>2. s \in Seq(Nat) /\ Len(s) = 0
    BY <1>1, SeqDef, LenProperties
  <1> HIDE DEF s
  <1>3. <<>> = s
    BY <1>2, EmptySeq
  <1> QED
    BY <1>3 DEF s

LEMMA SinkCommitStart ==
    ASSUME Inv1, Inv2, Inv3, Inv1', Remembers, NEW h \in Handlers, CommitStart(h)
    PROVE  Inv3'
  <1>1. /\ handler[h].pc = "commit" /\ Goto(h, "return") /\ handler[h].job[1] = "start"
        /\ handler[h].pc \in Work
    BY DEF CommitStart, At, Kind, Work
  <1>2. Starting(handler[h])
    BY <1>1 DEF Starting
  <1>3. /\ DbFits(db) /\ WholeFits(db) /\ handler[h].job = Start /\ Full(db)
        /\ db.width \in Widths \cup {0} /\ WindowFits(db)
    <2>1. DbFits(db) /\ WholeFits(db) /\ handler[h].job \in Queued(db) /\ handler[h].job = Start
      BY <1>1, WorkWhole, JobParts
    <2>2. db.width \in Widths \cup {0}
      BY <2>1 DEF DbFits, Tables
    <2> QED
      BY <2>1, <2>2 DEF WholeFits, SinkFits, SinkJobs, Inv3
  <1>4. PICK w \in Widths \cup {0} :
            /\ IF Len(db.chunk) > 0 THEN w = db.width ELSE w \in Widths
            /\ db' = IF w = 0 THEN CompleteStep(db, h, handler[h].job)
                     ELSE EnqueueNextSinkWork(CreateSinkChunks([db EXCEPT !.width = w, !.state = <<>>]))
    BY <1>3 DEF CommitStart
  <1> DEFINE d == [db EXCEPT !.width = w, !.state = <<>>]
             f == CreateSinkChunks(d)
             r == [Idle EXCEPT !.pc = "return", !.job = handler[h].job]
  <1>5. CASE w = 0
    <2>1. db' = CompleteStep(db, h, handler[h].job)
      BY <1>4, <1>5
    <2>2. db.width = 0
      <3>1. Widths \subseteq Nat /\ (0 \in Widths => Widths = {0})
        BY Zenon, BatchAssumption
      <3> QED
        BY <1>3, <1>4, <1>5, <3>1
    <2>3. Calm(db, db')
      BY <1>3, <2>1, <2>2, CalmCompleteStep
    <2> QED
      BY <1>1, <2>3, SinkGoes
  <1>6. CASE w # 0
    <2>1. db' = EnqueueNextSinkWork(f)
      BY <1>4, <1>6
    <2>2. /\ DbFits(d)
          /\ d.run = db.run /\ d.width = w /\ d.state = <<>> /\ d.chunk = db.chunk /\ d.job = db.job
      <3>1. <<>> \in Seq(Chunks)
        BY EmptySeq
      <3>2. d \in Tables
        BY <1>3, <3>1 DEF DbFits, Tables
      <3>3. /\ d.run = db.run /\ d.width = w /\ d.state = <<>> /\ d.order = db.order
            /\ d.item = db.item /\ d.ended = db.ended /\ d.failed = db.failed
            /\ d.chunk = db.chunk /\ d.job = db.job /\ d.inv = db.inv /\ d.written = db.written
        BY <1>3 DEF DbFits, Tables
      <3> HIDE DEF d
      <3> QED
        BY <1>3, <3>2, <3>3, SameFits DEF DbFits
    <2> HIDE DEF d
    <2>3. DbFits(f)
      BY <2>2, CreateFits
    <2>4. handler' = [handler EXCEPT ![h] = r] /\ ~Writing(r) /\ ~Starting(r)
      <3>1. handler' = [handler EXCEPT ![h] = r]
        BY <1>1, Zenon DEF Goto
      <3>2. r.pc = "return"
        BY DEF Idle
      <3> HIDE DEF r
      <3> QED
        BY <3>1, <3>2 DEF Writing, Starting
    <2> HIDE DEF r
    <2>5. Timely => db.chunk = <<>>
      BY <1>2 DEF Inv3, StillSo
    <2>6. CASE Len(db.chunk) > 0
      <3>1. f = d
        <4>1. Len(d.chunk) > 0
          BY <2>2, <2>6
        <4> QED
          BY <4>1, Zenon DEF CreateSinkChunks
      <3>2. w = db.width /\ db.chunk # <<>>
        BY <1>4, <2>6, EmptySeq
      <3> HIDE DEF f
      <3>3. WindowFits(f)
        <4>1. f.run = db.run /\ f.width = db.width /\ f.chunk = db.chunk /\ f.job = db.job
          BY <2>2, <3>1, <3>2
        <4>2. Queued(f) = Queued(db)
          BY <4>1 DEF Queued
        <4>3. Busy(f) = Busy(db) /\ Written(f) = Written(db)
          BY <4>1, <4>2 DEF Busy, Written, ChunksIn
        <4>4. WindowFits(db)
          BY <1>3
        <4> QED
          BY <4>1, <4>2, <4>3, <4>4 DEF WindowFits
      <3> QED
        BY <2>1, <2>3, <2>4, <2>5, <3>2, <3>3, SinkSchedules
    <2>7. CASE ~(Len(db.chunk) > 0)
      <3>1. d.chunk = <<>> /\ db.chunk = <<>>
        <4>1. db.chunk \in Seq(ChunkRow)
          BY <1>3 DEF DbFits, Tables
        <4>2. Len(db.chunk) \in Nat
          BY <4>1
        <4>3. Len(db.chunk) = 0
          BY <2>7, <4>2
        <4> QED
          BY <2>2, <4>1, <4>3, EmptySeq
      <3>2. w \in Widths /\ 0 \notin Widths /\ w \in Nat
        <4>1. Widths \subseteq Nat /\ (0 \in Widths => Widths = {0})
          BY Zenon, BatchAssumption
        <4> QED
          BY <1>4, <1>6, <2>7, <4>1
      <3>3. /\ DOMAIN f.chunk \subseteq Chunks
            /\ \A c \in DOMAIN f.chunk : f.chunk[c].status = "pending"
            /\ f.run = db.run /\ f.width = w /\ f.state = <<>> /\ f.job = db.job
        BY <2>2, <3>1, CreatedChunks
      <3> HIDE DEF f
      <3>4. DOMAIN db.chunk = {}
        BY <1>3, <3>1, EmptyChunks
      <3>5. Queued(f) = Queued(db) /\ \A c \in Chunks : Write(c) \notin Queued(db)
        BY <1>3, <3>3, <3>4 DEF Queued, WholeFits, SinkFits, Write
      <3>6. Busy(f) = {} /\ Written(f) = {}
        BY <3>3, <3>5 DEF Busy, Written, ChunksIn
      <3>7. Finalize \in Queued(f) \/ (f.run = "completed" /\ f.width > 0) => DOMAIN f.chunk = {}
        <4>1. Finalize \in Queued(f) \/ f.run = "completed" => Items = {}
          BY <1>3, <3>1, <3>2, <3>3, <3>5 DEF WholeFits, SinkFits
        <4>2. Items = {} => Chunks = {}
          <5>1. Items = {} => Cardinality(Items) = 0
            BY FS_EmptySet
          <5> QED
            BY <5>1 DEF Chunks
        <4> QED
          BY <3>3, <4>1, <4>2
      <3>8. Cardinality({}) = 0
        BY FS_EmptySet
      <3>9. WindowFits(f)
        <4>1. f.run \notin Over => Cardinality(Busy(f)) <= f.width
          BY <3>2, <3>3, <3>6, <3>8
        <4> QED
          BY <3>3, <3>6, <3>7, <4>1 DEF WindowFits
      <3>10. ThreadFits(f)
        <4>1. <<>> = [n \in 1..0 |-> n]
          BY NoneThreaded
        <4> QED
          BY <3>3, <3>6, <3>8, <4>1 DEF ThreadFits
      <3>11. \A g \in Handlers : ~Writing(handler[g])
        BY <3>4, WritingThere
      <3>12. ASSUME Timely, NEW g \in Handlers \ {h}
             PROVE  StillSo(handler[g], f)
        <4>1. CASE Starting(handler[g])
          <5>1. handler[g].pc \in Work /\ handler[g].job[1] = "start"
            BY <4>1 DEF Starting, Work
          <5>2. handler[g].job = Start
            BY <5>1, WorkWhole, JobParts
          <5> QED
            BY <1>1, <1>3, <3>12, <5>1, <5>2 DEF Inv1, HandlersFit, Apart
        <4>2. CASE ~Starting(handler[g])
          BY <3>11, <4>2 DEF StillSo
        <4> QED
          BY <4>1, <4>2
      <3> QED
        BY <2>1, <2>3, <2>4, <3>9, <3>10, <3>11, <3>12, SinkSchedules
    <2> QED
      BY <2>6, <2>7
  <1> QED
    BY <1>5, <1>6

(* A serial sink writes its chunks one after another.                      *)
LEMMA WrittenBefore ==
    ASSUME NEW d, DbFits(d), ThreadFits(d), d.width = 1, NEW k \in DOMAIN d.chunk, k \notin Written(d),
           \A e \in DOMAIN d.chunk : e < k => e \in Written(d)
    PROVE  Written(d) = 1..(k - 1) /\ Cardinality(Written(d)) = k - 1 /\ k - 1 \in Nat
  <1>1. PICK n \in Nat : DOMAIN d.chunk = 1..n
    <2>1. d.chunk \in Seq(ChunkRow)
      BY DEF DbFits, Tables
    <2> HIDE DEF ChunkRow
    <2>2. Len(d.chunk) \in Nat /\ DOMAIN d.chunk = 1..Len(d.chunk)
      BY <2>1
    <2> QED
      BY <2>2
  <1>2. k \in 1..n /\ k - 1 \in Nat
    BY <1>1
  <1>3. ASSUME NEW e \in Written(d)
        PROVE  e \in 1..(k - 1)
    <2>1. e \in 1..n /\ e # k
      BY <1>1, <1>3 DEF Written, ChunksIn
    <2>2. ~(k < e)
      BY <1>1, <1>3, <2>1 DEF ThreadFits
    <2> QED
      BY <1>2, <2>1, <2>2
  <1>4. 1..(k - 1) \subseteq Written(d)
    <2> SUFFICES ASSUME NEW e \in 1..(k - 1)
                 PROVE  e \in Written(d)
      OBVIOUS
    <2>1. e \in 1..n /\ e < k
      BY <1>2
    <2> QED
      BY <1>1, <2>1
  <1>5. Written(d) = 1..(k - 1)
    BY <1>3, <1>4
  <1>6. Cardinality(1..(k - 1)) = k - 1
    <2> DEFINE m == k - 1
    <2>1. m \in Nat
      BY <1>2
    <2> HIDE DEF m
    <2>2. Cardinality(1..m) = m
      BY <2>1, FS_Interval
    <2> QED
      BY <2>2 DEF m
  <1> QED
    BY <1>2, <1>5, <1>6

(* A chunk that is acknowledged.                                           *)
LEMMA ChunkDone ==
    ASSUME NEW d, DbFits(d), WindowFits(d), NEW k \in DOMAIN d.chunk,
           NEW m, m.run = d.run, m.width = d.width, m.job = d.job,
           DOMAIN m.chunk = DOMAIN d.chunk, m.chunk[k].status = "completed",
           \A c \in DOMAIN d.chunk \ {k} : m.chunk[c].status = d.chunk[c].status
    PROVE  WindowFits(m) /\ Written(m) = Written(d) \cup {k}
  <1>1. Queued(m) = Queued(d)
    BY DEF Queued
  <1>2. Written(m) = Written(d) \cup {k}
    BY DEF Written, ChunksIn
  <1>3. Busy(m) = Busy(d) \ {k}
    BY <1>1 DEF Busy
  <1>4. \A c \in DOMAIN d.chunk : m.chunk[c].status \in {"pending", "failed"} =>
                                        c # k /\ m.chunk[c].status = d.chunk[c].status
    OBVIOUS
  <1>5. ASSUME m.run \notin Over
        PROVE  Cardinality(Busy(m)) <= m.width
    <2>1. Busy(d) \subseteq DOMAIN d.chunk
      BY DEF Busy
    <2>2. IsFiniteSet(Busy(d)) /\ Cardinality(Busy(d)) \in Nat /\ Cardinality(Busy(d)) <= d.width
      BY <1>5, <2>1, ChunkSets DEF WindowFits
    <2>3. Cardinality(Busy(m)) <= Cardinality(Busy(d)) /\ IsFiniteSet(Busy(m))
      BY <1>3, <2>2, FS_Subset
    <2>4. Cardinality(Busy(m)) \in Nat /\ d.width \in Nat
      BY <2>3, FS_CardinalityType, WidthFits
    <2> QED
      BY <2>2, <2>3, <2>4
  <1>6. Finalize \in Queued(m) \/ (m.run = "completed" /\ m.width > 0) => Written(m) = DOMAIN m.chunk
    BY <1>1, <1>2 DEF WindowFits
  <1>7. WindowFits(m)
    BY <1>3, <1>4, <1>5, <1>6 DEF WindowFits
  <1> QED
    BY <1>2, <1>7

(* A serial sink takes it into its state.                                  *)
LEMMA ChunkThreaded ==
    ASSUME NEW d, DbFits(d), WindowFits(d), ThreadFits(d), NEW k \in DOMAIN d.chunk, k \notin Written(d),
           d.width = 1 => \A e \in DOMAIN d.chunk : e < k => e \in Written(d),
           NEW m, m.width = d.width, d.width = 1 => m.state = Append(d.state, k),
           DOMAIN m.chunk = DOMAIN d.chunk, Written(m) = Written(d) \cup {k}
    PROVE  ThreadFits(m)
  <1> SUFFICES ASSUME m.width = 1
               PROVE  /\ \A e, c \in DOMAIN m.chunk : e < c /\ c \in Written(m) => e \in Written(m)
                      /\ m.state = [n \in 1..Cardinality(Written(m)) |-> n]
    BY DEF ThreadFits
  <1>1. Written(d) = 1..(k - 1) /\ Cardinality(Written(d)) = k - 1 /\ k - 1 \in Nat
    BY WrittenBefore
  <1>2. \A e, c \in DOMAIN m.chunk : e < c /\ c \in Written(m) => e \in Written(m)
    BY DEF ThreadFits
  <1>3. k \in Nat
    BY DEF WindowFits, Chunks
  <1>4. Cardinality(Written(m)) = k
    <2>1. IsFiniteSet(Written(d))
      <3>1. Written(d) \subseteq DOMAIN d.chunk
        BY DEF Written, ChunksIn
      <3> QED
        BY <3>1, ChunkSets
    <2>2. Cardinality(Written(m)) = Cardinality(Written(d)) + 1
      BY <2>1, FS_AddElement
    <2> QED
      BY <1>1, <1>3, <2>2
  <1>5. d.state = [n \in 1..(k - 1) |-> n] /\ m.state = Append(d.state, k)
    BY <1>1 DEF ThreadFits
  <1>6. Append([n \in 1..(k - 1) |-> n], k) = [n \in 1..k |-> n]
    <2> DEFINE s == [n \in 1..(k - 1) |-> n]
               t == [n \in 1..k |-> n]
    <2>1. s \in Seq(Nat) /\ Len(s) = k - 1
      BY <1>1
    <2>2. t \in Seq(Nat) /\ Len(t) = k
      BY <1>3
    <2>3. /\ Append(s, k) \in Seq(Nat) /\ Len(Append(s, k)) = Len(s) + 1
          /\ \A n \in 1..Len(s) : Append(s, k)[n] = s[n]
          /\ Append(s, k)[Len(s) + 1] = k
      <3> HIDE DEF s
      <3> QED
        BY <1>3, <2>1, AppendProperties
    <2>4. \A n \in 1..k : Append(s, k)[n] = t[n]
      <3>1. \A n \in 1..(k - 1) : s[n] = n /\ Append(s, k)[n] = s[n]
        BY <2>1, <2>3
      <3>2. Append(s, k)[k] = k
        BY <1>1, <1>3, <2>1, <2>3
      <3>3. \A n \in 1..k : t[n] = n
        OBVIOUS
      <3> HIDE DEF s, t
      <3> QED
        BY <1>1, <1>3, <3>1, <3>2, <3>3
    <2> HIDE DEF s, t
    <2>5. Len(Append(s, k)) = Len(t)
      BY <1>3, <2>1, <2>2, <2>3
    <2>6. Append(s, k) = t
      BY <2>2, <2>3, <2>4, <2>5, SeqEqual
    <2> QED
      BY <2>6 DEF s, t
  <1> QED
    BY <1>2, <1>4, <1>5, <1>6

LEMMA SinkCommitChunk ==
    ASSUME Inv1, Inv2, Inv3, Inv1', Remembers, NEW h \in Handlers, CommitChunk(h)
    PROVE  Inv3'
  <1> DEFINE q == handler[h]
             k == q.job[2]
             s == IF db.width = 1 THEN Append(q.state, k) ELSE <<>>
             n == db.written + 1
             row == [db.chunk[k] EXCEPT !.status = "completed"]
             chunk == [db.chunk EXCEPT ![k] = row]
             d == [db EXCEPT !.chunk[k].status = "completed", !.written = n, !.state = s]
             r == [Idle EXCEPT !.pc = "return", !.job = q.job]
  <1>1. /\ q.pc = "commit" /\ q.job[1] = "write" /\ Goto(h, "return") /\ db' = EnqueueNextSinkWork(d)
        /\ db.written < Len(db.chunk)
    BY DEF CommitChunk, At, Kind, Inv1, DbFits, Tables
  <1>2. q.pc \in Work /\ Writing(q)
    BY <1>1 DEF Work, Writing
  <1>3. DbFits(db) /\ WholeFits(db) /\ k \in DOMAIN db.chunk /\ k \in Chunks /\ q.job = Write(k)
        /\ db.chunk # <<>>
    BY <1>1, <1>2, WorkWhole, ChunkThere, JobParts DEF Write
  <1>4. DbFits(d)
    <2>1. s \in Seq(Chunks)
      <3>1. q.state \in Seq(Chunks) /\ k \in Chunks
        BY <1>1, <1>2, <1>3, AtWork DEF HandlerFits, Reads
      <3> HIDE DEF k
      <3> QED
        BY <3>1
    <2>2. n \in Nat /\ n <= Len(db.chunk)
      <3>1. db.written \in Nat /\ Len(db.chunk) \in Nat
        BY <1>3 DEF DbFits, Tables
      <3>2. db.written < Len(db.chunk)
        BY <1>1
      <3> QED
        BY <3>1, <3>2
    <2> HIDE DEF s, n, k
    <2> QED
      BY <1>3, <2>1, <2>2, WithChunk
  <1>5. d = [db EXCEPT !.chunk = chunk, !.written = n, !.state = s]
    OBVIOUS
  <1>6. row.status = "completed"
    <2>1. db.chunk[k] \in ChunkRow
      <3>1. db.chunk \in Seq(ChunkRow)
        BY <1>3 DEF DbFits, Tables
      <3> HIDE DEF ChunkRow
      <3> QED
        BY <1>3, <3>1
    <2> QED
      BY <2>1 DEF ChunkRow
  <1>7. Timely => StillSo(q, db)
    BY DEF Inv3
  <1>8. handler' = [handler EXCEPT ![h] = r] /\ r.pc = "return"
    <2>1. handler' = [handler EXCEPT ![h] = r]
      BY <1>1, Zenon DEF Goto
    <2> QED
      BY <2>1 DEF Idle
  <1> HIDE DEF r, row, d, n
  <1>9. /\ DOMAIN chunk = DOMAIN db.chunk /\ chunk[k].status = "completed"
        /\ \A c \in DOMAIN db.chunk \ {k} : chunk[c] = db.chunk[c]
    BY <1>3, <1>6
  <1>10. Timely => /\ db.width = 1 => /\ s = Append(db.state, k)
                                      /\ \A e \in DOMAIN db.chunk : e < k => e \in Written(db)
                   /\ db.chunk[k].status # "completed"
    BY <1>1, <1>2, <1>7 DEF StillSo
  <1> HIDE DEF s, chunk
  <1>11. /\ d.run = db.run /\ d.width = db.width /\ d.job = db.job /\ d.chunk = chunk /\ d.state = s
    BY <1>3, <1>5 DEF DbFits, Tables
  <1>12. WindowFits(d) /\ Written(d) = Written(db) \cup {k}
    BY <1>3, <1>9, <1>11, ChunkDone DEF Inv3
  <1>13. ASSUME Timely
         PROVE  ThreadFits(d)
    <2>1. k \notin Written(db) /\ ThreadFits(db) /\ WindowFits(db)
      BY <1>10, <1>13 DEF Written, ChunksIn, Inv3
    <2>2. /\ db.width = 1 => \A e \in DOMAIN db.chunk : e < k => e \in Written(db)
          /\ db.width = 1 => d.state = Append(db.state, k)
          /\ DOMAIN d.chunk = DOMAIN db.chunk
      BY <1>9, <1>10, <1>11, <1>13
    <2> HIDE DEF k
    <2> QED
      BY <1>3, <1>11, <1>12, <2>1, <2>2, ChunkThreaded
  <1>14. ASSUME Timely, NEW g \in Handlers \ {h}
         PROVE  StillSo(handler[g], d)
    <2>1. StillSo(handler[g], db) /\ ~Starting(handler[g])
      BY <1>3, <1>14 DEF Inv3, StillSo
    <2>2. ASSUME Writing(handler[g])
          PROVE  /\ d.width # 1 /\ d.chunk[handler[g].job[2]].status = db.chunk[handler[g].job[2]].status
      <3> DEFINE b == handler[g].job[2]
      <3>1. b \in DOMAIN db.chunk /\ handler[g].job = Write(b) /\ handler[g].pc \in Work
        BY <2>2, WritingThere
      <3>2. b # k
        BY <1>2, <1>3, <1>14, <3>1 DEF Inv1, HandlersFit, Apart
      <3>3. db.width # 1
        BY <1>2, <1>14, <2>2 DEF Inv3
      <3> QED
        BY <1>9, <1>11, <3>1, <3>2, <3>3
    <2> QED
      BY <2>1, <2>2 DEF StillSo
  <1>15. ~Writing(r) /\ ~Starting(r)
    BY <1>8 DEF Writing, Starting
  <1>16. handler' = [handler EXCEPT ![h] = r] /\ db' = EnqueueNextSinkWork(d)
    BY <1>1, <1>8
  <1> HIDE DEF q
  <1> QED
    BY <1>4, <1>11, <1>12, <1>13, <1>14, <1>15, <1>16, SinkSchedules

-----------------------------------------------------------------------------
LEMMA InitSink ==
    ASSUME Init, Inv1, Inv2
    PROVE  Inv3
  <1> DEFINE d == [run |-> "active", cursor |-> 0, snapshot |-> FALSE, done |-> FALSE, queued |-> FALSE,
                   order |-> <<>>,
                   item |-> [i \in Items |-> "absent"], attempt |-> [i \in Items |-> 0],
                   rows |-> [i \in Items |-> {}], closed |-> [i \in Items |-> {}],
                   passed |-> [i \in Items |-> {}],
                   ended |-> 0, failed |-> 0,
                   inv |-> [v \in Invocations |-> [status |-> "absent", size |-> 0, closed |-> FALSE,
                                                   member |-> [i \in Items |-> "absent"],
                                                   resume |-> [i \in Items |-> 0]]],
                   width |-> 0, state |-> <<>>, chunk |-> <<>>, written |-> 0,
                   job |-> [j \in JobIds |-> Job("absent")]]
             first == <<"source", 1, 0>>
  <1>1. db = Enqueue(d, {first}, "pending")
    BY DEF Init
  <1>2. /\ d.run = "active" /\ d.chunk = <<>> /\ d.state = <<>> /\ d.width = 0
        /\ d.job = [j \in JobIds |-> Job("absent")]
        /\ {"run", "chunk", "state", "width"} \subseteq DOMAIN d \ {"job"} /\ "job" \in DOMAIN d
    OBVIOUS
  <1> HIDE DEF d
  <1>3. /\ \A x \in DOMAIN d \ {"job"} : db[x] = d[x]
        /\ \A j \in JobIds : db.job[j] = d.job[j] \/ j = first
    BY <1>1, <1>2 DEF Enqueue
  <1>4. db.run = "active" /\ db.chunk = <<>> /\ db.state = <<>> /\ db.width = 0
    BY <1>2, <1>3
  <1>5. \A j \in Outputs : j \notin Queued(db)
    <2>1. \A j \in JobIds : d.job[j].status = "absent"
      BY <1>2, JobFresh
    <2>2. first[1] = "source"
      OBVIOUS
    <2> HIDE DEF first
    <2> QED
      BY <1>3, <2>1, <2>2, OutputJobs DEF Queued
  <1>6. DOMAIN db.chunk = {}
    BY <1>4, EmptyChunks DEF Inv1
  <1>7. Busy(db) = {} /\ Written(db) = {} /\ Cardinality({}) = 0
    BY <1>6, FS_EmptySet DEF Busy, Written, ChunksIn
  <1>8. WindowFits(db)
    BY <1>4, <1>5, <1>6, <1>7 DEF WindowFits, Outputs
  <1>9. ThreadFits(db)
    BY <1>4 DEF ThreadFits
  <1>10. \A h \in Handlers : handler[h].pc = "idle"
    BY DEF Init, Idle
  <1>11. \A h \in Handlers : ~Writing(handler[h]) /\ ~Starting(handler[h])
    BY <1>10 DEF Writing, Starting
  <1> QED
    BY <1>8, <1>9, <1>11 DEF Inv3, StillSo

LEMMA NextSink ==
    ASSUME Inv1, Inv2, UsedFits, Inv3, [Next]_vars
    PROVE  Inv3'
  <1> Inv1' /\ Remembers
    BY NextFits, NextTold
  <1>1. ASSUME NEW h \in Handlers, Handle(h)
        PROVE  Inv3'
    BY <1>1, SinkBeginAttempt, SinkMark, SinkMarkChunk, SinkFenced, SinkInvokeAnswers,
       SinkCommitInitialize, SinkCommitPage, SinkRetryItem, SinkCommitItem, SinkApplyFailurePolicy,
       SinkScheduleNext, SinkCountEnded, SinkQueueSink, SinkLookForInvocation, SinkCommitPark,
       SinkParkRefused, SinkEnqueuePhysical, SinkCommitOutcomes, SinkOutcomesRefused,
       SinkCompleteMember, SinkMembersDone, SinkCommitStart, SinkCommitChunk, SinkChunkRefused,
       SinkCommitFinalize, SinkJobComplete, SinkJobFail, SinkJobDefer, SinkJobPark DEF Handle
  <1>2. ASSUME NEW h \in Handlers, NEW j \in JobIds, Take(h, j)
        PROVE  Inv3'
    BY <1>2, SinkLoadContext, SinkSource, SinkItem, SinkMembers, SinkStart, SinkChunk,
       SinkFinalizeBegun DEF Take
  <1>3. ASSUME NEW j \in JobIds, Lapse(j) \/ Stall(j)
        PROVE  Inv3'
    BY <1>3, SinkRequeued
  <1>4. CASE Proceed
    BY <1>1, <1>2, <1>3, <1>4, SinkHandleExhausted, SinkWindowCloses DEF Proceed
  <1>5. CASE \E h \in Handlers : Throttled(h) \/ InvokeFails(h) \/ DatabaseFails(h)
                                \/ CommitLate(h) \/ Crash(h)
    BY <1>5, SinkThrottled, SinkInvokeFails, SinkDatabaseFails, SinkCommitLate, SinkCrash
  <1>6. CASE PauseOperator \/ ResumeOperator \/ Cancel
    BY <1>6, SinkPause, SinkResume, SinkCancel
  <1>7. CASE UNCHANGED vars
    <2>1. db' = db /\ handler' = handler
      BY <1>7 DEF vars
    <2> QED
      BY <2>1, CalmRefl, SinkOutside
  <1> QED
    BY <1>3, <1>4, <1>5, <1>6, <1>7 DEF Next

(* The third layer is an invariant of a batch step, whatever crashes,      *)
(* fails, stalls or is delivered again: the slots of the sink always fit,  *)
(* and its state as long as no holder has outlived its lease.              *)
THEOREM BatchSinks == Spec => [](Inv1 /\ UsedFits /\ Inv2 /\ Inv3)
  <1>1. Init => Inv1 /\ UsedFits /\ Inv2 /\ Inv3
    <2>1. Init => UsedFits
      BY BatchAssumption DEF Init, UsedFits
    <2> QED
      BY <2>1, InitFits, InitWhole, InitSink
  <1>2. Inv1 /\ UsedFits /\ Inv2 /\ Inv3 /\ [Next]_vars => Inv3'
    BY NextSink
  <1> QED
    BY <1>1, <1>2, BatchWhole, PTL DEF Spec

(* No more chunks are queued or being written than the sink declared, and  *)
(* finalize waits for every one of them (enqueueNextSinkWork).             *)
THEOREM SinkKeepsItsWindow == Spec => []SinkWindow
  <1>1. Inv1 /\ Inv2 /\ Inv3 => SinkWindow
    <2> SUFFICES ASSUME Inv1, Inv2, Inv3
                 PROVE  SinkWindow
      OBVIOUS
    <2> DEFINE open == {c \in DOMAIN db.chunk : /\ db.chunk[c].status # "completed"
                                                /\ LiveJob(db, <<"write", c, 0>>)}
    <2>1. DbFits(db) /\ WindowFits(db)
      BY DEF Inv1, Inv3
    <2>2. \A j \in JobIds : LiveJob(db, j) => j \in Queued(db)
      BY DEF LiveJob, LiveStatuses, Queued
    <2>3. ASSUME db.run = "active"
          PROVE  Cardinality(open) <= db.width
      <3>1. db.run \notin Over
        BY <2>3 DEF Over
      <3>2. ASSUME NEW c \in open
            PROVE  c \in Busy(db)
        <4>1. c \in DOMAIN db.chunk /\ LiveJob(db, Write(c)) /\ Write(c) \in JobIds
          <5>1. c \in DOMAIN db.chunk /\ LiveJob(db, Write(c))
            BY DEF Write
          <5>2. Write(c) \in Outputs
            BY <2>1, <5>1 DEF WindowFits, Outputs
          <5> QED
            BY <5>1, <5>2, OutputJobs
        <4>2. db.chunk[c].status \in {"pending", "running"}
          <5>1. db.chunk[c] \in ChunkRow
            <6>1. db.chunk \in Seq(ChunkRow)
              BY <2>1 DEF DbFits, Tables
            <6> HIDE DEF ChunkRow
            <6> QED
              BY <4>1, <6>1
          <5> QED
            BY <2>1, <3>1, <4>1, <5>1 DEF ChunkRow, WindowFits
        <4> QED
          BY <2>2, <4>1, <4>2 DEF Busy
      <3>3. IsFiniteSet(Busy(db)) /\ Cardinality(Busy(db)) \in Nat /\ Cardinality(Busy(db)) <= db.width
        <4>1. Busy(db) \subseteq DOMAIN db.chunk
          BY DEF Busy
        <4> QED
          BY <2>1, <3>1, <4>1, ChunkSets DEF WindowFits
      <3> HIDE DEF open
      <3>4. open \subseteq Busy(db)
        BY <3>2
      <3>5. Cardinality(open) <= Cardinality(Busy(db)) /\ Cardinality(open) \in Nat
        BY <3>3, <3>4, FS_Subset, FS_CardinalityType
      <3>6. db.width \in Nat
        BY <2>1, WidthFits
      <3> QED
        BY <3>3, <3>5, <3>6
    <2>4. LiveJob(db, Finalize) => Finalize \in Queued(db)
      <3>1. Finalize \in JobIds
        BY OutputJobs DEF Outputs
      <3> QED
        BY <2>2, <3>1
    <2>5. LiveJob(db, Finalize) \/ (db.run = "completed" /\ db.width > 0) =>
                ChunksIn(db, "completed") = DOMAIN db.chunk
      BY <2>1, <2>4 DEF WindowFits, Written
    <2> QED
      BY <2>3, <2>5 DEF SinkWindow
  <1> QED
    BY <1>1, BatchSinks, PTL

(* As long as no holder has outlived its lease, the state of a serial sink *)
(* has been through every written chunk once, in source order, whatever    *)
(* crashes, fails or is delivered again (writeSinkChunk).                  *)
THEOREM SinkThreadsItsState == Spec => []StateThreaded
  <1>1. Inv3 => StateThreaded
    BY DEF Inv3, ThreadFits, StateThreaded, Written
  <1> QED
    BY <1>1, BatchSinks, PTL
=============================================================================
