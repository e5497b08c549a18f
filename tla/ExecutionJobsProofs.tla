------------------------ MODULE ExecutionJobsProofs ------------------------
(***************************************************************************)
(* Proofs about the durable job queue, for any sets of jobs, loops and     *)
(* drivers and any limits.                                                 *)
(*                                                                         *)
(* The inductive invariant has three parts: the types; RowInv, what holds  *)
(* of every row by itself (its lease columns agree with its status, its    *)
(* counters are within their limits, its invocation row belongs to its     *)
(* lease); and LeaseUnique, which relates rows to the leases workers hold. *)
(* A statement either grants leases, or keeps every row's generation and   *)
(* leaves no row running that was not running for the same worker (Keeps). *)
(***************************************************************************)
EXTENDS ExecutionJobs, TLAPS

(* What holds of every row by itself.                                      *)
RowInv(r) ==
    /\ r.status = "running" <=> r.leasedBy # NoWorker
    /\ r.live => r.status = "running"
    /\ r.status = "absent" => r.generation = 0
    /\ r.status = "running" => r.generation > 0
    /\ r.status = "pending" => r.attempt < MaxAttempts /\ r.expiries < MaxLeaseExpiries
    /\ r.status = "running" =>
            r.attempt \in 1 .. MaxAttempts /\ r.expiries < MaxLeaseExpiries
    /\ r.status = "failed" =>
            r.attempt = MaxAttempts \/ r.expiries = MaxLeaseExpiries
    /\ r.invocation # 0 => r.status = "running" /\ r.invocation = r.generation

GoodRow(r) == r \in Row /\ RowInv(r)

(* A row change that grants no lease.                                      *)
Keeps(r, s) ==
    /\ s.generation = r.generation
    /\ s.status = "running" => r.status = "running" /\ s.leasedBy = r.leasedBy

IInv ==
    /\ TypeOK
    /\ \A j \in Jobs : RowInv(job[j])
    /\ LeaseUnique

-----------------------------------------------------------------------------
(* Each row update keeps a row good and, except for Leased, grants no      *)
(* lease.                                                                  *)

LEMMA NewRowGood == GoodRow(NewRow)
  BY WorkersAssumption DEF GoodRow, RowInv, NewRow, Row, Terminal

LEMMA LeasedGood ==
    ASSUME NEW r, GoodRow(r), r.status = "pending", NEW w \in Workers
    PROVE  /\ GoodRow(Leased(r, w))
           /\ Leased(r, w).generation = r.generation + 1
           /\ Leased(r, w).leasedBy = w
  <1>1. Leased(r, w) \in Row
    <2>1. r.generation + 1 \in Nat /\ r.attempt + 1 \in Nat
      BY DEF GoodRow, Row
    <2>2. w \in Workers \cup {NoWorker}
      OBVIOUS
    <2> QED BY <2>1, <2>2 DEF GoodRow, Leased, Row
  <1>2. RowInv(Leased(r, w))
    BY WorkersAssumption, LimitsAssumption DEF GoodRow, RowInv, Leased, Row
  <1> QED BY <1>1, <1>2 DEF GoodRow, Leased, Row

LEMMA CompletedGood ==
    ASSUME NEW r, GoodRow(r), r.status = "running"
    PROVE  GoodRow(Completed(r, r.generation)) /\ Keeps(r, Completed(r, r.generation))
  <1>1. Completed(r, r.generation) \in Row
    BY LimitsAssumption DEF GoodRow, RowInv, Completed, Unleased, DeleteLeaseInvocations, Row, Terminal
  <1>2. RowInv(Completed(r, r.generation))
    BY LimitsAssumption, WorkersAssumption DEF GoodRow, RowInv, Completed, Unleased, DeleteLeaseInvocations, Row, Terminal
  <1>3. Keeps(r, Completed(r, r.generation))
    BY WorkersAssumption DEF GoodRow, RowInv, Keeps, Completed, Unleased, DeleteLeaseInvocations, Row, Terminal
  <1> QED BY <1>1, <1>2, <1>3 DEF GoodRow

LEMMA FailedGood ==
    ASSUME NEW r, GoodRow(r), r.status = "running"
    PROVE  GoodRow(Failed(r, r.generation)) /\ Keeps(r, Failed(r, r.generation))
  <1>1. Failed(r, r.generation) \in Row
    BY LimitsAssumption DEF GoodRow, RowInv, Failed, Unleased, DeleteLeaseInvocations, Row, Terminal
  <1>2. RowInv(Failed(r, r.generation))
    BY LimitsAssumption, WorkersAssumption DEF GoodRow, RowInv, Failed, Unleased, DeleteLeaseInvocations, Row, Terminal
  <1>3. Keeps(r, Failed(r, r.generation))
    BY WorkersAssumption DEF GoodRow, RowInv, Keeps, Failed, Unleased, DeleteLeaseInvocations, Row, Terminal
  <1> QED BY <1>1, <1>2, <1>3 DEF GoodRow

LEMMA ReleasedGood ==
    ASSUME NEW r, GoodRow(r), r.status = "running", NEW d \in BOOLEAN
    PROVE  GoodRow(Released(r, r.generation, d)) /\ Keeps(r, Released(r, r.generation, d))
  <1>1. Released(r, r.generation, d) \in Row
    <2>1. r.attempt - 1 \in Nat
      BY LimitsAssumption DEF GoodRow, RowInv, Row
    <2> QED BY <2>1 DEF GoodRow, Released, Unleased, DeleteLeaseInvocations, Row
  <1>2. RowInv(Released(r, r.generation, d))
    BY LimitsAssumption, WorkersAssumption DEF GoodRow, RowInv, Released, Unleased, DeleteLeaseInvocations, Row, Terminal
  <1>3. Keeps(r, Released(r, r.generation, d))
    BY WorkersAssumption DEF GoodRow, RowInv, Keeps, Released, Unleased, DeleteLeaseInvocations, Row, Terminal
  <1> QED BY <1>1, <1>2, <1>3 DEF GoodRow

LEMMA CanceledGood ==
    ASSUME NEW r, GoodRow(r), r.status \in {"pending", "running"}
    PROVE  GoodRow(Canceled(r)) /\ Keeps(r, Canceled(r))
  <1>1. Canceled(r) \in Row
    BY LimitsAssumption DEF GoodRow, RowInv, Canceled, Unleased, Row, Terminal
  <1>2. RowInv(Canceled(r))
    BY LimitsAssumption, WorkersAssumption DEF GoodRow, RowInv, Canceled, Unleased, Row, Terminal
  <1>3. Keeps(r, Canceled(r))
    BY WorkersAssumption DEF GoodRow, RowInv, Keeps, Canceled, Unleased, Row, Terminal
  <1> QED BY <1>1, <1>2, <1>3 DEF GoodRow

LEMMA ExpiredGood ==
    ASSUME NEW r, GoodRow(r), r.status = "running"
    PROVE  GoodRow(Expired(r)) /\ Keeps(r, Expired(r))
  <1>1. Expired(r) \in Row
    <2>1. r.attempt - 1 \in Nat /\ r.expiries + 1 \in Nat /\ r.attempt > 0
      BY LimitsAssumption DEF GoodRow, RowInv, Row
    <2>2. CASE r.expiries + 1 < MaxLeaseExpiries
      BY <2>1, <2>2 DEF GoodRow, Expired, Unleased, Row, Terminal
    <2>3. CASE ~(r.expiries + 1 < MaxLeaseExpiries)
      BY <2>1, <2>3 DEF GoodRow, Expired, Unleased, Row, Terminal
    <2> QED BY <2>2, <2>3
  <1>2. RowInv(Expired(r))
    BY LimitsAssumption, WorkersAssumption DEF GoodRow, RowInv, Expired, Unleased, Row, Terminal
  <1>3. Keeps(r, Expired(r))
    BY WorkersAssumption DEF GoodRow, RowInv, Keeps, Expired, Unleased, Row, Terminal
  <1> QED BY <1>1, <1>2, <1>3 DEF GoodRow

LEMMA RevivedGood ==
    ASSUME NEW r, GoodRow(r), r.status \in Terminal, NEW d \in BOOLEAN
    PROVE  GoodRow(Revived(r, d)) /\ Keeps(r, Revived(r, d))
  <1>1. Revived(r, d) \in Row
    BY LimitsAssumption DEF GoodRow, RowInv, Revived, Unleased, Row, Terminal
  <1>2. RowInv(Revived(r, d))
    BY LimitsAssumption, WorkersAssumption DEF GoodRow, RowInv, Revived, Unleased, Row, Terminal
  <1>3. Keeps(r, Revived(r, d))
    BY WorkersAssumption DEF GoodRow, RowInv, Keeps, Revived, Unleased, Row, Terminal
  <1> QED BY <1>1, <1>2, <1>3 DEF GoodRow

-----------------------------------------------------------------------------
(* A step seen from the rows, from the leases workers hold, and from the   *)
(* rest of the state.                                                      *)

RowsStep ==
    /\ job' \in [Jobs -> Row]
    /\ \A j \in Jobs : RowInv(job'[j]) /\ Keeps(job[j], job'[j])

HeldStep ==
    /\ held' \in [Workers -> [Jobs -> Nat]]
    /\ \A w \in Workers, j \in Jobs : held'[w][j] = held[w][j] \/ held'[w][j] = 0

RestTyped ==
    /\ worker' \in [Workers -> WorkerState]
    /\ exh' \in [Workers -> [Jobs -> {"none", "handler", "confirm", "unclaim"}]]
    /\ handled' \in [Jobs -> BOOLEAN]
    /\ revivals' \in Nat
    /\ faults' \in Nat

(* A step that grants no lease and only drops held ones keeps the          *)
(* invariant.                                                              *)
LEMMA StepKeepsIInv ==
    ASSUME IInv, RowsStep, HeldStep, RestTyped
    PROVE  IInv'
  <1>1. TypeOK'
    BY DEF RowsStep, HeldStep, RestTyped, TypeOK
  <1>2. \A j \in Jobs : RowInv(job[j])'
    BY DEF RowsStep, RowInv
  <1>3. LeaseUnique'
    <2> SUFFICES ASSUME NEW j \in Jobs, NEW w \in Workers
                 PROVE  /\ held'[w][j] <= job'[j].generation
                        /\ held'[w][j] # 0 =>
                            /\ \A v \in Workers \ {w} : held'[v][j] # held'[w][j]
                            /\ job'[j].status = "running" /\ held'[w][j] = job'[j].generation
                                    => job'[j].leasedBy = w
      BY DEF LeaseUnique
    <2>1. Keeps(job[j], job'[j]) /\ job[j].generation \in Nat
      BY DEF RowsStep, IInv, TypeOK, Row
    <2>2. \A v \in Workers : held'[v][j] = held[v][j] \/ held'[v][j] = 0
      BY DEF HeldStep
    <2>3. /\ held[w][j] <= job[j].generation
          /\ held[w][j] # 0 =>
                /\ \A v \in Workers \ {w} : held[v][j] # held[w][j]
                /\ job[j].status = "running" /\ held[w][j] = job[j].generation
                        => job[j].leasedBy = w
      BY DEF IInv, LeaseUnique
    <2> QED BY <2>1, <2>2, <2>3 DEF Keeps
  <1> QED BY <1>1, <1>2, <1>3 DEF IInv

LEMMA OneRow ==
    ASSUME IInv, NEW j \in Jobs, NEW s, GoodRow(s), Keeps(job[j], s),
           job' = [job EXCEPT ![j] = s]
    PROVE  RowsStep
  <1>1. job' \in [Jobs -> Row]
    BY DEF IInv, TypeOK, GoodRow
  <1>2. job'[j] = s /\ \A i \in Jobs \ {j} : job'[i] = job[i]
    BY DEF IInv, TypeOK
  <1>3. \A i \in Jobs : RowInv(job[i]) /\ Keeps(job[i], job[i])
    BY DEF IInv, Keeps
  <1> QED BY <1>1, <1>2, <1>3 DEF RowsStep, GoodRow

LEMMA SameRows ==
    ASSUME IInv, UNCHANGED job
    PROVE  RowsStep
  BY DEF IInv, TypeOK, RowsStep, Keeps

LEMMA SameHeld ==
    ASSUME IInv, UNCHANGED held
    PROVE  HeldStep
  BY DEF IInv, TypeOK, HeldStep

LEMMA DropHeld ==
    ASSUME IInv, NEW w \in Workers, NEW j \in Jobs, held' = [held EXCEPT ![w][j] = 0]
    PROVE  HeldStep
  BY DEF IInv, TypeOK, HeldStep

LEMMA RowIsGood ==
    ASSUME IInv, NEW j \in Jobs
    PROVE  GoodRow(job[j])
  BY DEF IInv, TypeOK, GoodRow

(* Owning a lease: the row runs under the generation the worker holds.     *)
LEMMA OwnsGood ==
    ASSUME IInv, NEW w \in Workers, NEW j \in Jobs, Owns(w, j)
    PROVE  /\ GoodRow(job[j])
           /\ job[j].status = "running"
           /\ held[w][j] = job[j].generation
  BY RowIsGood DEF Owns

LEMMA DoneTyped ==
    ASSUME IInv, NEW w \in Workers, NEW j \in Jobs, Done(w, j)
    PROVE  HeldStep /\ worker' \in [Workers -> WorkerState]
  <1>1. HeldStep
    BY DropHeld DEF Done
  <1>2. worker' \in [Workers -> WorkerState]
    BY DEF IInv, TypeOK, Done, WorkerState
  <1> QED BY <1>1, <1>2

Steps == {"poll", "handler", "complete", "fail", "release", "defer", "exhausted"}

LEMMA SetStepTyped ==
    ASSUME IInv, NEW w \in Workers, NEW step \in Steps, SetStep(w, step)
    PROVE  worker' \in [Workers -> WorkerState]
  BY DEF IInv, TypeOK, SetStep, WorkerState, Steps

LEMMA FaultTyped ==
    ASSUME IInv, Fault
    PROVE  faults' \in Nat
  BY DEF IInv, TypeOK, Fault

-----------------------------------------------------------------------------
(* Granting leases: every granted generation is above all those held.      *)
LEMMA TakeLeasesKeepsIInv ==
    ASSUME IInv, NEW w \in Workers, NEW S \in SUBSET Jobs,
           \A j \in S : job[j].status = "pending",
           TakeLeases(w, S)
    PROVE  IInv'
  <1>1. \A j \in Jobs : job'[j] = IF j \in S THEN Leased(job[j], w) ELSE job[j]
    BY DEF TakeLeases
  <1>2. \A j \in S : /\ GoodRow(Leased(job[j], w))
                     /\ Leased(job[j], w).generation = job[j].generation + 1
                     /\ Leased(job[j], w).leasedBy = w
    <2> TAKE j \in S
    <2>1. GoodRow(job[j])
      BY RowIsGood
    <2> HIDE DEF Leased
    <2> QED BY <2>1, LeasedGood
  <1>3. job' \in [Jobs -> Row]
    BY <1>2, RowIsGood DEF TakeLeases, GoodRow
  <1>4. held' \in [Workers -> [Jobs -> Nat]]
    <2>1. \A j \in Jobs : job[j].generation + 1 \in Nat
      BY DEF IInv, TypeOK, Row
    <2> QED BY <2>1 DEF TakeLeases, IInv, TypeOK
  <1>5. TypeOK'
    BY <1>3, <1>4 DEF TakeLeases, IInv, TypeOK, exhVars, counters
  <1>6. \A j \in Jobs : RowInv(job'[j])
    BY <1>1, <1>2 DEF IInv, GoodRow
  <1>7. LeaseUnique'
    <2> SUFFICES ASSUME NEW j \in Jobs, NEW u \in Workers
                 PROVE  /\ held'[u][j] <= job'[j].generation
                        /\ held'[u][j] # 0 =>
                            /\ \A v \in Workers \ {u} : held'[v][j] # held'[u][j]
                            /\ job'[j].status = "running" /\ held'[u][j] = job'[j].generation
                                    => job'[j].leasedBy = u
      BY DEF LeaseUnique
    <2>1. /\ job[j].generation \in Nat
          /\ \A v \in Workers : held[v][j] \in Nat /\ held[v][j] <= job[j].generation
      BY DEF IInv, TypeOK, Row, LeaseUnique
    <2>2. /\ \A v \in Workers \ {w} : held'[v][j] = held[v][j]
          /\ held'[w][j] = IF j \in S THEN job[j].generation + 1 ELSE held[w][j]
      BY DEF TakeLeases, IInv, TypeOK
    <2>3. CASE j \in S
      <3>1. /\ job'[j].generation = job[j].generation + 1
            /\ job'[j].leasedBy = w
        BY <2>3, <1>1, <1>2
      <3>2. \A v \in Workers \ {u} : held[u][j] # 0 => held[v][j] # held[u][j]
        BY DEF IInv, LeaseUnique
      <3> QED BY <2>1, <2>2, <2>3, <3>1, <3>2
    <2>4. CASE j \notin S
      BY <2>1, <2>2, <2>4, <1>1 DEF IInv, LeaseUnique
    <2> QED BY <2>3, <2>4
  <1> QED BY <1>5, <1>6, <1>7 DEF IInv, RowInv

-----------------------------------------------------------------------------
(* Every action keeps the invariant.                                       *)

LEMMA EnqueueKeepsIInv ==
    ASSUME IInv, NEW j \in Jobs, Enqueue(j)
    PROVE  IInv'
  <1>1. HeldStep
    BY SameHeld DEF Enqueue
  <1>2. RestTyped
    <2>1. handled' = handled \/ handled' = [handled EXCEPT ![j] = FALSE]
      BY DEF Enqueue
    <2>2. revivals' = revivals \/ revivals' = revivals + 1
      BY DEF Enqueue
    <2>3. handled' \in [Jobs -> BOOLEAN]
      BY <2>1 DEF IInv, TypeOK
    <2>4. revivals' \in Nat
      BY <2>2 DEF IInv, TypeOK
    <2> QED BY <2>3, <2>4 DEF Enqueue, RestTyped, IInv, TypeOK
  <1>3. RowsStep
    <2>1. PICK d \in BOOLEAN :
            \/ /\ job[j].status = "absent"
               /\ job' = [job EXCEPT ![j] = [NewRow EXCEPT !.status = "pending", !.due = d]]
            \/ /\ job[j].status \in Terminal
               /\ job' = [job EXCEPT ![j] = Revived(@, d)]
      BY DEF Enqueue
    <2>2. CASE job[j].status = "absent"
      <3> DEFINE s == [NewRow EXCEPT !.status = "pending", !.due = d]
      <3>1. GoodRow(s)
        <4>1. s \in Row
          BY DEF NewRow, Row, Terminal
        <4>2. RowInv(s)
          BY WorkersAssumption, LimitsAssumption DEF NewRow, RowInv
        <4> QED BY <4>1, <4>2 DEF GoodRow
      <3>2. Keeps(job[j], s)
        BY <2>2, RowIsGood DEF NewRow, Keeps, GoodRow, RowInv
      <3>3. job' = [job EXCEPT ![j] = s]
        BY <2>1, <2>2 DEF Terminal
      <3> QED BY <3>1, <3>2, <3>3, OneRow
    <2>3. CASE job[j].status \in Terminal
      <3>1. GoodRow(Revived(job[j], d)) /\ Keeps(job[j], Revived(job[j], d))
        BY <2>3, RowIsGood, RevivedGood
      <3>2. job' = [job EXCEPT ![j] = Revived(job[j], d)]
        BY <2>1, <2>3 DEF Terminal
      <3> QED BY <3>1, <3>2, OneRow
    <2> QED BY <2>1, <2>2, <2>3
  <1> QED BY <1>1, <1>2, <1>3, StepKeepsIInv

LEMMA RedriveKeepsIInv ==
    ASSUME IInv, NEW j \in Jobs, Redrive(j)
    PROVE  IInv'
  <1>1. HeldStep
    BY SameHeld DEF Redrive
  <1>2. RestTyped
    BY DEF Redrive, RestTyped, IInv, TypeOK
  <1>3. RowsStep
    <2>1. PICK d \in BOOLEAN : job' = [job EXCEPT ![j] = Revived(job[j], d)]
      BY DEF Redrive
    <2>2. GoodRow(Revived(job[j], d)) /\ Keeps(job[j], Revived(job[j], d))
      BY RowIsGood, RevivedGood DEF Redrive, Terminal
    <2> QED BY <2>1, <2>2, OneRow
  <1> QED BY <1>1, <1>2, <1>3, StepKeepsIInv

LEMMA CancelKeepsIInv ==
    ASSUME IInv, NEW j \in Jobs, Cancel(j)
    PROVE  IInv'
  <1>1. HeldStep
    BY SameHeld DEF Cancel, exhVars, counters
  <1>2. RestTyped
    BY DEF Cancel, RestTyped, IInv, TypeOK, exhVars, counters
  <1>3. RowsStep
    <2>1. GoodRow(Canceled(job[j])) /\ Keeps(job[j], Canceled(job[j]))
      BY RowIsGood, CanceledGood DEF Cancel
    <2>2. job' = [job EXCEPT ![j] = Canceled(job[j])]
      BY DEF Cancel
    <2> QED BY <2>1, <2>2, OneRow
  <1> QED BY <1>1, <1>2, <1>3, StepKeepsIInv

LEMMA MakeAvailableKeepsIInv ==
    ASSUME IInv, NEW j \in Jobs, MakeAvailable(j)
    PROVE  IInv'
  <1>1. HeldStep
    BY SameHeld DEF MakeAvailable, exhVars, counters
  <1>2. RestTyped
    BY DEF MakeAvailable, RestTyped, IInv, TypeOK, exhVars, counters
  <1>3. RowsStep
    <2> DEFINE s == [job[j] EXCEPT !.due = TRUE]
    <2>1. GoodRow(s) /\ Keeps(job[j], s)
      <3>1. GoodRow(job[j])
        BY RowIsGood
      <3>2. s \in Row
        BY <3>1 DEF GoodRow, Row
      <3>3. RowInv(s) /\ Keeps(job[j], s)
        BY <3>1 DEF GoodRow, Row, RowInv, Keeps, MakeAvailable
      <3> QED BY <3>2, <3>3 DEF GoodRow
    <2>2. job' = [job EXCEPT ![j] = s]
      BY DEF MakeAvailable
    <2> QED BY <2>1, <2>2, OneRow
  <1> QED BY <1>1, <1>2, <1>3, StepKeepsIInv

LEMMA LeaseLapsesKeepsIInv ==
    ASSUME IInv, NEW j \in Jobs, LeaseLapses(j)
    PROVE  IInv'
  <1>1. HeldStep
    BY SameHeld DEF LeaseLapses, exhVars, counters
  <1>2. RestTyped
    BY DEF LeaseLapses, RestTyped, IInv, TypeOK, exhVars, counters
  <1>3. RowsStep
    <2> DEFINE s == [job[j] EXCEPT !.live = FALSE]
    <2>1. GoodRow(s) /\ Keeps(job[j], s)
      <3>1. GoodRow(job[j])
        BY RowIsGood
      <3>2. s \in Row
        BY <3>1 DEF GoodRow, Row
      <3>3. RowInv(s) /\ Keeps(job[j], s)
        BY <3>1 DEF GoodRow, Row, RowInv, Keeps, LeaseLapses
      <3> QED BY <3>2, <3>3 DEF GoodRow
    <2>2. job' = [job EXCEPT ![j] = s]
      BY DEF LeaseLapses
    <2> QED BY <2>1, <2>2, OneRow
  <1> QED BY <1>1, <1>2, <1>3, StepKeepsIInv

LEMMA RequeueExpiredKeepsIInv ==
    ASSUME IInv, NEW w \in Workers, NEW j \in Jobs, RequeueExpired(w, j)
    PROVE  IInv'
  <1>1. HeldStep
    BY SameHeld DEF RequeueExpired, exhVars, counters
  <1>2. RestTyped
    BY DEF RequeueExpired, RestTyped, IInv, TypeOK, exhVars, counters
  <1>3. RowsStep
    <2>1. GoodRow(Expired(job[j])) /\ Keeps(job[j], Expired(job[j]))
      BY RowIsGood, ExpiredGood DEF RequeueExpired
    <2>2. job' = [job EXCEPT ![j] = Expired(job[j])]
      BY DEF RequeueExpired
    <2> QED BY <2>1, <2>2, OneRow
  <1> QED BY <1>1, <1>2, <1>3, StepKeepsIInv

LEMMA StartJobKeepsIInv ==
    ASSUME IInv, NEW w \in Workers, NEW j \in Jobs, StartJob(w, j)
    PROVE  IInv'
  <1>1. HeldStep
    BY SameHeld DEF StartJob, exhVars, counters
  <1>2. RestTyped
    BY DEF StartJob, RestTyped, IInv, TypeOK, exhVars, counters, WorkerState
  <1>3. RowsStep
    BY SameRows DEF StartJob
  <1> QED BY <1>1, <1>2, <1>3, StepKeepsIInv

LEMMA HeartbeatKeepsIInv ==
    ASSUME IInv, NEW w \in Workers, NEW j \in Jobs, Heartbeat(w, j)
    PROVE  IInv'
  <1>1. HeldStep
    BY SameHeld DEF Heartbeat, exhVars, counters
  <1>2. RestTyped
    BY DEF Heartbeat, RestTyped, IInv, TypeOK, exhVars, counters, WorkerState
  <1>3. RowsStep
    BY SameRows DEF Heartbeat
  <1> QED BY <1>1, <1>2, <1>3, StepKeepsIInv

LEMMA FenceFiresKeepsIInv ==
    ASSUME IInv, NEW w \in Workers, NEW j \in Jobs, FenceFires(w, j)
    PROVE  IInv'
  <1>1. HeldStep
    BY SameHeld DEF FenceFires, exhVars, counters
  <1>2. RestTyped
    <2>1. faults' \in Nat
      BY FaultTyped DEF FenceFires
    <2>2. worker' \in [Workers -> WorkerState]
      BY DEF FenceFires, IInv, TypeOK, WorkerState
    <2> QED BY <2>1, <2>2 DEF FenceFires, RestTyped, IInv, TypeOK, exhVars
  <1>3. RowsStep
    BY SameRows DEF FenceFires
  <1> QED BY <1>1, <1>2, <1>3, StepKeepsIInv

LEMMA HandlerSettlesKeepsIInv ==
    ASSUME IInv, NEW w \in Workers, NEW j \in Jobs, HandlerSettles(w, j)
    PROVE  IInv'
  <1>1. HeldStep
    BY SameHeld DEF HandlerSettles, exhVars, counters
  <1>2. RestTyped
    <2>1. worker' \in [Workers -> WorkerState]
      BY SetStepTyped DEF HandlerSettles, Steps
    <2> QED BY <2>1 DEF HandlerSettles, RestTyped, IInv, TypeOK, exhVars, counters
  <1>3. RowsStep
    BY SameRows DEF HandlerSettles
  <1> QED BY <1>1, <1>2, <1>3, StepKeepsIInv

LEMMA ReleaseUnstartedKeepsIInv ==
    ASSUME IInv, NEW w \in Workers, NEW j \in Jobs, ReleaseUnstarted(w, j)
    PROVE  IInv'
  <1>1. HeldStep
    BY DropHeld DEF ReleaseUnstarted
  <1>2. RestTyped
    BY DEF ReleaseUnstarted, RestTyped, IInv, TypeOK, exhVars, counters
  <1>3. RowsStep
    <2>1. CASE Owns(w, j)
      <3>1. GoodRow(Released(job[j], job[j].generation, TRUE)) /\ Keeps(job[j], Released(job[j], job[j].generation, TRUE))
        BY <2>1, OwnsGood, ReleasedGood
      <3>2. job' = [job EXCEPT ![j] = Released(job[j], job[j].generation, TRUE)]
        BY <2>1, OwnsGood DEF ReleaseUnstarted
      <3> QED BY <3>1, <3>2, OneRow
    <2>2. CASE ~Owns(w, j)
      BY <2>2, SameRows DEF ReleaseUnstarted
    <2> QED BY <2>1, <2>2
  <1> QED BY <1>1, <1>2, <1>3, StepKeepsIInv

LEMMA RegisterInvocationKeepsIInv ==
    ASSUME IInv, NEW w \in Workers, NEW j \in Jobs, RegisterInvocation(w, j)
    PROVE  IInv'
  <1>1. HeldStep
    BY SameHeld DEF RegisterInvocation, exhVars, counters
  <1>2. RestTyped
    BY DEF RegisterInvocation, RestTyped, IInv, TypeOK, exhVars, counters
  <1>3. RowsStep
    <2> DEFINE s == [job[j] EXCEPT !.invocation = held[w][j]]
    <2>1. GoodRow(s) /\ Keeps(job[j], s)
      <3>1. GoodRow(job[j])
        BY RowIsGood
      <3>0. job[j].status = "running" /\ held[w][j] = job[j].generation
        BY OwnsGood DEF RegisterInvocation
      <3>2. s \in Row
        BY <3>1, <3>0 DEF GoodRow, Row
      <3>3. RowInv(s) /\ Keeps(job[j], s)
        BY <3>1, <3>0 DEF GoodRow, Row, RowInv, Keeps
      <3> QED BY <3>2, <3>3 DEF GoodRow
    <2>2. job' = [job EXCEPT ![j] = s]
      BY DEF RegisterInvocation
    <2> QED BY <2>1, <2>2, OneRow
  <1> QED BY <1>1, <1>2, <1>3, StepKeepsIInv

LEMMA UnregisterInvocationKeepsIInv ==
    ASSUME IInv, NEW w \in Workers, NEW j \in Jobs, UnregisterInvocation(w, j)
    PROVE  IInv'
  <1>1. HeldStep
    BY SameHeld DEF UnregisterInvocation, exhVars, counters
  <1>2. RestTyped
    BY DEF UnregisterInvocation, RestTyped, IInv, TypeOK, exhVars, counters
  <1>3. RowsStep
    <2> DEFINE s == DeleteLeaseInvocations(job[j], held[w][j])
    <2>1. GoodRow(s) /\ Keeps(job[j], s)
      <3>1. GoodRow(job[j])
        BY RowIsGood
      <3>2. s \in Row
        BY <3>1 DEF GoodRow, Row, DeleteLeaseInvocations
      <3>3. RowInv(s) /\ Keeps(job[j], s)
        BY <3>1 DEF GoodRow, Row, RowInv, Keeps, DeleteLeaseInvocations
      <3> QED BY <3>2, <3>3 DEF GoodRow
    <2>2. job' = [job EXCEPT ![j] = s]
      BY DEF UnregisterInvocation
    <2> QED BY <2>1, <2>2, OneRow
  <1> QED BY <1>1, <1>2, <1>3, StepKeepsIInv

LEMMA CompleteKeepsIInv ==
    ASSUME IInv, NEW w \in Workers, NEW j \in Jobs, Complete(w, j)
    PROVE  IInv'
  <1>1. HeldStep
    BY DoneTyped DEF Complete
  <1>2. RestTyped
    <2>1. worker' \in [Workers -> WorkerState]
      BY DoneTyped DEF Complete
    <2> QED BY <2>1 DEF Complete, RestTyped, IInv, TypeOK, exhVars, counters
  <1>3. RowsStep
    <2>1. CASE Owns(w, j)
      <3>1. GoodRow(Completed(job[j], job[j].generation)) /\ Keeps(job[j], Completed(job[j], job[j].generation))
        BY <2>1, OwnsGood, CompletedGood
      <3>2. job' = [job EXCEPT ![j] = Completed(job[j], job[j].generation)]
        BY <2>1, OwnsGood DEF Complete
      <3> QED BY <3>1, <3>2, OneRow
    <2>2. CASE ~Owns(w, j)
      BY <2>2, SameRows DEF Complete
    <2> QED BY <2>1, <2>2
  <1> QED BY <1>1, <1>2, <1>3, StepKeepsIInv

LEMMA CompleteThrowsKeepsIInv ==
    ASSUME IInv, NEW w \in Workers, NEW j \in Jobs, CompleteThrows(w, j)
    PROVE  IInv'
  <1>1. HeldStep
    BY SameHeld DEF CompleteThrows, exhVars, counters
  <1>2. RestTyped
    <2>1. faults' \in Nat
      BY FaultTyped DEF CompleteThrows
    <2>2. worker' \in [Workers -> WorkerState]
      BY SetStepTyped DEF CompleteThrows, Steps
    <2> QED BY <2>1, <2>2 DEF CompleteThrows, RestTyped, IInv, TypeOK, exhVars
  <1>3. RowsStep
    <2>1. CASE UNCHANGED job
      BY <2>1, SameRows
    <2>2. CASE Owns(w, j) /\ job' = [job EXCEPT ![j] = Completed(job[j], held[w][j])]
      <3>1. /\ GoodRow(Completed(job[j], job[j].generation))
            /\ Keeps(job[j], Completed(job[j], job[j].generation))
        BY <2>2, OwnsGood, CompletedGood
      <3> QED BY <2>2, <3>1, OwnsGood, OneRow
    <2> QED BY <2>1, <2>2 DEF CompleteThrows
  <1> QED BY <1>1, <1>2, <1>3, StepKeepsIInv

LEMMA FailKeepsIInv ==
    ASSUME IInv, NEW w \in Workers, NEW j \in Jobs, Fail(w, j)
    PROVE  IInv'
  <1>1. HeldStep /\ worker' \in [Workers -> WorkerState]
    <2>1. Done(w, j) \/ (SetStep(w, "exhausted") /\ UNCHANGED held)
      BY DEF Fail
    <2> QED BY <2>1, DoneTyped, SetStepTyped, SameHeld DEF Steps
  <1>2. RestTyped
    BY <1>1 DEF Fail, RestTyped, IInv, TypeOK, exhVars, counters
  <1>3. RowsStep
    <2>1. CASE Owns(w, j)
      <3>1. GoodRow(Failed(job[j], job[j].generation)) /\ Keeps(job[j], Failed(job[j], job[j].generation))
        BY <2>1, OwnsGood, FailedGood
      <3>2. job' = [job EXCEPT ![j] = Failed(job[j], job[j].generation)]
        BY <2>1, OwnsGood DEF Fail
      <3> QED BY <3>1, <3>2, OneRow
    <2>2. CASE ~Owns(w, j)
      BY <2>2, SameRows DEF Fail
    <2> QED BY <2>1, <2>2
  <1> QED BY <1>1, <1>2, <1>3, StepKeepsIInv

LEMMA ReleaseKeepsIInv ==
    ASSUME IInv, NEW w \in Workers, NEW j \in Jobs, Release(w, j)
    PROVE  IInv'
  <1>1. HeldStep
    BY DoneTyped DEF Release
  <1>2. RestTyped
    <2>1. worker' \in [Workers -> WorkerState]
      BY DoneTyped DEF Release
    <2> QED BY <2>1 DEF Release, RestTyped, IInv, TypeOK, exhVars, counters
  <1>3. RowsStep
    <2>1. PICK d \in BOOLEAN :
            job' = IF Owns(w, j) THEN [job EXCEPT ![j] = Released(job[j], held[w][j], d)]
                                 ELSE job
      BY DEF Release
    <2>2. CASE Owns(w, j)
      <3>1. /\ GoodRow(Released(job[j], job[j].generation, d))
            /\ Keeps(job[j], Released(job[j], job[j].generation, d))
        BY <2>2, OwnsGood, ReleasedGood
      <3> QED BY <2>1, <2>2, <3>1, OwnsGood, OneRow
    <2>3. CASE ~Owns(w, j)
      BY <2>1, <2>3, SameRows
    <2> QED BY <2>2, <2>3
  <1> QED BY <1>1, <1>2, <1>3, StepKeepsIInv

LEMMA SettleThrowsKeepsIInv ==
    ASSUME IInv, NEW w \in Workers, NEW j \in Jobs, SettleThrows(w, j)
    PROVE  IInv'
  <1>1. HeldStep
    BY DoneTyped DEF SettleThrows
  <1>2. RestTyped
    <2>1. faults' \in Nat
      BY FaultTyped DEF SettleThrows
    <2>2. worker' \in [Workers -> WorkerState]
      BY DoneTyped DEF SettleThrows
    <2> QED BY <2>1, <2>2 DEF SettleThrows, RestTyped, IInv, TypeOK, exhVars
  <1>3. RowsStep
    BY SameRows DEF SettleThrows
  <1> QED BY <1>1, <1>2, <1>3, StepKeepsIInv

LEMMA ExhTyped ==
    ASSUME IInv, NEW w \in Workers, NEW j \in Jobs,
           NEW x \in {"none", "handler", "confirm", "unclaim"},
           exh' = [exh EXCEPT ![w][j] = x]
    PROVE  exh' \in [Workers -> [Jobs -> {"none", "handler", "confirm", "unclaim"}]]
  BY DEF IInv, TypeOK

(* Claiming terminal handlers stamps rows and grants no lease.             *)
LEMMA StampAllStep ==
    ASSUME IInv, NEW w \in Workers, NEW S \in SUBSET Jobs, StampAll(w, S)
    PROVE  /\ RowsStep
           /\ exh' \in [Workers -> [Jobs -> {"none", "handler", "confirm", "unclaim"}]]
  <1>1. \A j \in Jobs : job'[j] = IF j \in S THEN [job[j] EXCEPT !.stamp = "fresh"] ELSE job[j]
    BY DEF StampAll
  <1>2. \A j \in Jobs : /\ GoodRow([job[j] EXCEPT !.stamp = "fresh"])
                        /\ Keeps(job[j], [job[j] EXCEPT !.stamp = "fresh"])
    <2> TAKE j \in Jobs
    <2>1. GoodRow(job[j])
      BY RowIsGood
    <2>2. [job[j] EXCEPT !.stamp = "fresh"] \in Row
      BY <2>1 DEF GoodRow, Row
    <2>3. RowInv([job[j] EXCEPT !.stamp = "fresh"])
      BY <2>1 DEF GoodRow, Row, RowInv
    <2>4. Keeps(job[j], [job[j] EXCEPT !.stamp = "fresh"])
      BY <2>1 DEF GoodRow, Row, Keeps
    <2> QED BY <2>2, <2>3, <2>4 DEF GoodRow
  <1>3. \A j \in Jobs : GoodRow(job[j]) /\ Keeps(job[j], job[j])
    BY RowIsGood DEF Keeps
  <1>4. RowsStep
    <2>1. job' \in [Jobs -> Row]
      BY <1>2, <1>3 DEF StampAll, GoodRow
    <2>2. \A j \in Jobs : RowInv(job'[j]) /\ Keeps(job[j], job'[j])
      BY <1>1, <1>2, <1>3 DEF GoodRow
    <2> QED BY <2>1, <2>2 DEF RowsStep
  <1>5. exh' \in [Workers -> [Jobs -> {"none", "handler", "confirm", "unclaim"}]]
    BY DEF StampAll, IInv, TypeOK
  <1> QED BY <1>4, <1>5

LEMMA ClaimExhaustedKeepsIInv ==
    ASSUME IInv, NEW w \in Workers, ClaimExhausted(w)
    PROVE  IInv'
  <1>1. PICK S \in SUBSET Jobs : StampAll(w, S)
    BY DEF ClaimExhausted
  <1>2. HeldStep
    BY SameHeld DEF ClaimExhausted
  <1>3. RestTyped
    BY <1>1, StampAllStep DEF ClaimExhausted, RestTyped, IInv, TypeOK, counters
  <1> QED BY <1>1, <1>2, <1>3, StampAllStep, StepKeepsIInv

LEMMA ClaimExhaustionForKeepsIInv ==
    ASSUME IInv, NEW w \in Workers, NEW j \in Jobs, ClaimExhaustionFor(w, j)
    PROVE  IInv'
  <1>1. HeldStep /\ worker' \in [Workers -> WorkerState]
    BY DoneTyped DEF ClaimExhaustionFor
  <1>2. /\ RowsStep
        /\ exh' \in [Workers -> [Jobs -> {"none", "handler", "confirm", "unclaim"}]]
    <2>1. CASE Exhausted(job[j])
      BY <2>1, StampAllStep DEF ClaimExhaustionFor
    <2>2. CASE ~Exhausted(job[j])
      BY <2>2, SameRows DEF ClaimExhaustionFor, IInv, TypeOK
    <2> QED BY <2>1, <2>2
  <1>3. RestTyped
    BY <1>1, <1>2 DEF ClaimExhaustionFor, RestTyped, IInv, TypeOK, counters
  <1> QED BY <1>1, <1>2, <1>3, StepKeepsIInv

LEMMA ExhaustedHandlerKeepsIInv ==
    ASSUME IInv, NEW w \in Workers, NEW j \in Jobs, ExhaustedHandler(w, j)
    PROVE  IInv'
  <1>1. HeldStep
    BY SameHeld DEF ExhaustedHandler, exhVars, counters
  <1>2. RestTyped
    <2>1. faults' = faults \/ Fault
      BY DEF ExhaustedHandler
    <2>2. faults' \in Nat
      BY <2>1, FaultTyped DEF IInv, TypeOK
    <2>3. exh' \in [Workers -> [Jobs -> {"none", "handler", "confirm", "unclaim"}]]
      <3>1. \/ exh' = [exh EXCEPT ![w][j] = "confirm"]
            \/ exh' = [exh EXCEPT ![w][j] = "unclaim"]
        BY DEF ExhaustedHandler
      <3> QED BY <3>1, ExhTyped
    <2>4. handled' \in [Jobs -> BOOLEAN]
      BY DEF ExhaustedHandler, IInv, TypeOK
    <2> QED BY <2>2, <2>3, <2>4 DEF ExhaustedHandler, RestTyped, IInv, TypeOK
  <1>3. RowsStep
    BY SameRows DEF ExhaustedHandler
  <1> QED BY <1>1, <1>2, <1>3, StepKeepsIInv

LEMMA ConfirmExhaustionHandledKeepsIInv ==
    ASSUME IInv, NEW w \in Workers, NEW j \in Jobs, ConfirmExhaustionHandled(w, j)
    PROVE  IInv'
  <1>1. HeldStep
    BY SameHeld DEF ConfirmExhaustionHandled, exhVars, counters
  <1>2. RestTyped
    <2>1. faults' = faults \/ Fault
      BY DEF ConfirmExhaustionHandled
    <2>2. faults' \in Nat
      BY <2>1, FaultTyped DEF IInv, TypeOK
    <2>3. exh' \in [Workers -> [Jobs -> {"none", "handler", "confirm", "unclaim"}]]
      <3>1. \/ exh' = [exh EXCEPT ![w][j] = "none"]
            \/ exh' = [exh EXCEPT ![w][j] = "unclaim"]
        BY DEF ConfirmExhaustionHandled
      <3> QED BY <3>1, ExhTyped
    <2> QED BY <2>2, <2>3 DEF ConfirmExhaustionHandled, RestTyped, IInv, TypeOK
  <1>3. RowsStep
    <2> DEFINE s == [job[j] EXCEPT !.receipt = TRUE]
    <2>1. GoodRow(s) /\ Keeps(job[j], s)
      <3>1. GoodRow(job[j])
        BY RowIsGood
      <3>2. s \in Row
        BY <3>1 DEF GoodRow, Row
      <3>3. RowInv(s) /\ Keeps(job[j], s)
        BY <3>1 DEF GoodRow, Row, RowInv, Keeps
      <3> QED BY <3>2, <3>3 DEF GoodRow
    <2>2. job' = [job EXCEPT ![j] = s] \/ UNCHANGED job
      BY DEF ConfirmExhaustionHandled
    <2> HIDE DEF s
    <2> QED BY <2>1, <2>2, OneRow, SameRows
  <1> QED BY <1>1, <1>2, <1>3, StepKeepsIInv

LEMMA ReleaseExhaustionClaimKeepsIInv ==
    ASSUME IInv, NEW w \in Workers, NEW j \in Jobs, ReleaseExhaustionClaim(w, j)
    PROVE  IInv'
  <1>1. HeldStep
    BY SameHeld DEF ReleaseExhaustionClaim, exhVars, counters
  <1>2. RestTyped
    <2>1. faults' = faults \/ Fault
      BY DEF ReleaseExhaustionClaim
    <2>2. faults' \in Nat
      BY <2>1, FaultTyped DEF IInv, TypeOK
    <2>3. exh' \in [Workers -> [Jobs -> {"none", "handler", "confirm", "unclaim"}]]
      BY DEF ReleaseExhaustionClaim, IInv, TypeOK
    <2> QED BY <2>2, <2>3 DEF ReleaseExhaustionClaim, RestTyped, IInv, TypeOK
  <1>3. RowsStep
    <2> DEFINE s == [job[j] EXCEPT !.stamp = "none"]
    <2>1. GoodRow(s) /\ Keeps(job[j], s)
      <3>1. GoodRow(job[j])
        BY RowIsGood
      <3>2. s \in Row
        BY <3>1 DEF GoodRow, Row
      <3>3. RowInv(s) /\ Keeps(job[j], s)
        BY <3>1 DEF GoodRow, Row, RowInv, Keeps
      <3> QED BY <3>2, <3>3 DEF GoodRow
    <2>2. job' = [job EXCEPT ![j] = s] \/ UNCHANGED job
      BY DEF ReleaseExhaustionClaim
    <2> HIDE DEF s
    <2> QED BY <2>1, <2>2, OneRow, SameRows
  <1> QED BY <1>1, <1>2, <1>3, StepKeepsIInv

LEMMA ExhaustionClaimExpiresKeepsIInv ==
    ASSUME IInv, NEW j \in Jobs, ExhaustionClaimExpires(j)
    PROVE  IInv'
  <1>1. HeldStep
    BY SameHeld DEF ExhaustionClaimExpires, exhVars, counters
  <1>2. RestTyped
    BY DEF ExhaustionClaimExpires, RestTyped, IInv, TypeOK, counters
  <1>3. RowsStep
    <2> DEFINE s == [job[j] EXCEPT !.stamp = "stale"]
    <2>1. GoodRow(s) /\ Keeps(job[j], s)
      <3>1. GoodRow(job[j])
        BY RowIsGood
      <3>2. s \in Row
        BY <3>1 DEF GoodRow, Row
      <3>3. RowInv(s) /\ Keeps(job[j], s)
        BY <3>1 DEF GoodRow, Row, RowInv, Keeps
      <3> QED BY <3>2, <3>3 DEF GoodRow
    <2>2. job' = [job EXCEPT ![j] = s]
      BY DEF ExhaustionClaimExpires
    <2> QED BY <2>1, <2>2, OneRow
  <1> QED BY <1>1, <1>2, <1>3, StepKeepsIInv

LEMMA CrashKeepsIInv ==
    ASSUME IInv, NEW w \in Workers, Crash(w)
    PROVE  IInv'
  <1>1. HeldStep
    BY DEF Crash, HeldStep, IInv, TypeOK
  <1>2. RestTyped
    <2>1. faults' \in Nat
      BY FaultTyped DEF Crash
    <2>2. worker' \in [Workers -> WorkerState]
      BY DEF Crash, IdleWorker, WorkerState, IInv, TypeOK
    <2>3. exh' \in [Workers -> [Jobs -> {"none", "handler", "confirm", "unclaim"}]]
      BY DEF Crash, IInv, TypeOK
    <2> QED BY <2>1, <2>2, <2>3 DEF Crash, RestTyped, IInv, TypeOK
  <1>3. RowsStep
    BY SameRows DEF Crash
  <1> QED BY <1>1, <1>2, <1>3, StepKeepsIInv

LEMMA StopKeepsIInv ==
    ASSUME IInv, NEW w \in Workers, Stop(w)
    PROVE  IInv'
  <1>1. HeldStep
    BY SameHeld DEF Stop, exhVars, counters
  <1>2. RestTyped
    <2>1. faults' \in Nat
      BY FaultTyped DEF Stop
    <2>2. worker' \in [Workers -> WorkerState]
      <3> DEFINE s == [worker[w] EXCEPT !.stopped = TRUE,
                                        !.aborted = (worker[w].step = "handler")]
      <3>1. s \in WorkerState
        BY DEF IInv, TypeOK, WorkerState
      <3>2. worker' = [worker EXCEPT ![w] = s]
        BY DEF Stop
      <3> HIDE DEF s
      <3> QED BY <3>1, <3>2 DEF IInv, TypeOK
    <2> QED BY <2>1, <2>2 DEF Stop, RestTyped, IInv, TypeOK, exhVars
  <1>3. RowsStep
    BY SameRows DEF Stop
  <1> QED BY <1>1, <1>2, <1>3, StepKeepsIInv

LEMMA RestartKeepsIInv ==
    ASSUME IInv, NEW w \in Workers, Restart(w)
    PROVE  IInv'
  <1>1. HeldStep
    BY SameHeld DEF Restart, exhVars, counters
  <1>2. RestTyped
    BY DEF Restart, RestTyped, IInv, TypeOK, exhVars, counters, WorkerState
  <1>3. RowsStep
    BY SameRows DEF Restart
  <1> QED BY <1>1, <1>2, <1>3, StepKeepsIInv

(* The invariant is inductive.                                             *)
LEMMA InitIInv == Init => IInv
  <1> SUFFICES ASSUME Init PROVE IInv
    OBVIOUS
  <1>1. TypeOK
    <2>1. job \in [Jobs -> Row]
      BY NewRowGood DEF Init, GoodRow
    <2>2. worker \in [Workers -> WorkerState]
      BY DEF Init, IdleWorker, WorkerState
    <2> QED BY <2>1, <2>2 DEF Init, TypeOK
  <1>2. \A j \in Jobs : RowInv(job[j])
    BY NewRowGood DEF Init, GoodRow
  <1>3. LeaseUnique
    BY DEF Init, LeaseUnique, NewRow
  <1> QED BY <1>1, <1>2, <1>3 DEF IInv

LEMMA NextIInv == IInv /\ [Next]_vars => IInv'
  <1> SUFFICES ASSUME IInv, [Next]_vars PROVE IInv'
    OBVIOUS
  <1> USE DEF Workers
  <1>1. ASSUME NEW j \in Jobs, Enqueue(j) PROVE IInv'
    BY <1>1, EnqueueKeepsIInv
  <1>2. ASSUME NEW j \in Jobs, Redrive(j) PROVE IInv'
    BY <1>2, RedriveKeepsIInv
  <1>3. ASSUME NEW j \in Jobs, Cancel(j) PROVE IInv'
    BY <1>3, CancelKeepsIInv
  <1>4. ASSUME NEW j \in Jobs, MakeAvailable(j) PROVE IInv'
    BY <1>4, MakeAvailableKeepsIInv
  <1>5. ASSUME NEW j \in Jobs, LeaseLapses(j) PROVE IInv'
    BY <1>5, LeaseLapsesKeepsIInv
  <1>6. ASSUME NEW j \in Jobs, ExhaustionClaimExpires(j) PROVE IInv'
    BY <1>6, ExhaustionClaimExpiresKeepsIInv
  <1>7. ASSUME NEW w \in Loops, Claim(w) PROVE IInv'
    <2>1. PICK S \in SUBSET Jobs : (\A j \in S : job[j].status = "pending") /\ TakeLeases(w, S)
      BY <1>7 DEF Claim, Claimable
    <2> QED BY <2>1, TakeLeasesKeepsIInv
  <1>8. ASSUME NEW w \in Drivers, NEW j \in Jobs, ClaimById(w, j) PROVE IInv'
    <2>1. job[j].status = "pending" /\ TakeLeases(w, {j})
      BY <1>8 DEF ClaimById, Claimable
    <2>2. \A i \in {j} : job[i].status = "pending"
      BY <2>1
    <2> QED BY <2>1, <2>2, TakeLeasesKeepsIInv
  <1>9. ASSUME NEW w \in Workers, ClaimExhausted(w) PROVE IInv'
    BY <1>9, ClaimExhaustedKeepsIInv
  <1>10. ASSUME NEW w \in Workers, Crash(w) PROVE IInv'
    BY <1>10, CrashKeepsIInv
  <1>11. ASSUME NEW w \in Workers, Stop(w) PROVE IInv'
    BY <1>11, StopKeepsIInv
  <1>12. ASSUME NEW w \in Workers, Restart(w) PROVE IInv'
    BY <1>12, RestartKeepsIInv
  <1>13. ASSUME NEW w \in Workers, NEW j \in Jobs, RequeueExpired(w, j) PROVE IInv'
    BY <1>13, RequeueExpiredKeepsIInv
  <1>14. ASSUME NEW w \in Workers, NEW j \in Jobs, StartJob(w, j) PROVE IInv'
    BY <1>14, StartJobKeepsIInv
  <1>15. ASSUME NEW w \in Workers, NEW j \in Jobs, ReleaseUnstarted(w, j) PROVE IInv'
    BY <1>15, ReleaseUnstartedKeepsIInv
  <1>16. ASSUME NEW w \in Workers, NEW j \in Jobs, Heartbeat(w, j) PROVE IInv'
    BY <1>16, HeartbeatKeepsIInv
  <1>17. ASSUME NEW w \in Workers, NEW j \in Jobs, RegisterInvocation(w, j) PROVE IInv'
    BY <1>17, RegisterInvocationKeepsIInv
  <1>18. ASSUME NEW w \in Workers, NEW j \in Jobs, UnregisterInvocation(w, j) PROVE IInv'
    BY <1>18, UnregisterInvocationKeepsIInv
  <1>19. ASSUME NEW w \in Workers, NEW j \in Jobs, HandlerSettles(w, j) PROVE IInv'
    BY <1>19, HandlerSettlesKeepsIInv
  <1>20. ASSUME NEW w \in Workers, NEW j \in Jobs, Complete(w, j) PROVE IInv'
    BY <1>20, CompleteKeepsIInv
  <1>21. ASSUME NEW w \in Workers, NEW j \in Jobs, Fail(w, j) PROVE IInv'
    BY <1>21, FailKeepsIInv
  <1>22. ASSUME NEW w \in Workers, NEW j \in Jobs, Release(w, j) PROVE IInv'
    BY <1>22, ReleaseKeepsIInv
  <1>23. ASSUME NEW w \in Workers, NEW j \in Jobs, ClaimExhaustionFor(w, j) PROVE IInv'
    BY <1>23, ClaimExhaustionForKeepsIInv
  <1>24. ASSUME NEW w \in Workers, NEW j \in Jobs, ExhaustedHandler(w, j) PROVE IInv'
    BY <1>24, ExhaustedHandlerKeepsIInv
  <1>25. ASSUME NEW w \in Workers, NEW j \in Jobs, ConfirmExhaustionHandled(w, j) PROVE IInv'
    BY <1>25, ConfirmExhaustionHandledKeepsIInv
  <1>26. ASSUME NEW w \in Workers, NEW j \in Jobs, ReleaseExhaustionClaim(w, j) PROVE IInv'
    BY <1>26, ReleaseExhaustionClaimKeepsIInv
  <1>27. ASSUME NEW w \in Workers, NEW j \in Jobs, FenceFires(w, j) PROVE IInv'
    BY <1>27, FenceFiresKeepsIInv
  <1>28. ASSUME NEW w \in Workers, NEW j \in Jobs, CompleteThrows(w, j) PROVE IInv'
    BY <1>28, CompleteThrowsKeepsIInv
  <1>29. ASSUME NEW w \in Workers, NEW j \in Jobs, SettleThrows(w, j) PROVE IInv'
    BY <1>29, SettleThrowsKeepsIInv
  <1>30. CASE UNCHANGED vars
    <2>1. RowsStep /\ HeldStep /\ RestTyped
      BY <1>30, SameRows, SameHeld DEF vars, RestTyped, IInv, TypeOK
    <2> QED BY <2>1, StepKeepsIInv
  <1> QED
    BY <1>1, <1>2, <1>3, <1>4, <1>5, <1>6, <1>7, <1>8, <1>9, <1>10, <1>11,
       <1>12, <1>13, <1>14, <1>15, <1>16, <1>17, <1>18, <1>19, <1>20, <1>21,
       <1>22, <1>23, <1>24, <1>25, <1>26, <1>27, <1>28, <1>29, <1>30
    DEF Next, Sweep, Faults, RunJob, Exhaustion

-----------------------------------------------------------------------------
(* The queue and its workers never leave the inductive invariant: the      *)
(* statements of execution-jobs-service.ts keep every row consistent with  *)
(* the leases workers hold.                                                *)
THEOREM Invariance == Spec => []IInv
  <1>1. Init => IInv
    BY InitIInv
  <1>2. IInv /\ [Next]_vars => IInv'
    BY NextIInv
  <1> QED BY <1>1, <1>2, PTL DEF Spec

(* Rows, worker states and counters keep their types; in particular the    *)
(* refund of release and requeueExpired never takes attempt below zero.    *)
THEOREM TypeCorrect == Spec => []TypeOK
  <1>1. IInv => TypeOK
    BY DEF IInv
  <1> QED BY <1>1, Invariance, PTL

(* No lease is ever held by two workers, whatever the number of processes, *)
(* crashes, requeues, cancels and redrives: claim always writes a          *)
(* generation above every one that any worker's snapshot still carries.    *)
THEOREM LeasesAreUnique == Spec => []LeaseUnique
  <1>1. IInv => LeaseUnique
    BY DEF IInv
  <1> QED BY <1>1, Invariance, PTL

(* No invocation row outlives its lease, whichever statement ends it.      *)
THEOREM InvocationsAreFenced == Spec => []InvocationFenced
  <1>1. IInv => InvocationFenced
    BY DEF IInv, InvocationFenced, RowInv
  <1> QED BY <1>1, Invariance, PTL

(* attempt and lease_expiries stay within max_attempts and                 *)
(* MAX_LEASE_EXPIRIES, and a job fails exactly at one of the two limits.   *)
THEOREM BudgetsHold == Spec => []Budget
  <1>1. IInv => Budget
    BY DEF IInv, Budget, RowInv
  <1> QED BY <1>1, Invariance, PTL

-----------------------------------------------------------------------------
(* Receipts.  Until a job is revived or redriven, a worker is about to     *)
(* confirm a terminal handler only after it landed, and only that          *)
(* statement writes a receipt.                                             *)
ReceiptInv ==
    \A j \in Jobs :
        /\ job[j].receipt => handled[j]
        /\ \A w \in Workers : exh[w][j] = "confirm" => handled[j]

(* A step that starts no job over: new receipts come from a confirming     *)
(* worker, workers come to confirm with the handler, and what was handled  *)
(* stays so.                                                               *)
ReceiptStep ==
    /\ \A j \in Jobs : /\ job'[j].receipt => \/ job[j].receipt
                                             \/ \E w \in Workers : exh[w][j] = "confirm"
                       /\ handled[j] => handled'[j]
    /\ \A w \in Workers, j \in Jobs : exh'[w][j] = "confirm" =>
            exh[w][j] = "confirm" \/ handled'[j]

LEMMA ReceiptStepKeepsReceiptInv ==
    ASSUME ReceiptInv, ReceiptStep
    PROVE  ReceiptInv'
  BY DEF ReceiptInv, ReceiptStep

(* No row update of the service writes a receipt.                          *)
LEMMA UpdatesKeepReceipt ==
    ASSUME NEW r \in Row, NEW w, NEW g, NEW d
    PROVE  /\ Leased(r, w).receipt = r.receipt
           /\ Completed(r, g).receipt = r.receipt
           /\ Failed(r, g).receipt = r.receipt
           /\ Released(r, g, d).receipt = r.receipt
           /\ Canceled(r).receipt = r.receipt
           /\ Expired(r).receipt = r.receipt
           /\ DeleteLeaseInvocations(r, g).receipt = r.receipt
  BY DEF Row, Leased, Completed, Failed, Released, Canceled, Expired,
         DeleteLeaseInvocations, Unleased

LEMMA OneRowKeepsReceipts ==
    ASSUME TypeOK, NEW j \in Jobs, NEW s, s.receipt => job[j].receipt,
           job' = [job EXCEPT ![j] = s] \/ UNCHANGED job
    PROVE  \A i \in Jobs : job'[i].receipt => job[i].receipt
  BY DEF TypeOK

LEMMA RowsAlone ==
    ASSUME \A i \in Jobs : job'[i].receipt => job[i].receipt, UNCHANGED exhVars
    PROVE  ReceiptStep
  BY DEF ReceiptStep, exhVars

LEMMA SameRowsAlone ==
    ASSUME UNCHANGED job, UNCHANGED exhVars
    PROVE  ReceiptStep
  BY DEF ReceiptStep, exhVars

LEMMA TakeLeasesReceipts ==
    ASSUME TypeOK, NEW w \in Workers, NEW S \in SUBSET Jobs, TakeLeases(w, S)
    PROVE  ReceiptStep
  <1>1. \A i \in Jobs : job'[i] = IF i \in S THEN Leased(job[i], w) ELSE job[i]
    BY DEF TakeLeases
  <1>2. \A i \in Jobs : Leased(job[i], w).receipt = job[i].receipt
    BY UpdatesKeepReceipt DEF TypeOK
  <1> QED BY <1>1, <1>2, RowsAlone DEF TakeLeases

LEMMA StampAllReceipts ==
    ASSUME TypeOK, NEW w \in Workers, NEW S \in SUBSET Jobs, StampAll(w, S), UNCHANGED handled
    PROVE  ReceiptStep
  <1>1. \A i \in Jobs : job'[i].receipt = job[i].receipt
    BY DEF StampAll, TypeOK, Row
  <1>2. \A v \in Workers, i \in Jobs : exh'[v][i] = exh[v][i] \/ exh'[v][i] = "handler"
    BY DEF StampAll, TypeOK
  <1> QED BY <1>1, <1>2 DEF ReceiptStep

(* Producers: only revivals and redrives start a job over.                 *)
LEMMA ProducersReceipts ==
    ASSUME TypeOK, NEW j \in Jobs, revivals' = 0,
           \/ Enqueue(j) \/ Redrive(j) \/ Cancel(j) \/ MakeAvailable(j)
           \/ LeaseLapses(j) \/ ExhaustionClaimExpires(j)
    PROVE  ReceiptStep
  <1>0. job[j] \in Row /\ revivals \in Nat
    BY DEF TypeOK
  <1>1. CASE Enqueue(j)
    <2>0. revivals' # revivals + 1
      BY <1>0
    <2>1. PICK d \in BOOLEAN :
            /\ job' = [job EXCEPT ![j] = [NewRow EXCEPT !.status = "pending", !.due = d]]
            /\ UNCHANGED <<handled, revivals>>
      BY <2>0, <1>1, Zenon DEF Enqueue
    <2> DEFINE s == [NewRow EXCEPT !.status = "pending", !.due = d]
    <2>2. s.receipt = FALSE
      BY DEF NewRow
    <2>3. UNCHANGED exhVars
      BY <1>1, <2>1 DEF Enqueue, exhVars
    <2>4. job' = [job EXCEPT ![j] = s]
      BY <2>1
    <2> HIDE DEF s
    <2> QED BY <2>2, <2>3, <2>4, OneRowKeepsReceipts, RowsAlone
  <1>2. CASE Redrive(j)
    BY <1>0, <1>2 DEF Redrive
  <1>3. CASE Cancel(j)
    <2>1. job' = [job EXCEPT ![j] = Canceled(job[j])] /\ UNCHANGED exhVars
      BY <1>3 DEF Cancel
    <2>2. Canceled(job[j]).receipt = job[j].receipt
      BY <1>0, UpdatesKeepReceipt
    <2> QED BY <2>1, <2>2, OneRowKeepsReceipts, RowsAlone
  <1>4. CASE MakeAvailable(j)
    <2>1. \A i \in Jobs : job'[i].receipt = job[i].receipt
      BY <1>4 DEF MakeAvailable, TypeOK, Row
    <2> QED BY <1>4, <2>1, RowsAlone DEF MakeAvailable
  <1>5. CASE LeaseLapses(j)
    <2>1. \A i \in Jobs : job'[i].receipt = job[i].receipt
      BY <1>5 DEF LeaseLapses, TypeOK, Row
    <2> QED BY <1>5, <2>1, RowsAlone DEF LeaseLapses
  <1>6. CASE ExhaustionClaimExpires(j)
    <2>1. \A i \in Jobs : job'[i].receipt = job[i].receipt
      BY <1>6 DEF ExhaustionClaimExpires, TypeOK, Row
    <2> QED BY <1>6, <2>1, RowsAlone DEF ExhaustionClaimExpires, exhVars
  <1> QED BY <1>1, <1>2, <1>3, <1>4, <1>5, <1>6

(* A worker running a job settles its lease and leaves receipts alone.     *)
LEMMA RunJobReceipts ==
    ASSUME TypeOK, NEW w \in Workers, NEW j \in Jobs,
           RunJob(w, j) \/ CompleteThrows(w, j) \/ SettleThrows(w, j) \/ FenceFires(w, j)
           \/ RequeueExpired(w, j)
    PROVE  ReceiptStep
  <1>0. job[j] \in Row
    BY DEF TypeOK
  <1>1. UNCHANGED exhVars
    BY DEF RunJob, StartJob, ReleaseUnstarted, Heartbeat, RegisterInvocation,
           UnregisterInvocation, HandlerSettles, Complete, Fail, Release,
           CompleteThrows, SettleThrows, FenceFires, RequeueExpired
  <1>2. CASE \/ StartJob(w, j) \/ Heartbeat(w, j) \/ HandlerSettles(w, j)
             \/ SettleThrows(w, j) \/ FenceFires(w, j)
    BY <1>1, <1>2, SameRowsAlone
    DEF StartJob, Heartbeat, HandlerSettles, SettleThrows, FenceFires
  <1>3. CASE RegisterInvocation(w, j)
    <2>1. \A i \in Jobs : job'[i].receipt = job[i].receipt
      BY <1>3 DEF RegisterInvocation, TypeOK, Row
    <2> QED BY <1>1, <2>1, RowsAlone
  <1>4. CASE ReleaseUnstarted(w, j) \/ Release(w, j)
    <2>1. PICK d \in BOOLEAN : \/ job' = [job EXCEPT ![j] = Released(job[j], held[w][j], d)]
                              \/ UNCHANGED job
      BY <1>4 DEF ReleaseUnstarted, Release
    <2>2. Released(job[j], held[w][j], d).receipt = job[j].receipt
      BY <1>0, UpdatesKeepReceipt
    <2> QED BY <1>1, <2>1, <2>2, OneRowKeepsReceipts, RowsAlone
  <1>5. CASE UnregisterInvocation(w, j)
    <2>1. job' = [job EXCEPT ![j] = DeleteLeaseInvocations(job[j], held[w][j])]
      BY <1>5 DEF UnregisterInvocation
    <2>2. DeleteLeaseInvocations(job[j], held[w][j]).receipt = job[j].receipt
      BY <1>0, UpdatesKeepReceipt
    <2> QED BY <1>1, <2>1, <2>2, OneRowKeepsReceipts, RowsAlone
  <1>6. CASE Complete(w, j) \/ CompleteThrows(w, j)
    <2>1. job' = [job EXCEPT ![j] = Completed(job[j], held[w][j])] \/ UNCHANGED job
      BY <1>6 DEF Complete, CompleteThrows
    <2>2. Completed(job[j], held[w][j]).receipt = job[j].receipt
      BY <1>0, UpdatesKeepReceipt
    <2> QED BY <1>1, <2>1, <2>2, OneRowKeepsReceipts, RowsAlone
  <1>7. CASE Fail(w, j)
    <2>1. job' = [job EXCEPT ![j] = Failed(job[j], held[w][j])] \/ UNCHANGED job
      BY <1>7 DEF Fail
    <2>2. Failed(job[j], held[w][j]).receipt = job[j].receipt
      BY <1>0, UpdatesKeepReceipt
    <2> QED BY <1>1, <2>1, <2>2, OneRowKeepsReceipts, RowsAlone
  <1>8. CASE RequeueExpired(w, j)
    <2>1. job' = [job EXCEPT ![j] = Expired(job[j])]
      BY <1>8 DEF RequeueExpired
    <2>2. Expired(job[j]).receipt = job[j].receipt
      BY <1>0, UpdatesKeepReceipt
    <2> QED BY <1>1, <2>1, <2>2, OneRowKeepsReceipts, RowsAlone
  <1> QED BY <1>2, <1>3, <1>4, <1>5, <1>6, <1>7, <1>8 DEF RunJob

(* The terminal handler of a failed job, from its claim to its receipt.    *)
LEMMA ExhaustionReceipts ==
    ASSUME TypeOK, NEW w \in Workers, NEW j \in Jobs, Exhaustion(w, j)
    PROVE  ReceiptStep
  <1>1. CASE ClaimExhaustionFor(w, j)
    <2>1. StampAll(w, {j}) \/ UNCHANGED <<job, exh>>
      BY <1>1 DEF ClaimExhaustionFor
    <2>2. UNCHANGED handled
      BY <1>1 DEF ClaimExhaustionFor
    <2> QED BY <2>1, <2>2, StampAllReceipts, SameRowsAlone DEF exhVars
  <1>2. CASE ExhaustedHandler(w, j)
    <2>1. UNCHANGED job
      BY <1>2 DEF ExhaustedHandler
    <2>2. \A i \in Jobs : handled[i] => handled'[i]
      BY <1>2 DEF ExhaustedHandler, TypeOK
    <2>3. \A v \in Workers, i \in Jobs : exh'[v][i] = "confirm" =>
                exh[v][i] = "confirm" \/ handled'[i]
      <3>1. CASE /\ exh' = [exh EXCEPT ![w][j] = "confirm"]
                 /\ handled' = [handled EXCEPT ![j] = TRUE]
        BY <3>1 DEF TypeOK
      <3>2. CASE exh' = [exh EXCEPT ![w][j] = "unclaim"]
        BY <3>2 DEF TypeOK
      <3> QED BY <1>2, <3>1, <3>2 DEF ExhaustedHandler
    <2> QED BY <2>1, <2>2, <2>3 DEF ReceiptStep
  <1>3. CASE ConfirmExhaustionHandled(w, j)
    <2>1. UNCHANGED handled /\ exh[w][j] = "confirm"
      BY <1>3 DEF ConfirmExhaustionHandled
    <2>2. \A i \in Jobs \ {j} : job'[i] = job[i]
      BY <1>3 DEF ConfirmExhaustionHandled, TypeOK
    <2>3. \A v \in Workers, i \in Jobs : exh'[v][i] = "confirm" => exh[v][i] = "confirm"
      <3>1. PICK x \in {"none", "unclaim"} : exh' = [exh EXCEPT ![w][j] = x]
        BY <1>3 DEF ConfirmExhaustionHandled
      <3> QED BY <3>1 DEF TypeOK
    <2> QED BY <2>1, <2>2, <2>3 DEF ReceiptStep
  <1>4. CASE ReleaseExhaustionClaim(w, j)
    <2>1. UNCHANGED handled
      BY <1>4 DEF ReleaseExhaustionClaim
    <2>2. \A i \in Jobs : job'[i].receipt = job[i].receipt
      BY <1>4 DEF ReleaseExhaustionClaim, TypeOK, Row
    <2>3. \A v \in Workers, i \in Jobs : exh'[v][i] = "confirm" => exh[v][i] = "confirm"
      BY <1>4 DEF ReleaseExhaustionClaim, TypeOK
    <2> QED BY <2>1, <2>2, <2>3 DEF ReceiptStep
  <1> QED BY <1>1, <1>2, <1>3, <1>4 DEF Exhaustion

(* No step lowers the count of revivals.                                   *)
LEMMA RevivalsGrow ==
    ASSUME TypeOK, [Next]_vars, revivals' = 0
    PROVE  revivals = 0
  <1>1. ASSUME NEW j \in Jobs,
               \/ Enqueue(j) \/ Redrive(j) \/ Cancel(j) \/ MakeAvailable(j)
               \/ LeaseLapses(j) \/ ExhaustionClaimExpires(j)
        PROVE  revivals' = revivals \/ revivals' = revivals + 1
    <2>1. CASE Enqueue(j)
      BY <2>1, Zenon DEF Enqueue
    <2>2. CASE Redrive(j)
      BY <2>2, Zenon DEF Redrive
    <2>3. CASE Cancel(j) \/ MakeAvailable(j) \/ LeaseLapses(j) \/ ExhaustionClaimExpires(j)
      BY <2>3 DEF Cancel, MakeAvailable, LeaseLapses, ExhaustionClaimExpires, counters
    <2> QED BY <1>1, <2>1, <2>2, <2>3
  <1>2. ASSUME NEW w \in Workers, NEW j \in Jobs,
               RunJob(w, j) \/ Exhaustion(w, j)
        PROVE  revivals' = revivals
    BY <1>2 DEF RunJob, StartJob, ReleaseUnstarted, Heartbeat, RegisterInvocation,
       UnregisterInvocation, HandlerSettles, Complete, Fail, Release, Exhaustion,
       ClaimExhaustionFor, ExhaustedHandler, ConfirmExhaustionHandled,
       ReleaseExhaustionClaim, counters
  <1>3. ASSUME NEW w \in Workers, Faults(w) \/ Restart(w)
        PROVE  revivals' = revivals
    BY <1>3 DEF Faults, Crash, Stop, FenceFires, CompleteThrows, SettleThrows, Restart,
       counters
  <1>4. ASSUME NEW w \in Loops, Claim(w) \/ Sweep(w)
        PROVE  revivals' = revivals
    BY <1>4 DEF Claim, TakeLeases, Sweep, ClaimExhausted, RequeueExpired, counters
  <1>5. ASSUME NEW w \in Drivers, NEW j \in Jobs, ClaimById(w, j)
        PROVE  revivals' = revivals
    BY <1>5 DEF ClaimById, TakeLeases, counters
  <1>6. CASE UNCHANGED vars
    BY <1>6 DEF vars
  <1>7. revivals' = revivals \/ revivals' = revivals + 1
    BY <1>1, <1>2, <1>3, <1>4, <1>5, <1>6 DEF Next
  <1> QED BY <1>7 DEF TypeOK

LEMMA NextReceiptStep ==
    ASSUME TypeOK, [Next]_vars, revivals' = 0
    PROVE  ReceiptStep
  <1>1. ASSUME NEW w \in Workers, Crash(w)
        PROVE  ReceiptStep
    <2>1. \A v \in Workers, i \in Jobs : exh'[v][i] = exh[v][i] \/ exh'[v][i] = "none"
      BY <1>1 DEF Crash, TypeOK
    <2> QED BY <1>1, <2>1 DEF Crash, ReceiptStep
  <1>2. ASSUME NEW w \in Workers, Stop(w) \/ Restart(w)
        PROVE  ReceiptStep
    BY <1>2, SameRowsAlone DEF Stop, Restart
  <1>3. ASSUME NEW w \in Loops, Claim(w)
        PROVE  ReceiptStep
    <2>1. PICK S \in SUBSET Jobs : TakeLeases(w, S)
      BY <1>3 DEF Claim
    <2> QED BY <2>1, TakeLeasesReceipts DEF Workers
  <1>4. ASSUME NEW w \in Drivers, NEW j \in Jobs, ClaimById(w, j)
        PROVE  ReceiptStep
    BY <1>4, TakeLeasesReceipts DEF ClaimById, Workers
  <1>5. ASSUME NEW w \in Loops, ClaimExhausted(w)
        PROVE  ReceiptStep
    <2>1. PICK S \in SUBSET Jobs : StampAll(w, S)
      BY <1>5 DEF ClaimExhausted
    <2> QED BY <1>5, <2>1, StampAllReceipts DEF ClaimExhausted, Workers
  <1>6. ASSUME UNCHANGED vars
        PROVE  ReceiptStep
    BY <1>6, SameRowsAlone DEF vars, exhVars
  <1>7. ASSUME NEW w \in Loops, NEW j \in Jobs, RequeueExpired(w, j)
        PROVE  ReceiptStep
    BY <1>7, RunJobReceipts DEF Workers
  <1> QED
    BY <1>1, <1>2, <1>3, <1>4, <1>5, <1>6, <1>7, ProducersReceipts, RunJobReceipts,
       ExhaustionReceipts
    DEF Next, Sweep, Faults

(* As long as no failed job is revived or redriven, a receipt means that a *)
(* terminal handler landed, through crashed claimers, stale stamps and     *)
(* claimers racing for the same job.  A redrive takes the receipt back but *)
(* not a confirmation already on its way, since confirmExhaustionHandled   *)
(* names the row by its id alone.                                          *)
THEOREM ReceiptsHold == Spec => [](revivals = 0 => ReceiptMeansHandled)
  <1> DEFINE RInv == TypeOK /\ (revivals = 0 => ReceiptInv)
  <1>1. Init => RInv
    <2>1. Init => TypeOK
      BY InitIInv DEF IInv
    <2>2. Init => ReceiptInv
      BY DEF Init, ReceiptInv, NewRow
    <2> QED BY <2>1, <2>2
  <1>2. RInv /\ TypeOK' /\ [Next]_vars => RInv'
    <2> SUFFICES ASSUME RInv, TypeOK', [Next]_vars, revivals' = 0
                 PROVE  ReceiptInv'
      OBVIOUS
    <2>1. ReceiptInv /\ ReceiptStep
      BY RevivalsGrow, NextReceiptStep
    <2> QED BY <2>1, ReceiptStepKeepsReceiptInv
  <1>3. RInv => (revivals = 0 => ReceiptMeansHandled)
    BY DEF ReceiptInv, ReceiptMeansHandled
  <1> HIDE DEF RInv
  <1> QED BY <1>1, <1>2, <1>3, TypeCorrect, PTL DEF Spec
=============================================================================
