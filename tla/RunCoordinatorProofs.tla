------------------------ MODULE RunCoordinatorProofs ------------------------
(***************************************************************************)
(* Proofs about the run coordinator, for every plan, retry policy, set of  *)
(* children, handlers and signal names.                                    *)
(*                                                                         *)
(* The methods compose, so the invariant is a predicate of a database, and *)
(* each method's operator has a lemma of its own; an action's proof puts   *)
(* them together.  Core holds after every statement.  Within a transaction *)
(* that ends an attempt, the attempt's run has nothing that moves it on    *)
(* (Moves), and neither has the parent of a run that just ended: Stage     *)
(* names the first and the set ended of Moves the second.  Onward relates  *)
(* the databases before and after; it carries what a handler knows over    *)
(* the steps of the others, and what has ended over all of them.           *)
(***************************************************************************)
EXTENDS RunCoordinator, FiniteSetTheorems, WellFoundedInduction, TLAPS

Active(d, r) == <<r, d.run[r].step, d.run[r].active>>

-----------------------------------------------------------------------------
(* The inductive invariant.                                                *)

(* A run's row: where it is in its plan, and when it has an active attempt. *)
RunFits(d, r) ==
    /\ d.run[r].step <= Steps[r]
    /\ d.run[r].active <= MaxAttempts[r]
    /\ d.run[r].step = 0 <=> d.run[r].status = "absent"
    /\ d.run[r].active = 0 <=> d.run[r].status \in {"absent", "completed"}
    /\ d.run[r].status = "completed" => d.run[r].step = Steps[r]

RunsFit(d) == \A r \in Runs : RunFits(d, r)

LiveFits(d) == \A k \in Attempts :
    d.att[k] \in ActiveStatuses => LockActiveAttempt(d, k)

(* No attempt lies ahead of the run's state row.                           *)
NotAhead(d, k) ==
    \/ k[2] < d.run[k[1]].step
    \/ /\ k[2] = d.run[k[1]].step
       /\ d.run[k[1]].active = 0 \/ k[3] <= d.run[k[1]].active

NoneAhead(d) == \A k \in Attempts : d.att[k] # "absent" => NotAhead(d, k)

(* The plan is past the steps of completed attempts, and past no others.   *)
DoneOnce(d) ==
    /\ \A k \in Attempts : d.att[k] = "completed" =>
        k[2] < d.run[k[1]].step \/ d.run[k[1]].status = "completed"
    /\ \A k, x \in Attempts :
        d.att[k] = "completed" /\ d.att[x] = "completed" /\ x[1] = k[1] /\ x[2] = k[2] => x = k

DoneAll(d) == \A r \in Runs : \A s \in 1..Steps[r] :
    s < d.run[r].step \/ d.run[r].status = "completed" =>
        \E k \in Attempts : k[1] = r /\ k[2] = s /\ d.att[k] = "completed"

(* Pauses and jobs belong to attempts that came that far.                  *)
RowsFit(d) ==
    /\ \A k \in Attempts :
        /\ d.pause[k].status # "absent" => d.att[k] \notin {"absent", "pending", "running"}
        /\ d.pause[k].status = "open" => d.att[k] = "waiting"
        /\ d.job[<<k, "step">>].status # "absent" => d.att[k] # "absent"
        /\ d.job[<<k, "timeout">>].status # "absent" => d.pause[k].status # "absent"

(* A child hangs from an attempt of the root that waits for it, or did.    *)
LinksFit(d) ==
    /\ d.run[Root].parent = NoAttempt
    /\ \A c \in Kids : d.run[c].parent # NoAttempt =>
        /\ d.run[c].parent[1] = Root
        /\ d.run[c].status # "absent"
        /\ d.att[d.run[c].parent] \notin {"absent", "pending", "running"}
        /\ d.pause[d.run[c].parent].status = "absent"
    /\ \A a, b \in Kids : a # b /\ d.run[a].parent # NoAttempt => d.run[a].parent # d.run[b].parent

Core(d) ==
    /\ d \in DB
    /\ RunsFit(d)
    /\ LiveFits(d)
    /\ NoneAhead(d)
    /\ DoneOnce(d)
    /\ DoneAll(d)
    /\ RowsFit(d)
    /\ LinksFit(d)

(* Signals of a run are consumed in order, and only while it is active.    *)
InOrder(d, r) ==
    /\ Len(d.signal[r]) <= MaxReceipts
    /\ \A i \in DOMAIN d.signal[r] :
        LET a == d.signal[r][i]
        IN  /\ a.status = "buffered" => d.run[r].status \notin TerminalStatuses
            /\ a.status = "discarded" => d.run[r].status \in TerminalStatuses
            /\ a.status = "resumed" => a.pause \in Attempts /\ d.pause[a.pause].status = "resumed"
    /\ \A i, m \in DOMAIN d.signal[r] :
        LET a == d.signal[r][i]
            b == d.signal[r][m]
        IN  i < m /\ a.name = b.name /\ b.status = "resumed" =>
                a.status = "resumed" /\ a.pause # b.pause

(* An open pause has heard of every signal that is there.                  *)
Heard(d, k) == d.pause[k].status = "open" =>
    \A i \in DOMAIN d.signal[k[1]] :
        d.signal[k[1]][i].name = d.pause[k].name => d.signal[k[1]][i].status # "buffered"

SignalsFit(d) ==
    /\ \A r \in Runs : InOrder(d, r)
    /\ \A k \in Attempts : Heard(d, k)

(* Something will move run r on, be it the report of a run of ended.       *)
Moves(d, r, ended) == d.run[r].status \in ActiveStatuses =>
    LET k == Active(d, r)
    IN  /\ d.att[k] = d.run[r].status
        /\ d.att[k] \in {"pending", "running"} => HasJob(d, k, "step")
        /\ d.att[k] = "waiting" =>
            \/ OnPause(d, k)
            \/ \E c \in Kids : /\ d.run[c].parent = k
                               /\ d.run[c].status \notin {"completed", "failed"} \/ c \in ended

(* The database within a transaction on run r, and at its end.             *)
Stage(d, r, ended) ==
    /\ Core(d)
    /\ SignalsFit(d)
    /\ \A q \in Runs \ {r} : Moves(d, q, ended)

Good(d, ended) ==
    /\ Core(d)
    /\ SignalsFit(d)
    /\ \A q \in Runs : Moves(d, q, ended)

(* What a handler relies on: its job's row, and how far its attempt is     *)
(* while it holds the lease.                                               *)
HandlerFits(d, v, h) ==
    LET j == v.job
    IN  v.pc # "idle" =>
        /\ j \in JobIds
        /\ d.job[j].status # "absent"
        /\ v.pc \in {"begin", "invoke", "outcome"} => j[2] = "step"
        /\ v.pc = "resolve" => j[2] = "timeout"
        /\ v.pc \in {"invoke", "outcome"} /\ OwnsJob(d, h, j) =>
                d.att[j[1]] \notin {"pending", "waiting"}
        /\ v.pc = "return" /\ OwnsJob(d, h, j) =>
                IF j[2] = "step" THEN d.att[j[1]] \notin {"pending", "running"}
                ELSE d.pause[j[1]].status # "open"

IInv ==
    /\ Good(db, {})
    /\ \A h \in Handlers : HandlerFits(db, handler[h], h)
    /\ handler \in [Handlers -> HandlerState]
    /\ canceling \subseteq Runs
    /\ faults \in 0..MaxFaults

(* What a transaction leaves of an earlier database.  Only the attempts of *)
(* new may begin to wait and open a pause.                                 *)
Onward(d, e, new) ==
    /\ \A k \in Attempts :
        /\ d.att[k] # "absent" => e.att[k] # "absent"
        /\ d.att[k] \notin {"absent", "pending"} => e.att[k] # "pending"
        /\ d.att[k] \notin {"absent", "pending", "running"} => e.att[k] # "running"
        /\ d.att[k] \in TerminalStatuses => e.att[k] = d.att[k]
        /\ e.att[k] = "waiting" => d.att[k] = "waiting" \/ k \in new
        /\ d.pause[k].status \notin {"absent", "open"} => e.pause[k].status = d.pause[k].status
        /\ e.pause[k].status = "open" => d.pause[k].status = "open" \/ k \in new
    /\ \A j \in JobIds :
        /\ d.job[j].status # "absent" => e.job[j].status # "absent"
        /\ e.job[j].status = "running" => e.job[j] = d.job[j]
    /\ \A r \in Runs : d.run[r].status \in TerminalStatuses =>
        e.run[r].status = d.run[r].status /\ e.run[r].step = d.run[r].step

-----------------------------------------------------------------------------
(* Names of attempts and jobs, rows of a database.                         *)

(* An attempt is a run with a step of its plan and a permitted number.     *)
LEMMA AttemptShape ==
    /\ \A k \in Attempts : /\ k[1] \in Runs
                           /\ k[2] \in Nat /\ k[2] > 0 /\ k[2] <= Steps[k[1]]
                           /\ k[3] \in Nat /\ k[3] > 0 /\ k[3] <= MaxAttempts[k[1]]
    /\ \A r \in Runs : \A s \in 1..Steps[r] : \A n \in 1..MaxAttempts[r] :
            <<r, s, n>> \in Attempts
  BY PlanAssumption DEF Attempts

(* Its parts name it.                                                      *)
LEMMA AttemptEq ==
    ASSUME NEW k \in Attempts, NEW x \in Attempts, k[1] = x[1], k[2] = x[2], k[3] = x[3]
    PROVE  k = x
  BY DEF Attempts

(* A job is an attempt with a kind.                                        *)
LEMMA JobShape ==
    /\ \A k \in Attempts : <<k, "step">> \in JobIds /\ <<k, "timeout">> \in JobIds
    /\ \A j \in JobIds : /\ j[1] \in Attempts
                         /\ j[2] \in {"step", "timeout"}
                         /\ j = <<j[1], j[2]>>
  BY DEF JobIds

(* A run has steps, and may attempt each of them.                          *)
LEMMA PlanShape ==
    \A r \in Runs : Steps[r] \in Nat /\ Steps[r] > 0 /\ MaxAttempts[r] \in Nat /\ MaxAttempts[r] > 0
  BY PlanAssumption

(* The runs are the root and its children.                                 *)
LEMMA RunsShape ==
    Root \in Runs /\ Kids \subseteq Runs /\ Root \notin Kids /\ \A r \in Runs : r = Root \/ r \in Kids
  BY PlanAssumption DEF Runs

AttStatus == ActiveStatuses \cup TerminalStatuses \cup {"absent"}

(* The rows of a database have their types.                                *)
LEMMA Rows ==
    ASSUME NEW d \in DB
    PROVE  /\ \A r \in Runs : /\ d.run[r] \in RunRow
                              /\ d.run[r].status \in AttStatus
                              /\ d.run[r].step \in Nat
                              /\ d.run[r].active \in Nat
                              /\ d.run[r].parent \in Attempts \cup {NoAttempt}
                              /\ d.signal[r] \in Seq(SignalRow)
           /\ \A k \in Attempts : d.att[k] \in AttStatus /\ d.pause[k] \in PauseRow
           /\ \A j \in JobIds : d.job[j] \in JobRow
  BY DEF DB, AttStatus, RunRow

(* What createStepAttempt writes.                                          *)
Created(d, e, k) ==
    /\ e \in DB
    /\ \A x \in Attempts : e.att[x] = IF x = k THEN "pending" ELSE d.att[x]
    /\ e.pause = d.pause
    /\ e.signal = d.signal
    /\ \A j \in JobIds : e.job[j] = IF j = <<k, "step">> THEN Job("pending") ELSE d.job[j]
    /\ \A r \in Runs : r # k[1] => e.run[r] = d.run[r]
    /\ e.run[k[1]].step = k[2]
    /\ e.run[k[1]].active = k[3]
    /\ e.run[k[1]].parent = d.run[k[1]].parent
    /\ e.run[k[1]].status = IF d.run[k[1]].status \in ActiveStatuses THEN "pending"
                            ELSE d.run[k[1]].status

(* createStepAttempt writes so.                                            *)
LEMMA CreateRows ==
    ASSUME NEW d \in DB, NEW k \in Attempts
    PROVE  Created(d, CreateStepAttempt(d, k), k)
  <1> DEFINE e == CreateStepAttempt(d, k)
             row == [d.run[k[1]] EXCEPT !.step = k[2], !.active = k[3],
                        !.status = IF @ \in ActiveStatuses THEN "pending" ELSE @]
             R == [d.run EXCEPT ![k[1]] = row]
             A == [d.att EXCEPT ![k] = "pending"]
             J == [d.job EXCEPT ![<<k, "step">>] = Job("pending")]
  <1>1. k[1] \in Runs /\ k[2] \in Nat /\ k[3] \in Nat /\ <<k, "step">> \in JobIds
    BY AttemptShape, JobShape
  <1>2. /\ row \in RunRow
        /\ row.step = k[2] /\ row.active = k[3] /\ row.parent = d.run[k[1]].parent
        /\ row.status = IF d.run[k[1]].status \in ActiveStatuses THEN "pending"
                        ELSE d.run[k[1]].status
    BY <1>1, Rows, ZenonT(60) DEF RunRow, ActiveStatuses
  <1>3. Job("pending") \in JobRow /\ "pending" \in AttStatus
    BY DEF Job, JobRow, ActiveStatuses, AttStatus
  <1>4. e = [d EXCEPT !.run = R, !.att = A, !.job = J]
    BY <1>1 DEF CreateStepAttempt, DB
  <1> HIDE DEF row
  <1>5. R \in [Runs -> RunRow] /\ A \in [Attempts -> AttStatus] /\ J \in [JobIds -> JobRow]
    BY <1>1, <1>2, <1>3 DEF DB, AttStatus
  <1>6. /\ \A r \in Runs : R[r] = IF r = k[1] THEN row ELSE d.run[r]
        /\ \A x \in Attempts : A[x] = IF x = k THEN "pending" ELSE d.att[x]
        /\ \A j \in JobIds : J[j] = IF j = <<k, "step">> THEN Job("pending") ELSE d.job[j]
    BY <1>1 DEF DB
  <1> HIDE DEF R, A, J
  <1>7. e \in DB /\ e.run = R /\ e.att = A /\ e.job = J /\ e.pause = d.pause /\ e.signal = d.signal
    BY <1>4, <1>5 DEF DB, AttStatus
  <1> QED
    BY <1>1, <1>2, <1>6, <1>7 DEF Created

(* What canceling the jobs of S writes.                                    *)
JobsCanceled(d, e, S) ==
    /\ e \in DB
    /\ e.run = d.run /\ e.att = d.att /\ e.pause = d.pause /\ e.signal = d.signal
    /\ \A j \in JobIds : e.job[j] = IF j \in S /\ d.job[j].status \in {"pending", "running"}
                                    THEN Job("canceled") ELSE d.job[j]

(* Canceling jobs writes so.                                               *)
LEMMA CancelJobsRows ==
    ASSUME NEW d \in DB, NEW S
    PROVE  JobsCanceled(d, CancelJobs(d, S), S)
  <1> DEFINE e == CancelJobs(d, S)
             J == [j \in JobIds |-> IF j \in S /\ LiveJob(d, j) THEN Job("canceled") ELSE d.job[j]]
  <1>1. J \in [JobIds -> JobRow]
    BY Rows DEF Job, JobRow
  <1>2. e = [d EXCEPT !.job = J]
    BY DEF CancelJobs
  <1>3. \A j \in JobIds : J[j] = IF j \in S /\ d.job[j].status \in {"pending", "running"}
                                 THEN Job("canceled") ELSE d.job[j]
    BY DEF LiveJob
  <1> HIDE DEF J
  <1>4. e \in DB /\ e.job = J
        /\ e.run = d.run /\ e.att = d.att /\ e.pause = d.pause /\ e.signal = d.signal
    BY <1>1, <1>2 DEF DB
  <1> QED
    BY <1>3, <1>4 DEF JobsCanceled

(* What ending the live attempts of S writes.                              *)
AttemptsEnded(d, e, S, s) ==
    /\ e \in DB
    /\ e.run = d.run /\ e.job = d.job /\ e.signal = d.signal
    /\ \A k \in Attempts :
         /\ e.att[k] = IF k \in S /\ d.att[k] \in ActiveStatuses THEN s ELSE d.att[k]
         /\ e.pause[k].status = IF /\ k \in S /\ d.att[k] \in ActiveStatuses
                                   /\ d.pause[k].status = "open"
                                THEN "canceled" ELSE d.pause[k].status
         /\ e.pause[k].name = d.pause[k].name
         /\ e.pause[k].timed = d.pause[k].timed

(* Ending attempts writes so.                                              *)
LEMMA EndAttemptsRows ==
    ASSUME NEW d \in DB, NEW S, NEW s \in TerminalStatuses
    PROVE  AttemptsEnded(d, EndAttempts(d, S, s), S, s)
  <1> DEFINE e == EndAttempts(d, S, s)
             live == {k \in S : d.att[k] \in ActiveStatuses}
             A == [k \in Attempts |-> IF k \in live THEN s ELSE d.att[k]]
             P == [k \in Attempts |-> IF k \in live /\ d.pause[k].status = "open"
                                      THEN [d.pause[k] EXCEPT !.status = "canceled"]
                                      ELSE d.pause[k]]
  <1>1. A \in [Attempts -> AttStatus]
    BY Rows DEF AttStatus
  <1>2. P \in [Attempts -> PauseRow]
    BY Rows DEF PauseRow
  <1>3. e = [d EXCEPT !.att = A, !.pause = P]
    BY DEF EndAttempts
  <1>4. ASSUME NEW k \in Attempts
        PROVE  /\ A[k] = IF k \in S /\ d.att[k] \in ActiveStatuses THEN s ELSE d.att[k]
               /\ P[k].status = IF /\ k \in S /\ d.att[k] \in ActiveStatuses
                                   /\ d.pause[k].status = "open"
                                THEN "canceled" ELSE d.pause[k].status
               /\ P[k].name = d.pause[k].name
               /\ P[k].timed = d.pause[k].timed
    BY Rows DEF PauseRow
  <1> HIDE DEF A, P
  <1>5. e \in DB /\ e.att = A /\ e.pause = P
        /\ e.run = d.run /\ e.job = d.job /\ e.signal = d.signal
    BY <1>1, <1>2, <1>3 DEF DB, AttStatus
  <1> QED
    BY <1>4, <1>5 DEF AttemptsEnded

(* A sequence whose elements are replaced one by one.                      *)
LEMMA SeqMap ==
    ASSUME NEW T, NEW q \in Seq(T), NEW f \in [DOMAIN q -> T]
    PROVE  f \in Seq(T) /\ Len(f) = Len(q) /\ DOMAIN f = DOMAIN q
  <1>1. DOMAIN q = 1..Len(q) /\ Len(q) \in Nat
    OBVIOUS
  <1>2. f \in Seq(T)
    BY <1>1
  <1> QED
    BY <1>1, <1>2

(* What ending the runs of S writes, the trigger on signals included.      *)
RunsEnded(d, e, S, s) ==
    /\ e \in DB
    /\ e.att = d.att /\ e.pause = d.pause /\ e.job = d.job
    /\ \A r \in Runs :
         /\ e.run[r].status = IF r \in S THEN s ELSE d.run[r].status
         /\ e.run[r].step = d.run[r].step
         /\ e.run[r].active = d.run[r].active
         /\ e.run[r].parent = d.run[r].parent
         /\ Len(e.signal[r]) = Len(d.signal[r])
         /\ DOMAIN e.signal[r] = DOMAIN d.signal[r]
         /\ \A i \in DOMAIN d.signal[r] :
             /\ e.signal[r][i].name = d.signal[r][i].name
             /\ e.signal[r][i].pause = d.signal[r][i].pause
             /\ e.signal[r][i].status = IF r \in S /\ d.signal[r][i].status = "buffered"
                                        THEN "discarded" ELSE d.signal[r][i].status

(* Ending runs writes so (cleanupRunScope).                                *)
LEMMA EndRunsRows ==
    ASSUME NEW d \in DB, NEW S, NEW s \in TerminalStatuses
    PROVE  RunsEnded(d, EndRuns(d, S, s), S, s)
  <1> DEFINE e == EndRuns(d, S, s)
             R == [r \in Runs |-> IF r \in S THEN [d.run[r] EXCEPT !.status = s] ELSE d.run[r]]
             Q == [r \in Runs |-> [i \in DOMAIN d.signal[r] |->
                    IF r \in S /\ d.signal[r][i].status = "buffered"
                    THEN [d.signal[r][i] EXCEPT !.status = "discarded"] ELSE d.signal[r][i]]]
  <1>1. R \in [Runs -> RunRow]
    BY Rows DEF RunRow
  <1>2. ASSUME NEW r \in Runs
        PROVE  /\ Q[r] \in Seq(SignalRow)
               /\ Len(Q[r]) = Len(d.signal[r])
               /\ DOMAIN Q[r] = DOMAIN d.signal[r]
               /\ \A i \in DOMAIN d.signal[r] :
                    /\ Q[r][i].name = d.signal[r][i].name
                    /\ Q[r][i].pause = d.signal[r][i].pause
                    /\ Q[r][i].status = IF r \in S /\ d.signal[r][i].status = "buffered"
                                        THEN "discarded" ELSE d.signal[r][i].status
    <2> DEFINE q == d.signal[r]
               f == [i \in DOMAIN q |-> IF r \in S /\ q[i].status = "buffered"
                                        THEN [q[i] EXCEPT !.status = "discarded"] ELSE q[i]]
    <2>1. q \in Seq(SignalRow)
      BY Rows
    <2>2. \A i \in DOMAIN q : q[i] \in SignalRow
      BY <2>1
    <2>3. f \in [DOMAIN q -> SignalRow]
      BY <2>2 DEF SignalRow
    <2>4. \A i \in DOMAIN q :
                    /\ f[i].name = q[i].name
                    /\ f[i].pause = q[i].pause
                    /\ f[i].status = IF r \in S /\ q[i].status = "buffered"
                                        THEN "discarded" ELSE q[i].status
      BY <2>2 DEF SignalRow
    <2>5. Q[r] = f
      OBVIOUS
    <2> HIDE DEF f, q
    <2>6. f \in Seq(SignalRow) /\ Len(f) = Len(q) /\ DOMAIN f = DOMAIN q
      BY <2>1, <2>3, SeqMap
    <2> QED
      BY <2>4, <2>5, <2>6 DEF q
  <1>3. Q \in [Runs -> Seq(SignalRow)]
    BY <1>2
  <1>4. e = [d EXCEPT !.run = R, !.signal = Q]
    BY DEF EndRuns
  <1>5. ASSUME NEW r \in Runs
        PROVE  /\ R[r].status = IF r \in S THEN s ELSE d.run[r].status
               /\ R[r].step = d.run[r].step
               /\ R[r].active = d.run[r].active
               /\ R[r].parent = d.run[r].parent
    BY Rows DEF RunRow
  <1> HIDE DEF R, Q
  <1>6. e \in DB /\ e.run = R /\ e.signal = Q
        /\ e.att = d.att /\ e.pause = d.pause /\ e.job = d.job
    BY <1>1, <1>3, <1>4 DEF DB
  <1> QED
    BY <1>2, <1>5, <1>6 DEF RunsEnded

(* Statements that change one row.                                         *)
SetAttempt(d, k, s) == [d EXCEPT !.att[k] = s]
SetInactive(d, r) == [d EXCEPT !.run[r].active = 0]
SetPause(d, k, s) == [d EXCEPT !.pause[k].status = s]
SetJob(d, j, row) == [d EXCEPT !.job[j] = row]

(* The attempt's row changes.                                              *)
AttemptSet(d, e, k, s) ==
    /\ e \in DB
    /\ e.run = d.run /\ e.pause = d.pause /\ e.signal = d.signal /\ e.job = d.job
    /\ \A x \in Attempts : e.att[x] = IF x = k THEN s ELSE d.att[x]

(* Changing an attempt's row writes so.                                    *)
LEMMA AttRows ==
    ASSUME NEW d \in DB, NEW k \in Attempts, NEW s \in AttStatus
    PROVE  AttemptSet(d, SetAttempt(d, k, s), k, s)
  <1> DEFINE e == SetAttempt(d, k, s)
             A == [d.att EXCEPT ![k] = s]
  <1>1. A \in [Attempts -> AttStatus] /\ \A x \in Attempts : A[x] = IF x = k THEN s ELSE d.att[x]
    BY DEF DB, AttStatus
  <1>2. e = [d EXCEPT !.att = A]
    BY DEF DB, SetAttempt
  <1> HIDE DEF A
  <1> QED
    BY <1>1, <1>2 DEF DB, AttStatus, AttemptSet

(* The run no longer has an active attempt.                                *)
Inactivated(d, e, r) ==
    /\ e \in DB
    /\ e.att = d.att /\ e.pause = d.pause /\ e.signal = d.signal /\ e.job = d.job
    /\ \A q \in Runs :
         /\ e.run[q].status = d.run[q].status
         /\ e.run[q].step = d.run[q].step
         /\ e.run[q].active = IF q = r THEN 0 ELSE d.run[q].active
         /\ e.run[q].parent = d.run[q].parent

(* Clearing the active attempt writes so.                                  *)
LEMMA InactiveRows ==
    ASSUME NEW d \in DB, NEW r \in Runs
    PROVE  Inactivated(d, SetInactive(d, r), r)
  <1> DEFINE e == SetInactive(d, r)
             row == [d.run[r] EXCEPT !.active = 0]
             R == [d.run EXCEPT ![r] = row]
  <1>1. /\ row \in RunRow /\ row.status = d.run[r].status /\ row.step = d.run[r].step
        /\ row.active = 0 /\ row.parent = d.run[r].parent
    BY Rows DEF RunRow
  <1>2. e = [d EXCEPT !.run = R]
    BY DEF DB, SetInactive
  <1> HIDE DEF row
  <1>3. R \in [Runs -> RunRow] /\ \A q \in Runs : R[q] = IF q = r THEN row ELSE d.run[q]
    BY <1>1 DEF DB
  <1> HIDE DEF R
  <1>4. e \in DB /\ e.run = R
        /\ e.att = d.att /\ e.pause = d.pause /\ e.signal = d.signal /\ e.job = d.job
    BY <1>2, <1>3 DEF DB
  <1> QED
    BY <1>1, <1>3, <1>4 DEF Inactivated

(* The status of a pause changes.                                          *)
PauseSet(d, e, k, s) ==
    /\ e \in DB
    /\ e.run = d.run /\ e.att = d.att /\ e.signal = d.signal /\ e.job = d.job
    /\ \A x \in Attempts :
         /\ e.pause[x].status = IF x = k THEN s ELSE d.pause[x].status
         /\ e.pause[x].name = d.pause[x].name
         /\ e.pause[x].timed = d.pause[x].timed

(* Resolving a pause writes so.                                            *)
LEMMA PauseRows ==
    ASSUME NEW d \in DB, NEW k \in Attempts, NEW s \in {"resumed", "timed_out"}
    PROVE  PauseSet(d, SetPause(d, k, s), k, s)
  <1> DEFINE e == SetPause(d, k, s)
             row == [d.pause[k] EXCEPT !.status = s]
             P == [d.pause EXCEPT ![k] = row]
  <1>1. row \in PauseRow /\ row.status = s /\ row.name = d.pause[k].name
        /\ row.timed = d.pause[k].timed
    BY Rows DEF PauseRow
  <1>2. e = [d EXCEPT !.pause = P]
    BY DEF DB, SetPause
  <1> HIDE DEF row
  <1>3. P \in [Attempts -> PauseRow]
        /\ \A x \in Attempts : P[x] = IF x = k THEN row ELSE d.pause[x]
    BY <1>1 DEF DB
  <1> HIDE DEF P
  <1>4. e \in DB /\ e.pause = P
        /\ e.run = d.run /\ e.att = d.att /\ e.signal = d.signal /\ e.job = d.job
    BY <1>2, <1>3 DEF DB
  <1> QED
    BY <1>1, <1>3, <1>4 DEF PauseSet

(* A job's row changes.                                                    *)
JobSet(d, e, j, row) ==
    /\ e \in DB
    /\ e.run = d.run /\ e.att = d.att /\ e.pause = d.pause /\ e.signal = d.signal
    /\ \A i \in JobIds : e.job[i] = IF i = j THEN row ELSE d.job[i]

(* Changing a job's row writes so.                                         *)
LEMMA JobRows ==
    ASSUME NEW d \in DB, NEW j \in JobIds, NEW row \in JobRow
    PROVE  JobSet(d, SetJob(d, j, row), j, row)
  <1> DEFINE e == SetJob(d, j, row)
             J == [d.job EXCEPT ![j] = row]
  <1>1. J \in [JobIds -> JobRow] /\ \A i \in JobIds : J[i] = IF i = j THEN row ELSE d.job[i]
    BY DEF DB
  <1>2. e = [d EXCEPT !.job = J]
    BY DEF DB, SetJob
  <1> HIDE DEF J
  <1> QED
    BY <1>1, <1>2 DEF DB, JobSet

-----------------------------------------------------------------------------
(* The statements a transaction is made of keep Core.                      *)

(* So does what changes neither runs nor attempts, and opens no pause and   *)
(* creates no job.                                                         *)
LEMMA FrameCore ==
    ASSUME NEW d, Core(d), NEW e, e \in DB,
           e.run = d.run, e.att = d.att,
           \A k \in Attempts :
                /\ e.pause[k].status = "absent" <=> d.pause[k].status = "absent"
                /\ e.pause[k].status = "open" => d.pause[k].status = "open",
           \A j \in JobIds : e.job[j].status # "absent" => d.job[j].status # "absent"
    PROVE  Core(e)
  <1>1. RunsFit(e) /\ NoneAhead(e) /\ DoneOnce(e) /\ DoneAll(e)
    BY DEF Core, RunsFit, RunFits, NoneAhead, NotAhead, DoneOnce, DoneAll
  <1>2. LiveFits(e)
    BY DEF Core, LiveFits, LockActiveAttempt, IsActiveAttempt
  <1>3. RowsFit(e)
    BY JobShape DEF Core, RowsFit
  <1>4. LinksFit(e)
    BY Rows, RunsShape DEF Core, LinksFit
  <1> QED
    BY <1>1, <1>2, <1>3, <1>4 DEF Core

(* Canceling jobs keeps the tables consistent.                             *)
LEMMA CancelJobsCore ==
    ASSUME NEW d, Core(d), NEW S, NEW e, JobsCanceled(d, e, S)
    PROVE  Core(e)
  <1>1. /\ e \in DB /\ e.run = d.run /\ e.att = d.att /\ e.pause = d.pause
        /\ \A j \in JobIds : e.job[j].status # "absent" => d.job[j].status # "absent"
    BY DEF JobsCanceled, Job
  <1> QED
    BY <1>1, FrameCore

(* Ending attempts other than by completion keeps Core.                    *)
LEMMA EndAttemptsCore ==
    ASSUME NEW d, Core(d), NEW S, NEW s \in {"failed", "canceled"},
           NEW e, AttemptsEnded(d, e, S, s)
    PROVE  Core(e)
  <1>1. d \in DB /\ s \in TerminalStatuses
    BY DEF Core, TerminalStatuses
  <1>2. /\ e \in DB
        /\ e.run = d.run /\ e.job = d.job
        /\ \A k \in Attempts :
             /\ e.att[k] = IF k \in S /\ d.att[k] \in ActiveStatuses THEN s ELSE d.att[k]
             /\ e.pause[k].status = IF /\ k \in S /\ d.att[k] \in ActiveStatuses
                                       /\ d.pause[k].status = "open"
                                    THEN "canceled" ELSE d.pause[k].status
    BY DEF AttemptsEnded
  <1>3. \A k \in Attempts : /\ e.att[k] \in ActiveStatuses => d.att[k] = e.att[k]
                            /\ e.att[k] = "absent" <=> d.att[k] = "absent"
                            /\ e.att[k] = "completed" <=> d.att[k] = "completed"
                            /\ e.att[k] \in {"pending", "running"} => d.att[k] = e.att[k]
                            /\ e.pause[k].status = "absent" <=> d.pause[k].status = "absent"
                            /\ e.pause[k].status = "open" => d.pause[k].status = "open"
    BY <1>2 DEF ActiveStatuses
  <1>4. RunsFit(e)
    BY <1>2 DEF Core, RunsFit, RunFits
  <1>5. LiveFits(e)
    BY <1>2, <1>3 DEF Core, LiveFits, LockActiveAttempt, IsActiveAttempt
  <1>6. NoneAhead(e)
    BY <1>2, <1>3 DEF Core, NoneAhead, NotAhead
  <1>7. DoneOnce(e)
    BY <1>2, <1>3 DEF Core, DoneOnce
  <1>8. DoneAll(e)
    BY <1>2, <1>3 DEF Core, DoneAll
  <1>9. RowsFit(e)
    BY <1>2, <1>3 DEF Core, RowsFit, ActiveStatuses
  <1>10. LinksFit(e)
    BY <1>1, <1>2, <1>3, Rows, RunsShape DEF Core, LinksFit
  <1> QED
    BY <1>2, <1>4, <1>5, <1>6, <1>7, <1>8, <1>9, <1>10 DEF Core

(* Ending active runs that have no live attempt keeps Core.                *)
LEMMA EndRunsCore ==
    ASSUME NEW d, Core(d), NEW S, NEW s \in {"failed", "canceled"},
           \A r \in S : d.run[r].status \in ActiveStatuses,
           \A k \in Attempts : k[1] \in S => d.att[k] \notin ActiveStatuses,
           NEW e, RunsEnded(d, e, S, s)
    PROVE  Core(e)
  <1>1. d \in DB /\ s \in TerminalStatuses
    BY DEF Core, TerminalStatuses
  <1>2. /\ e \in DB
        /\ e.att = d.att /\ e.pause = d.pause /\ e.job = d.job
        /\ \A r \in Runs :
             /\ e.run[r].status = IF r \in S THEN s ELSE d.run[r].status
             /\ e.run[r].step = d.run[r].step
             /\ e.run[r].active = d.run[r].active
             /\ e.run[r].parent = d.run[r].parent
    BY DEF RunsEnded
  <1>3. \A r \in Runs : /\ e.run[r].status = "absent" <=> d.run[r].status = "absent"
                        /\ e.run[r].status = "completed" <=> d.run[r].status = "completed"
    BY <1>2 DEF ActiveStatuses
  <1>4. RunsFit(e)
    BY <1>2, <1>3 DEF Core, RunsFit, RunFits
  <1>5. LiveFits(e)
    BY <1>2, AttemptShape DEF Core, LiveFits, LockActiveAttempt, IsActiveAttempt
  <1>6. NoneAhead(e)
    BY <1>2, <1>3, AttemptShape DEF Core, NoneAhead, NotAhead
  <1>7. DoneOnce(e)
    BY <1>2, <1>3, AttemptShape DEF Core, DoneOnce
  <1>8. DoneAll(e)
    BY <1>2, <1>3 DEF Core, DoneAll
  <1>9. RowsFit(e)
    BY <1>2, <1>3 DEF Core, RowsFit
  <1>10. LinksFit(e)
    BY <1>1, <1>2, <1>3, Rows, RunsShape DEF Core, LinksFit
  <1> QED
    BY <1>2, <1>4, <1>5, <1>6, <1>7, <1>8, <1>9, <1>10 DEF Core

(* What advance writes after attempt k completes: attempt n is created for *)
(* the next step, or the run completes with it.                            *)
NextStepped(d, e, k, n) == \E c : AttemptSet(d, c, k, "completed") /\ Created(c, e, n)

Finished(d, e, k) == \E c, b : /\ AttemptSet(d, c, k, "completed")
                               /\ Inactivated(c, b, k[1])
                               /\ RunsEnded(b, e, {k[1]}, "completed")

(* The next attempt of a step whose attempts have all ended.               *)
LEMMA RetryCore ==
    ASSUME NEW d, Core(d), NEW k \in Attempts, LockActiveAttempt(d, k),
           \A x \in Attempts : x[1] = k[1] => d.att[x] \notin ActiveStatuses,
           k[3] < MaxAttempts[k[1]],
           NEW n \in Attempts, n[1] = k[1], n[2] = k[2], n[3] = k[3] + 1,
           NEW e, Created(d, e, n)
    PROVE  Core(e) /\ d.att[n] = "absent"
  <1> DEFINE r == k[1]
  <1>1. d \in DB /\ r \in Runs /\ n # k
    BY AttemptShape, PlanShape DEF Core
  <1>2. d.run[r].step = k[2] /\ d.run[r].active = k[3] /\ d.run[r].status \in ActiveStatuses
        /\ k[3] > 0 /\ k[2] > 0 /\ k[2] \in Nat /\ k[3] \in Nat /\ k[2] <= Steps[r]
    BY AttemptShape DEF LockActiveAttempt, IsActiveAttempt
  <1>3. d.att[n] = "absent"
    BY <1>1, <1>2 DEF Core, NoneAhead, NotAhead
  <1>4. /\ e \in DB
        /\ \A x \in Attempts : e.att[x] = IF x = n THEN "pending" ELSE d.att[x]
        /\ e.pause = d.pause
        /\ \A j \in JobIds : e.job[j] = IF j = <<n, "step">> THEN Job("pending") ELSE d.job[j]
        /\ \A q \in Runs : q # r => e.run[q] = d.run[q]
        /\ e.run[r].step = k[2]
        /\ e.run[r].active = k[3] + 1
        /\ e.run[r].parent = d.run[r].parent
        /\ e.run[r].status = "pending"
    BY <1>2 DEF Created, r
  <1> HIDE DEF r
  <1>5. RunsFit(e)
    <2>1. RunFits(e, r)
      BY <1>1, <1>2, <1>4, PlanShape DEF RunFits, ActiveStatuses, r
    <2>2. ASSUME NEW q \in Runs, q # r PROVE RunFits(e, q)
      BY <2>2, <1>4 DEF Core, RunsFit, RunFits
    <2> QED
      BY <2>1, <2>2 DEF RunsFit
  <1>6. LiveFits(e)
    BY <1>1, <1>2, <1>4, AttemptShape DEF Core, LiveFits, LockActiveAttempt, IsActiveAttempt, ActiveStatuses, r
  <1>7. NoneAhead(e)
    <2>1. ASSUME NEW x \in Attempts, x[1] = r, e.att[x] # "absent" PROVE NotAhead(e, x)
      <3>1. CASE x = n
        BY <3>1, <1>1, <1>2, <1>4 DEF NotAhead, r
      <3>2. CASE x # n
        <4>1. NotAhead(d, x)
          BY <3>2, <2>1, <1>4 DEF Core, NoneAhead
        <4> QED
          BY <4>1, <2>1, <1>2, <1>4, AttemptShape DEF NotAhead
      <3> QED
        BY <3>1, <3>2
    <2>2. ASSUME NEW x \in Attempts, x[1] # r, e.att[x] # "absent" PROVE NotAhead(e, x)
      BY <2>2, <1>1, <1>4, AttemptShape DEF Core, NoneAhead, NotAhead, r
    <2> QED
      BY <2>1, <2>2 DEF NoneAhead
  <1>8. DoneOnce(e)
    BY <1>1, <1>2, <1>4, AttemptShape DEF Core, DoneOnce, ActiveStatuses
  <1>9. DoneAll(e)
    <2>1. \A x \in Attempts : d.att[x] = "completed" => e.att[x] = "completed"
      BY <1>3, <1>4
    <2> QED
      BY <2>1, <1>2, <1>4 DEF Core, DoneAll, ActiveStatuses
  <1>10. RowsFit(e)
    <2>1. \A x \in Attempts : x # n => <<x, "step">> # <<n, "step">>
      OBVIOUS
    <2>2. \A x \in Attempts : <<x, "timeout">> # <<n, "step">>
      OBVIOUS
    <2>3. d.pause[n].status = "absent" /\ d.job[<<n, "timeout">>].status = "absent"
      BY <1>1, <1>3 DEF Core, RowsFit
    <2> QED
      BY <2>1, <2>2, <2>3, <1>1, <1>4, JobShape DEF Core, RowsFit
  <1>11. LinksFit(e)
    <2>1. \A q \in Runs : /\ e.run[q].parent = d.run[q].parent
                          /\ d.run[q].status # "absent" => e.run[q].status # "absent"
      BY <1>4
    <2>2. \A x \in Attempts : d.att[x] # "absent" => e.att[x] = d.att[x]
      BY <1>3, <1>4
    <2>3. d \in DB /\ e.pause = d.pause
      BY <1>1, <1>4
    <2> QED
      BY <2>1, <2>2, <2>3, Rows, RunsShape DEF Core, LinksFit
  <1> QED
    BY <1>3, <1>4, <1>5, <1>6, <1>7, <1>8, <1>9, <1>10, <1>11 DEF Core

(* The active attempt completes and the first attempt of the next step is  *)
(* created.                                                                *)
LEMMA NextStepCore ==
    ASSUME NEW d, Core(d), NEW k \in Attempts, LockActiveAttempt(d, k),
           d.att[k] \in ActiveStatuses, d.pause[k].status # "open", k[2] < Steps[k[1]],
           NEW n \in Attempts, n[1] = k[1], n[2] = k[2] + 1, n[3] = 1,
           NEW e, NextStepped(d, e, k, n)
    PROVE  Core(e) /\ d.att[n] = "absent"
  <1> DEFINE r == k[1]
  <1>1. d \in DB /\ r \in Runs /\ n # k
    BY AttemptShape, PlanShape DEF Core
  <1>2. d.run[r].step = k[2] /\ d.run[r].active = k[3] /\ d.run[r].status \in ActiveStatuses
        /\ k[3] > 0 /\ k[2] > 0 /\ k[2] \in Nat /\ k[3] \in Nat /\ k[2] + 1 <= Steps[r]
        /\ Steps[r] \in Nat /\ MaxAttempts[r] >= 1
    BY AttemptShape, PlanShape DEF LockActiveAttempt, IsActiveAttempt
  <1>3. d.att[n] = "absent"
    BY <1>1, <1>2 DEF Core, NoneAhead, NotAhead
  <1>4. /\ e \in DB
        /\ \A x \in Attempts : e.att[x] = IF x = n THEN "pending"
                                          ELSE IF x = k THEN "completed" ELSE d.att[x]
        /\ e.pause = d.pause
        /\ \A j \in JobIds : e.job[j] = IF j = <<n, "step">> THEN Job("pending") ELSE d.job[j]
        /\ \A q \in Runs : q # r => e.run[q] = d.run[q]
        /\ e.run[r].step = k[2] + 1
        /\ e.run[r].active = 1
        /\ e.run[r].parent = d.run[r].parent
        /\ e.run[r].status = "pending"
    <2>1. PICK c : AttemptSet(d, c, k, "completed") /\ Created(c, e, n)
      BY DEF NextStepped
    <2> QED
      BY <1>2, <2>1 DEF AttemptSet, Created, r
  <1>b. \A x \in Attempts : x[1] = r /\ d.att[x] \in ActiveStatuses => x = k
    BY <1>2, AttemptEq DEF Core, LiveFits, LockActiveAttempt, IsActiveAttempt, r
  <1> HIDE DEF r
  <1>5. RunsFit(e)
    <2>1. RunFits(e, r)
      BY <1>1, <1>2, <1>4, PlanShape DEF RunFits, ActiveStatuses
    <2>2. ASSUME NEW q \in Runs, q # r PROVE RunFits(e, q)
      BY <2>2, <1>4 DEF Core, RunsFit, RunFits
    <2> QED
      BY <2>1, <2>2 DEF RunsFit
  <1>6. LiveFits(e)
    <2>1. LockActiveAttempt(e, n)
      BY <1>2, <1>4 DEF LockActiveAttempt, IsActiveAttempt, ActiveStatuses, r
    <2>2. ASSUME NEW x \in Attempts, e.att[x] \in ActiveStatuses, x # n
          PROVE  x[1] # r /\ d.att[x] \in ActiveStatuses
      BY <2>2, <1>4, <1>b DEF ActiveStatuses
    <2> QED
      BY <2>1, <2>2, <1>4, AttemptShape DEF Core, LiveFits, LockActiveAttempt, IsActiveAttempt
  <1>7. NoneAhead(e)
    <2>1. ASSUME NEW x \in Attempts, x[1] = r, e.att[x] # "absent" PROVE NotAhead(e, x)
      <3>1. CASE x = n
        BY <3>1, <1>2, <1>4 DEF NotAhead, r
      <3>2. CASE x = k
        BY <3>2, <1>2, <1>4 DEF NotAhead, r
      <3>3. CASE x # n /\ x # k
        <4>1. NotAhead(d, x)
          BY <3>3, <2>1, <1>4 DEF Core, NoneAhead
        <4> QED
          BY <4>1, <2>1, <1>2, <1>4, AttemptShape DEF NotAhead
      <3> QED
        BY <3>1, <3>2, <3>3
    <2>2. ASSUME NEW x \in Attempts, x[1] # r, e.att[x] # "absent" PROVE NotAhead(e, x)
      BY <2>2, <1>4, AttemptShape DEF Core, NoneAhead, NotAhead, r
    <2> QED
      BY <2>1, <2>2 DEF NoneAhead
  <1>8. DoneOnce(e)
    <2>1. ASSUME NEW x \in Attempts, e.att[x] = "completed"
          PROVE  x[2] < e.run[x[1]].step \/ e.run[x[1]].status = "completed"
      BY <2>1, <1>1, <1>2, <1>4, AttemptShape DEF Core, DoneOnce, ActiveStatuses, r
    <2>2. ASSUME NEW x \in Attempts, e.att[x] = "completed", x[1] = r, x[2] = k[2]
          PROVE  x = k
      BY <2>2, <1>1, <1>2, <1>4, AttemptShape DEF Core, DoneOnce, ActiveStatuses
    <2> QED
      BY <2>1, <2>2, <1>4 DEF Core, DoneOnce, r
  <1>9. DoneAll(e)
    <2>1. \A x \in Attempts : d.att[x] = "completed" => e.att[x] = "completed"
      BY <1>3, <1>4
    <2>2. e.att[k] = "completed"
      BY <1>1, <1>4
    <2>3. ASSUME NEW q \in Runs, NEW s \in 1..Steps[q], s < e.run[q].step \/ e.run[q].status = "completed"
          PROVE  \E x \in Attempts : x[1] = q /\ x[2] = s /\ e.att[x] = "completed"
      <3>1. CASE q = r /\ s = k[2]
        BY <3>1, <2>2 DEF r
      <3>2. CASE ~(q = r /\ s = k[2])
        <4>1. s < d.run[q].step \/ d.run[q].status = "completed"
          BY <3>2, <2>3, <1>2, <1>4 DEF ActiveStatuses
        <4> QED
          BY <4>1, <2>1 DEF Core, DoneAll
      <3> QED
        BY <3>1, <3>2
    <2> QED
      BY <2>3 DEF DoneAll
  <1>10. RowsFit(e)
    <2>1. \A x \in Attempts : x # n => <<x, "step">> # <<n, "step">>
      OBVIOUS
    <2>2. \A x \in Attempts : <<x, "timeout">> # <<n, "step">>
      OBVIOUS
    <2>3. d.pause[n].status = "absent" /\ d.job[<<n, "timeout">>].status = "absent"
      BY <1>1, <1>3 DEF Core, RowsFit
    <2> QED
      BY <2>1, <2>2, <2>3, <1>1, <1>4, JobShape DEF Core, RowsFit
  <1>11. LinksFit(e)
    <2>1. \A q \in Runs : /\ e.run[q].parent = d.run[q].parent
                          /\ d.run[q].status # "absent" => e.run[q].status # "absent"
      BY <1>4
    <2>2. \A x \in Attempts : d.att[x] \notin {"absent", "pending", "running"}
                                => e.att[x] \notin {"absent", "pending", "running"}
      BY <1>3, <1>4
    <2>3. d \in DB /\ e.pause = d.pause
      BY <1>1, <1>4
    <2> QED
      BY <2>1, <2>2, <2>3, Rows, RunsShape DEF Core, LinksFit
  <1> QED
    BY <1>3, <1>4, <1>5, <1>6, <1>7, <1>8, <1>9, <1>10, <1>11 DEF Core

(* The active attempt of the last step completes, and the run with it.     *)
LEMMA LastStepCore ==
    ASSUME NEW d, Core(d), NEW k \in Attempts, LockActiveAttempt(d, k),
           d.att[k] \in ActiveStatuses, d.pause[k].status # "open", ~(k[2] < Steps[k[1]]),
           NEW e, Finished(d, e, k)
    PROVE  Core(e)
  <1> DEFINE r == k[1]
  <1>1. d \in DB /\ r \in Runs
    BY AttemptShape DEF Core
  <1>2. d.run[r].step = k[2] /\ d.run[r].active = k[3] /\ d.run[r].status \in ActiveStatuses
        /\ k[3] > 0 /\ k[2] > 0 /\ k[2] \in Nat /\ k[3] \in Nat /\ k[2] = Steps[r]
    BY AttemptShape, PlanShape DEF LockActiveAttempt, IsActiveAttempt
  <1>4. /\ e \in DB
        /\ \A x \in Attempts : e.att[x] = IF x = k THEN "completed" ELSE d.att[x]
        /\ e.pause = d.pause /\ e.job = d.job
        /\ \A q \in Runs :
             /\ e.run[q].status = IF q = r THEN "completed" ELSE d.run[q].status
             /\ e.run[q].step = d.run[q].step
             /\ e.run[q].active = IF q = r THEN 0 ELSE d.run[q].active
             /\ e.run[q].parent = d.run[q].parent
    <2>1. PICK c, b : /\ AttemptSet(d, c, k, "completed")
                      /\ Inactivated(c, b, r)
                      /\ RunsEnded(b, e, {r}, "completed")
      BY DEF Finished
    <2> QED
      BY <2>1 DEF AttemptSet, Inactivated, RunsEnded
  <1>c. \A x \in Attempts : x[1] = r /\ d.att[x] \in ActiveStatuses => x = k
    BY <1>2, AttemptEq DEF Core, LiveFits, LockActiveAttempt, IsActiveAttempt, r
  <1> HIDE DEF r
  <1>5. RunsFit(e)
    BY <1>1, <1>2, <1>4, PlanShape DEF Core, RunsFit, RunFits, ActiveStatuses
  <1>6. LiveFits(e)
    BY <1>1, <1>4, <1>c, AttemptShape DEF Core, LiveFits, LockActiveAttempt, IsActiveAttempt, ActiveStatuses
  <1>7. NoneAhead(e)
    BY <1>1, <1>2, <1>4, AttemptShape DEF Core, NoneAhead, NotAhead, r
  <1>8. DoneOnce(e)
    <2>1. ASSUME NEW x \in Attempts, e.att[x] = "completed"
          PROVE  x[2] < e.run[x[1]].step \/ e.run[x[1]].status = "completed"
      BY <2>1, <1>1, <1>2, <1>4, AttemptShape DEF Core, DoneOnce, ActiveStatuses, r
    <2>2. ASSUME NEW x \in Attempts, e.att[x] = "completed", x[1] = r, x[2] = k[2]
          PROVE  x = k
      BY <2>2, <1>1, <1>2, <1>4, AttemptShape DEF Core, DoneOnce, ActiveStatuses
    <2> QED
      BY <2>1, <2>2, <1>4 DEF Core, DoneOnce, r
  <1>9. DoneAll(e)
    <2>1. \A x \in Attempts : d.att[x] = "completed" => e.att[x] = "completed"
      BY <1>4
    <2>2. e.att[k] = "completed"
      BY <1>4
    <2>3. ASSUME NEW q \in Runs, NEW s \in 1..Steps[q], s < e.run[q].step \/ e.run[q].status = "completed"
          PROVE  \E x \in Attempts : x[1] = q /\ x[2] = s /\ e.att[x] = "completed"
      <3>1. CASE q = r /\ s = k[2]
        BY <3>1, <2>2 DEF r
      <3>2. CASE ~(q = r /\ s = k[2])
        <4>1. s < d.run[q].step \/ d.run[q].status = "completed"
          BY <3>2, <2>3, <1>2, <1>4, PlanShape DEF ActiveStatuses
        <4> QED
          BY <4>1, <2>1 DEF Core, DoneAll
      <3> QED
        BY <3>1, <3>2
    <2> QED
      BY <2>3 DEF DoneAll
  <1>10. RowsFit(e)
    BY <1>4 DEF Core, RowsFit
  <1>11. LinksFit(e)
    <2>1. \A x \in Attempts : d.att[x] \notin {"absent", "pending", "running"}
                                => e.att[x] \notin {"absent", "pending", "running"}
      BY <1>4
    <2> QED
      BY <2>1, <1>1, <1>4, Rows, RunsShape, SMTT(60) DEF Core, LinksFit
  <1> QED
    BY <1>4, <1>5, <1>6, <1>7, <1>8, <1>9, <1>10, <1>11 DEF Core

(* Statements of the boundary handler: an attempt begins, opens a pause,   *)
(* or starts a child.                                                      *)
Begin(d, k) == [d EXCEPT !.att[k] = "running", !.run[k[1]].status = "running"]

OpenPause(d, k, row) ==
    [d EXCEPT !.pause[k] = row, !.att[k] = "waiting", !.run[k[1]].status = "waiting"]

(* Attempt k and its run take status s.                                    *)
Turned(d, e, k, s) ==
    /\ e \in DB
    /\ e.signal = d.signal
    /\ \A x \in Attempts : e.att[x] = IF x = k THEN s ELSE d.att[x]
    /\ \A q \in Runs :
         /\ e.run[q].status = IF q = k[1] THEN s ELSE d.run[q].status
         /\ e.run[q].step = d.run[q].step
         /\ e.run[q].active = d.run[q].active
         /\ e.run[q].parent = d.run[q].parent

(* beginAttempt writes so.                                                 *)
LEMMA BeginRows ==
    ASSUME NEW d \in DB, NEW k \in Attempts
    PROVE  LET e == Begin(d, k) IN Turned(d, e, k, "running") /\ e.pause = d.pause /\ e.job = d.job
  <1> DEFINE e == Begin(d, k)
             row == [d.run[k[1]] EXCEPT !.status = "running"]
             R == [d.run EXCEPT ![k[1]] = row]
             A == [d.att EXCEPT ![k] = "running"]
  <1>1. k[1] \in Runs /\ "running" \in AttStatus
    BY AttemptShape DEF AttStatus, ActiveStatuses
  <1>2. /\ row \in RunRow /\ row.status = "running" /\ row.step = d.run[k[1]].step
        /\ row.active = d.run[k[1]].active /\ row.parent = d.run[k[1]].parent
    BY <1>1, Rows DEF RunRow, ActiveStatuses
  <1>3. e = [d EXCEPT !.run = R, !.att = A]
    BY DEF Begin, DB
  <1> HIDE DEF row
  <1>4. R \in [Runs -> RunRow] /\ \A q \in Runs : R[q] = IF q = k[1] THEN row ELSE d.run[q]
    BY <1>1, <1>2 DEF DB
  <1>6. A \in [Attempts -> AttStatus]
        /\ \A x \in Attempts : A[x] = IF x = k THEN "running" ELSE d.att[x]
    BY <1>1 DEF DB, AttStatus
  <1> HIDE DEF R, A, e
  <1>5. e \in DB /\ e.run = R /\ e.att = A /\ e.pause = d.pause /\ e.signal = d.signal /\ e.job = d.job
    BY <1>3, <1>4, <1>6 DEF DB, AttStatus
  <1>8. \A q \in Runs :
         /\ e.run[q].status = IF q = k[1] THEN "running" ELSE d.run[q].status
         /\ e.run[q].step = d.run[q].step
         /\ e.run[q].active = d.run[q].active
         /\ e.run[q].parent = d.run[q].parent
    BY <1>2, <1>4, <1>5
  <1>9. Turned(d, e, k, "running") /\ e.pause = d.pause /\ e.job = d.job
    BY <1>6, <1>5, <1>8 DEF Turned
  <1> QED
    BY <1>9 DEF e

(* suspendForPause writes so, before it looks for a signal.                *)
LEMMA OpenPauseRows ==
    ASSUME NEW d \in DB, NEW k \in Attempts, NEW p \in PauseRow
    PROVE  LET e == OpenPause(d, k, p)
           IN  /\ Turned(d, e, k, "waiting") /\ e.job = d.job
               /\ \A x \in Attempts : e.pause[x] = IF x = k THEN p ELSE d.pause[x]
  <1> DEFINE e == OpenPause(d, k, p)
             row == [d.run[k[1]] EXCEPT !.status = "waiting"]
             R == [d.run EXCEPT ![k[1]] = row]
             A == [d.att EXCEPT ![k] = "waiting"]
             P == [d.pause EXCEPT ![k] = p]
  <1>1. k[1] \in Runs /\ "waiting" \in AttStatus
    BY AttemptShape DEF AttStatus, ActiveStatuses
  <1>2. /\ row \in RunRow /\ row.status = "waiting" /\ row.step = d.run[k[1]].step
        /\ row.active = d.run[k[1]].active /\ row.parent = d.run[k[1]].parent
    BY <1>1, Rows DEF RunRow, ActiveStatuses
  <1>3. e = [d EXCEPT !.run = R, !.att = A, !.pause = P]
    BY DEF OpenPause, DB
  <1> HIDE DEF row
  <1>4. R \in [Runs -> RunRow] /\ \A q \in Runs : R[q] = IF q = k[1] THEN row ELSE d.run[q]
    BY <1>1, <1>2 DEF DB
  <1>6. A \in [Attempts -> AttStatus]
        /\ \A x \in Attempts : A[x] = IF x = k THEN "waiting" ELSE d.att[x]
    BY <1>1 DEF DB, AttStatus
  <1>7. P \in [Attempts -> PauseRow] /\ \A x \in Attempts : P[x] = IF x = k THEN p ELSE d.pause[x]
    BY DEF DB
  <1> HIDE DEF R, A, P, e
  <1>5. e \in DB /\ e.run = R /\ e.att = A /\ e.pause = P /\ e.signal = d.signal /\ e.job = d.job
    BY <1>3, <1>4, <1>6, <1>7 DEF DB, AttStatus
  <1>8. \A q \in Runs :
         /\ e.run[q].status = IF q = k[1] THEN "waiting" ELSE d.run[q].status
         /\ e.run[q].step = d.run[q].step
         /\ e.run[q].active = d.run[q].active
         /\ e.run[q].parent = d.run[q].parent
    BY <1>2, <1>4, <1>5
  <1>9. Turned(d, e, k, "waiting") /\ e.job = d.job /\ e.pause = P
    BY <1>6, <1>5, <1>8 DEF Turned
  <1> QED
    BY <1>9, <1>7 DEF e

Spawned(d, e, k, kid, n) ==
    /\ e \in DB
    /\ e.pause = d.pause
    /\ e.signal = d.signal
    /\ \A x \in Attempts : e.att[x] = IF x = n THEN "pending" ELSE IF x = k THEN "waiting" ELSE d.att[x]
    /\ \A j \in JobIds : e.job[j] = IF j = <<n, "step">> THEN Job("pending") ELSE d.job[j]
    /\ \A q \in Runs : q # kid =>
         /\ e.run[q].status = IF q = k[1] THEN "waiting" ELSE d.run[q].status
         /\ e.run[q].step = d.run[q].step
         /\ e.run[q].active = d.run[q].active
         /\ e.run[q].parent = d.run[q].parent
    /\ e.run[kid].status = "pending" /\ e.run[kid].step = 1
    /\ e.run[kid].active = 1 /\ e.run[kid].parent = k

(* suspendForChild writes so.                                              *)
LEMMA SpawnRows ==
    ASSUME NEW d \in DB, NEW k \in Attempts, k[1] = Root, NEW kid \in Kids
    PROVE  <<kid, 1, 1>> \in Attempts /\ Spawned(d, Spawn(d, k, kid), k, kid, <<kid, 1, 1>>)
  <1> DEFINE n == <<kid, 1, 1>>
             row == [d.run[kid] EXCEPT !.status = "pending", !.parent = k]
             R1 == [d.run EXCEPT ![kid] = row]
             rowk == [R1[Root] EXCEPT !.status = "waiting"]
             R == [R1 EXCEPT ![k[1]] = rowk]
             A == [d.att EXCEPT ![k] = "waiting"]
             c == [d EXCEPT !.run[kid] = [@ EXCEPT !.status = "pending", !.parent = k],
                            !.att[k] = "waiting", !.run[k[1]].status = "waiting"]
             e == Spawn(d, k, kid)
  <1>1. /\ kid \in Runs /\ Root \in Runs /\ kid # Root /\ n \in Attempts
        /\ n[1] = kid /\ n[2] = 1 /\ n[3] = 1
        /\ "waiting" \in AttStatus
    BY RunsShape, AttemptShape, PlanShape DEF AttStatus, ActiveStatuses
  <1>2. /\ row \in RunRow /\ row.status = "pending" /\ row.parent = k
    BY <1>1, Rows, ZenonT(60) DEF RunRow, ActiveStatuses
  <1>3. c = [d EXCEPT !.run = R, !.att = A]
    BY <1>1 DEF DB
  <1>4. e = CreateStepAttempt(c, n)
    BY DEF Spawn
  <1> HIDE DEF row, c, n, e
  <1>5. R1 \in [Runs -> RunRow] /\ \A q \in Runs : R1[q] = IF q = kid THEN row ELSE d.run[q]
    BY <1>1, <1>2 DEF DB
  <1> HIDE DEF R1
  <1>13. R1[Root] = d.run[Root] /\ d.run[Root] \in RunRow
    BY <1>1, <1>5, Rows
  <1>6. /\ rowk \in RunRow /\ rowk.status = "waiting" /\ rowk.step = d.run[Root].step
        /\ rowk.active = d.run[Root].active /\ rowk.parent = d.run[Root].parent
    BY <1>13 DEF RunRow, ActiveStatuses
  <1> HIDE DEF rowk
  <1>7. R \in [Runs -> RunRow]
        /\ \A q \in Runs : R[q] = IF q = Root THEN rowk ELSE IF q = kid THEN row ELSE d.run[q]
    BY <1>1, <1>5, <1>6
  <1>14. A \in [Attempts -> AttStatus]
        /\ \A x \in Attempts : A[x] = IF x = k THEN "waiting" ELSE d.att[x]
    BY <1>1 DEF DB, AttStatus
  <1> HIDE DEF R, A
  <1>8. c \in DB /\ c.run = R /\ c.att = A /\ c.pause = d.pause /\ c.signal = d.signal /\ c.job = d.job
    BY <1>3, <1>7, <1>14 DEF DB, AttStatus
  <1>9. Created(c, e, n)
    BY <1>1, <1>4, <1>8, CreateRows
  <1>10. \A q \in Runs : q # kid =>
         /\ e.run[q].status = IF q = k[1] THEN "waiting" ELSE d.run[q].status
         /\ e.run[q].step = d.run[q].step
         /\ e.run[q].active = d.run[q].active
         /\ e.run[q].parent = d.run[q].parent
    <2>1. ASSUME NEW q \in Runs, q # kid PROVE e.run[q] = IF q = Root THEN rowk ELSE d.run[q]
      BY <2>1, <1>1, <1>7, <1>8, <1>9 DEF Created
    <2> QED
      BY <2>1, <1>6
  <1>11. e.run[kid].status = "pending" /\ e.run[kid].step = 1
        /\ e.run[kid].active = 1 /\ e.run[kid].parent = k
    BY <1>1, <1>2, <1>7, <1>8, <1>9 DEF Created, ActiveStatuses
  <1>12. Spawned(d, e, k, kid, n)
    <2>1. \A x \in Attempts : e.att[x] = IF x = n THEN "pending" ELSE IF x = k THEN "waiting" ELSE d.att[x]
      BY <1>14, <1>8, <1>9 DEF Created
    <2>2. /\ e \in DB /\ e.pause = d.pause /\ e.signal = d.signal
          /\ \A j \in JobIds : e.job[j] = IF j = <<n, "step">> THEN Job("pending") ELSE d.job[j]
      BY <1>8, <1>9 DEF Created
    <2> QED
      BY <2>1, <2>2, <1>10, <1>11 DEF Spawned
  <1> QED
    BY <1>1, <1>12 DEF n, e

(* The active attempt and its run take a later active status.              *)
LEMMA TurnCore ==
    ASSUME NEW d, Core(d), NEW k \in Attempts, LockActiveAttempt(d, k),
           d.att[k] \in {"pending", "running"}, NEW s \in {"running", "waiting"},
           NEW e, Turned(d, e, k, s),
           \A x \in Attempts : x # k => e.pause[x] = d.pause[x],
           e.pause[k] = d.pause[k] \/ (s = "waiting" /\ e.pause[k].status = "open"),
           \A j \in JobIds : e.job[j].status # "absent" => d.job[j].status # "absent"
    PROVE  Core(e)
  <1>1. /\ d \in DB /\ e \in DB /\ k[1] \in Runs
        /\ \A x \in Attempts : e.att[x] = IF x = k THEN s ELSE d.att[x]
        /\ \A q \in Runs :
             /\ e.run[q].status = IF q = k[1] THEN s ELSE d.run[q].status
             /\ e.run[q].step = d.run[q].step
             /\ e.run[q].active = d.run[q].active
             /\ e.run[q].parent = d.run[q].parent
    BY AttemptShape DEF Core, Turned
  <1>2. d.run[k[1]].status \in ActiveStatuses /\ s \in ActiveStatuses /\ IsActiveAttempt(d, k)
    BY DEF LockActiveAttempt, ActiveStatuses
  <1>3. d.pause[k].status = "absent" /\ d.job[<<k, "timeout">>].status = "absent"
    BY DEF Core, RowsFit
  <1>4. \A q \in Runs : /\ e.run[q].status = "completed" <=> d.run[q].status = "completed"
                        /\ e.run[q].status = "absent" <=> d.run[q].status = "absent"
                        /\ e.run[q].status \in ActiveStatuses <=> d.run[q].status \in ActiveStatuses
    BY <1>1, <1>2 DEF ActiveStatuses
  <1>5. \A x \in Attempts : /\ e.att[x] = "completed" <=> d.att[x] = "completed"
                            /\ e.att[x] # "absent" => d.att[x] # "absent"
                            /\ e.att[x] \in ActiveStatuses => d.att[x] \in ActiveStatuses
                            /\ x # k => e.att[x] = d.att[x]
    BY <1>1, <1>2 DEF ActiveStatuses
  <1>6. RunsFit(e)
    BY <1>1, <1>4 DEF Core, RunsFit, RunFits
  <1>7. LiveFits(e)
    BY <1>1, <1>4, <1>5, AttemptShape DEF Core, LiveFits, LockActiveAttempt, IsActiveAttempt
  <1>8. NoneAhead(e)
    BY <1>1, <1>5, AttemptShape DEF Core, NoneAhead, NotAhead
  <1>9. DoneOnce(e)
    BY <1>1, <1>4, <1>5, AttemptShape DEF Core, DoneOnce
  <1>10. DoneAll(e)
    BY <1>1, <1>4, <1>5 DEF Core, DoneAll
  <1>11. RowsFit(e)
    <2>1. ASSUME NEW x \in Attempts, x # k
          PROVE  /\ e.pause[x].status # "absent" => e.att[x] \notin {"absent", "pending", "running"}
                 /\ e.pause[x].status = "open" => e.att[x] = "waiting"
                 /\ e.job[<<x, "step">>].status # "absent" => e.att[x] # "absent"
                 /\ e.job[<<x, "timeout">>].status # "absent" => e.pause[x].status # "absent"
      BY <2>1, <1>5, JobShape DEF Core, RowsFit
    <2>2. /\ e.pause[k].status # "absent" => e.att[k] \notin {"absent", "pending", "running"}
          /\ e.pause[k].status = "open" => e.att[k] = "waiting"
          /\ e.job[<<k, "step">>].status # "absent" => e.att[k] # "absent"
          /\ e.job[<<k, "timeout">>].status # "absent" => e.pause[k].status # "absent"
      BY <1>1, <1>3, JobShape
    <2> QED
      BY <2>1, <2>2 DEF RowsFit
  <1>12. LinksFit(e)
    <2>1. \A c \in Kids : d.run[c].parent # NoAttempt => d.run[c].parent \in Attempts \ {k}
      BY <1>1, Rows, RunsShape DEF Core, LinksFit
    <2>2. e.run[Root].parent = d.run[Root].parent
          /\ \A c \in Kids : /\ e.run[c].parent = d.run[c].parent
                             /\ e.run[c].status # "absent" <=> d.run[c].status # "absent"
      BY <1>1, <1>4, RunsShape
    <2>3. \A x \in Attempts \ {k} : e.att[x] = d.att[x] /\ e.pause[x] = d.pause[x]
      BY <1>5
    <2> QED
      BY <2>1, <2>2, <2>3 DEF Core, LinksFit
  <1> QED
    BY <1>1, <1>6, <1>7, <1>8, <1>9, <1>10, <1>11, <1>12 DEF Core

(* The timeout job of a pause is queued.                                   *)
LEMMA TimeoutJobCore ==
    ASSUME NEW d, Core(d), NEW k \in Attempts, d.pause[k].status # "absent", NEW row,
           NEW e, JobSet(d, e, <<k, "timeout">>, row)
    PROVE  Core(e)
  <1>1. e \in DB /\ e.run = d.run /\ e.att = d.att /\ e.pause = d.pause
        /\ \A i \in JobIds : e.job[i] = IF i = <<k, "timeout">> THEN row ELSE d.job[i]
    BY DEF JobSet
  <1>2. RunsFit(e) /\ NoneAhead(e) /\ DoneOnce(e) /\ DoneAll(e) /\ LinksFit(e)
    BY <1>1 DEF Core, RunsFit, RunFits, NoneAhead, NotAhead, DoneOnce, DoneAll, LinksFit
  <1>3. LiveFits(e)
    BY <1>1 DEF Core, LiveFits, LockActiveAttempt, IsActiveAttempt
  <1>4. RowsFit(e)
    <2>1. \A x \in Attempts : /\ e.job[<<x, "step">>] = d.job[<<x, "step">>]
                              /\ x # k => e.job[<<x, "timeout">>] = d.job[<<x, "timeout">>]
      BY <1>1, JobShape
    <2> QED
      BY <1>1, <2>1 DEF Core, RowsFit
  <1> QED
    BY <1>1, <1>2, <1>3, <1>4 DEF Core

(* A child run starts, and the attempt that starts it waits.               *)
LEMMA SpawnCore ==
    ASSUME NEW d, Core(d), NEW k \in Attempts, LockActiveAttempt(d, k), k[1] = Root,
           d.att[k] = "running", NEW kid \in Kids, d.run[kid].status = "absent",
           NEW n \in Attempts, n[1] = kid, n[2] = 1, n[3] = 1,
           NEW e, Spawned(d, e, k, kid, n)
    PROVE  Core(e) /\ d.att[n] = "absent"
  <1>1. /\ d \in DB /\ kid \in Runs /\ Root \in Runs /\ kid # Root /\ n # k
        /\ d.run[Root].status \in ActiveStatuses
    BY RunsShape DEF Core, LockActiveAttempt
  <1>2. d.run[kid].step = 0
    BY <1>1 DEF Core, RunsFit, RunFits
  <1>3. \A x \in Attempts : x[1] = kid => d.att[x] = "absent"
    BY <1>1, <1>2, AttemptShape DEF Core, NoneAhead, NotAhead
  <1>4. /\ e \in DB /\ e.pause = d.pause
        /\ \A x \in Attempts : e.att[x] = IF x = n THEN "pending" ELSE IF x = k THEN "waiting" ELSE d.att[x]
        /\ \A j \in JobIds : e.job[j] = IF j = <<n, "step">> THEN Job("pending") ELSE d.job[j]
    BY DEF Spawned
  <1>5. /\ \A q \in Runs \ {kid, Root} :
             /\ e.run[q].status = d.run[q].status
             /\ e.run[q].step = d.run[q].step
             /\ e.run[q].active = d.run[q].active
             /\ e.run[q].parent = d.run[q].parent
        /\ e.run[Root].status = "waiting" /\ e.run[Root].step = d.run[Root].step
        /\ e.run[Root].active = d.run[Root].active /\ e.run[Root].parent = d.run[Root].parent
        /\ e.run[kid].status = "pending" /\ e.run[kid].step = 1
        /\ e.run[kid].active = 1 /\ e.run[kid].parent = k
    BY <1>1 DEF Spawned
  <1>6. RunsFit(e)
    <2>1. RunFits(e, kid)
      BY <1>1, <1>5, PlanShape DEF RunFits
    <2>2. RunFits(e, Root)
      BY <1>1, <1>5 DEF Core, RunsFit, RunFits, ActiveStatuses
    <2>3. ASSUME NEW q \in Runs \ {kid, Root} PROVE RunFits(e, q)
      BY <2>3, <1>5 DEF Core, RunsFit, RunFits
    <2> QED
      BY <2>1, <2>2, <2>3 DEF RunsFit
  <1>7. LiveFits(e)
    <2> SUFFICES ASSUME NEW x \in Attempts, e.att[x] \in ActiveStatuses PROVE LockActiveAttempt(e, x)
      BY DEF LiveFits
    <2>1. CASE x[1] = kid
      <3>1. x = n
        BY <2>1, <1>1, <1>3, <1>4 DEF ActiveStatuses
      <3> QED
        BY <3>1, <1>5 DEF LockActiveAttempt, IsActiveAttempt, ActiveStatuses
    <2>2. CASE x[1] # kid
      <3>1. LockActiveAttempt(d, x)
        BY <2>2, <1>4 DEF Core, LiveFits
      <3> QED
        BY <3>1, <2>2, <1>5, AttemptShape DEF LockActiveAttempt, IsActiveAttempt, ActiveStatuses
    <2> QED
      BY <2>1, <2>2
  <1>8. NoneAhead(e)
    <2> SUFFICES ASSUME NEW x \in Attempts, e.att[x] # "absent" PROVE NotAhead(e, x)
      BY DEF NoneAhead
    <2>1. CASE x[1] = kid
      <3>1. x = n
        BY <2>1, <1>1, <1>3, <1>4
      <3> QED
        BY <3>1, <1>5 DEF NotAhead
    <2>2. CASE x[1] # kid
      <3>1. NotAhead(d, x)
        BY <2>2, <1>4 DEF Core, NoneAhead
      <3> QED
        BY <3>1, <2>2, <1>5, AttemptShape DEF NotAhead
    <2> QED
      BY <2>1, <2>2
  <1>9. \A x \in Attempts : e.att[x] = "completed" <=> d.att[x] = "completed"
    BY <1>3, <1>4
  <1>10. \A q \in Runs : e.run[q].status = "completed" <=> d.run[q].status = "completed"
    BY <1>1, <1>5 DEF ActiveStatuses
  <1>11. DoneOnce(e)
    <2>1. ASSUME NEW x \in Attempts, e.att[x] = "completed"
          PROVE  x[2] < e.run[x[1]].step \/ e.run[x[1]].status = "completed"
      <3>1. x[1] # kid /\ (x[2] < d.run[x[1]].step \/ d.run[x[1]].status = "completed")
        BY <2>1, <1>3, <1>9 DEF Core, DoneOnce
      <3> QED
        BY <3>1, <1>5, <1>10, AttemptShape
    <2> QED
      BY <2>1, <1>9 DEF Core, DoneOnce
  <1>12. DoneAll(e)
    <2>1. ASSUME NEW q \in Runs, NEW s \in 1..Steps[q], s < e.run[q].step \/ e.run[q].status = "completed"
          PROVE  s < d.run[q].step \/ d.run[q].status = "completed"
      BY <2>1, <1>1, <1>5, <1>10
    <2> QED
      BY <2>1, <1>9 DEF Core, DoneAll
  <1>13. RowsFit(e)
    <2>1. \A x \in Attempts : x # n => <<x, "step">> # <<n, "step">>
      OBVIOUS
    <2>2. \A x \in Attempts : <<x, "timeout">> # <<n, "step">>
      OBVIOUS
    <2>3. d.pause[n].status = "absent" /\ d.job[<<n, "timeout">>].status = "absent"
          /\ d.pause[k].status = "absent"
      BY <1>1, <1>3 DEF Core, RowsFit
    <2> QED
      BY <2>1, <2>2, <2>3, <1>1, <1>4, JobShape DEF Core, RowsFit
  <1>14. LinksFit(e)
    <2>1. d.run[kid].parent = NoAttempt /\ d.pause[k].status = "absent" /\ k # NoAttempt
      BY NoneAssumption DEF Core, LinksFit, RowsFit
    <2>2. \A c \in Kids \ {kid} :
            /\ e.run[c].parent = d.run[c].parent
            /\ e.run[c].status = d.run[c].status
            /\ d.run[c].parent # NoAttempt => d.run[c].parent \in Attempts \ {k, n}
      BY <1>1, <1>3, <1>5, Rows, RunsShape DEF Core, LinksFit
    <2>3. e.run[kid].parent = k /\ e.run[kid].status # "absent"
          /\ e.run[Root].parent = NoAttempt
          /\ e.att[k] = "waiting" /\ e.pause[k].status = "absent"
      BY <2>1, <1>1, <1>4, <1>5 DEF Core, LinksFit
    <2>4. \A x \in Attempts \ {k, n} : e.att[x] = d.att[x] /\ e.pause[x] = d.pause[x]
      BY <1>4
    <2>5. ASSUME NEW c \in Kids, e.run[c].parent # NoAttempt
          PROVE  /\ e.run[c].parent[1] = Root
                 /\ e.run[c].status # "absent"
                 /\ e.att[e.run[c].parent] \notin {"absent", "pending", "running"}
                 /\ e.pause[e.run[c].parent].status = "absent"
      BY <2>2, <2>3, <2>4, <2>5 DEF Core, LinksFit
    <2>6. ASSUME NEW a \in Kids, NEW b \in Kids, a # b, e.run[a].parent # NoAttempt
          PROVE  e.run[a].parent # e.run[b].parent
      BY <2>2, <2>3, <2>1, <2>6 DEF Core, LinksFit
    <2> QED
      BY <2>3, <2>5, <2>6 DEF LinksFit
  <1> QED
    BY <1>1, <1>3, <1>4, <1>6, <1>7, <1>8, <1>11, <1>12, <1>13, <1>14 DEF Core

-----------------------------------------------------------------------------
(* Statements and signals.                                                 *)

(* Statements that leave signals alone, end no run and open no pause.      *)
LEMMA SignalsFrame ==
    ASSUME NEW d, SignalsFit(d), NEW e, e.signal = d.signal,
           \A r \in Runs : e.run[r].status \in TerminalStatuses <=> d.run[r].status \in TerminalStatuses,
           \A k \in Attempts :
                /\ d.pause[k].status = "resumed" => e.pause[k].status = "resumed"
                /\ e.pause[k].status = "open" =>
                        d.pause[k].status = "open" /\ e.pause[k].name = d.pause[k].name
    PROVE  SignalsFit(e)
  <1>1. ASSUME NEW r \in Runs PROVE InOrder(e, r)
    BY <1>1 DEF SignalsFit, InOrder
  <1>2. ASSUME NEW k \in Attempts PROVE Heard(e, k)
    BY <1>2 DEF SignalsFit, Heard
  <1> QED
    BY <1>1, <1>2 DEF SignalsFit

(* The trigger discards what a run that ends has not consumed.             *)
LEMMA RunsEndedSignals ==
    ASSUME NEW d, d \in DB, SignalsFit(d), NEW S, NEW s \in TerminalStatuses, NEW e, RunsEnded(d, e, S, s)
    PROVE  SignalsFit(e)
  <1>1. ASSUME NEW r \in Runs PROVE InOrder(e, r)
    <2>1. /\ e.pause = d.pause
          /\ e.run[r].status = IF r \in S THEN s ELSE d.run[r].status
          /\ Len(e.signal[r]) = Len(d.signal[r])
          /\ DOMAIN e.signal[r] = DOMAIN d.signal[r]
          /\ \A i \in DOMAIN d.signal[r] :
              /\ e.signal[r][i].name = d.signal[r][i].name
              /\ e.signal[r][i].pause = d.signal[r][i].pause
              /\ e.signal[r][i].status = IF r \in S /\ d.signal[r][i].status = "buffered"
                                         THEN "discarded" ELSE d.signal[r][i].status
      BY DEF RunsEnded
    <2>2. InOrder(d, r)
      BY DEF SignalsFit
    <2> QED
      BY <2>1, <2>2, SMTT(60) DEF InOrder
  <1>2. ASSUME NEW k \in Attempts PROVE Heard(e, k)
    <2>1. /\ e.pause = d.pause /\ k[1] \in Runs
          /\ DOMAIN e.signal[k[1]] = DOMAIN d.signal[k[1]]
          /\ \A i \in DOMAIN d.signal[k[1]] :
              /\ e.signal[k[1]][i].name = d.signal[k[1]][i].name
              /\ e.signal[k[1]][i].status = "buffered" => d.signal[k[1]][i].status = "buffered"
      BY AttemptShape DEF RunsEnded
    <2>2. Heard(d, k)
      BY DEF SignalsFit
    <2> QED
      BY <2>1, <2>2 DEF Heard
  <1> QED
    BY <1>1, <1>2 DEF SignalsFit

(* resolveNamedPause takes signal i of the run for pause k.                *)
Consume(d, k, i) ==
    [d EXCEPT !.signal[k[1]][i] = [@ EXCEPT !.status = "resumed", !.pause = k]]

Consumed(d, e, k, i) ==
    /\ e \in DB
    /\ e.run = d.run /\ e.att = d.att /\ e.pause = d.pause /\ e.job = d.job
    /\ \A r \in Runs : r # k[1] => e.signal[r] = d.signal[r]
    /\ Len(e.signal[k[1]]) = Len(d.signal[k[1]])
    /\ DOMAIN e.signal[k[1]] = DOMAIN d.signal[k[1]]
    /\ \A m \in DOMAIN d.signal[k[1]] : m # i => e.signal[k[1]][m] = d.signal[k[1]][m]
    /\ e.signal[k[1]][i].name = d.signal[k[1]][i].name
    /\ e.signal[k[1]][i].status = "resumed"
    /\ e.signal[k[1]][i].pause = k

(* A pause that takes a buffered signal writes so (resolveNamedPause).     *)
LEMMA ConsumeRows ==
    ASSUME NEW d \in DB, NEW k \in Attempts, NEW i \in DOMAIN d.signal[k[1]]
    PROVE  Consumed(d, Consume(d, k, i), k, i)
  <1> DEFINE e == Consume(d, k, i)
             r == k[1]
             q == d.signal[r]
             row == [q[i] EXCEPT !.status = "resumed", !.pause = k]
             f == [q EXCEPT ![i] = row]
             Q == [d.signal EXCEPT ![r] = f]
  <1>1. r \in Runs
    BY AttemptShape
  <1>2. q \in Seq(SignalRow) /\ q[i] \in SignalRow
    BY <1>1, Rows
  <1>3. row \in SignalRow /\ row.name = q[i].name /\ row.status = "resumed" /\ row.pause = k
    BY <1>2 DEF SignalRow
  <1>4. e = [d EXCEPT !.signal = Q]
    BY DEF Consume, DB
  <1> HIDE DEF row, e
  <1>5. f \in Seq(SignalRow) /\ Len(f) = Len(q) /\ DOMAIN f = DOMAIN q
        /\ \A m \in DOMAIN q : f[m] = IF m = i THEN row ELSE q[m]
    BY <1>2, <1>3
  <1> HIDE DEF f
  <1>6. Q \in [Runs -> Seq(SignalRow)] /\ \A p \in Runs : Q[p] = IF p = r THEN f ELSE d.signal[p]
    BY <1>1, <1>5 DEF DB
  <1> HIDE DEF Q
  <1>7. e \in DB /\ e.signal = Q
        /\ e.run = d.run /\ e.att = d.att /\ e.pause = d.pause /\ e.job = d.job
    BY <1>4, <1>6 DEF DB
  <1>8. Consumed(d, e, k, i)
    BY <1>1, <1>3, <1>5, <1>6, <1>7 DEF Consumed
  <1> QED
    BY <1>8 DEF e

(* signalByKey's insert.                                                   *)
Receive(d, r, n) ==
    [d EXCEPT !.signal[r] = Append(@, [name |-> n, status |-> "buffered", pause |-> NoAttempt])]

Received(d, e, r, n) ==
    /\ e \in DB
    /\ e.run = d.run /\ e.att = d.att /\ e.pause = d.pause /\ e.job = d.job
    /\ \A q \in Runs : q # r => e.signal[q] = d.signal[q]
    /\ Len(e.signal[r]) = Len(d.signal[r]) + 1
    /\ DOMAIN e.signal[r] = DOMAIN d.signal[r] \cup {Len(d.signal[r]) + 1}
    /\ \A i \in DOMAIN d.signal[r] : e.signal[r][i] = d.signal[r][i] /\ i <= Len(d.signal[r])
    /\ e.signal[r][Len(d.signal[r]) + 1].name = n
    /\ e.signal[r][Len(d.signal[r]) + 1].status = "buffered"

(* Accepting a signal writes so (signalByKey).                             *)
LEMMA ReceiveRows ==
    ASSUME NEW d \in DB, NEW r \in Runs, NEW n \in Names
    PROVE  Received(d, Receive(d, r, n), r, n)
  <1> DEFINE e == Receive(d, r, n)
             row == [name |-> n, status |-> "buffered", pause |-> NoAttempt]
             q == d.signal[r]
             f == Append(q, row)
             Q == [d.signal EXCEPT ![r] = f]
  <1>1. row \in SignalRow /\ row.name = n /\ row.status = "buffered"
    BY DEF SignalRow
  <1>2. q \in Seq(SignalRow)
    BY Rows
  <1>3. e = [d EXCEPT !.signal = Q]
    BY DEF Receive, DB
  <1> HIDE DEF row, e, q
  <1>4. /\ f \in Seq(SignalRow) /\ Len(f) = Len(q) + 1 /\ Len(q) \in Nat
        /\ DOMAIN f = 1..(Len(q) + 1) /\ DOMAIN q = 1..Len(q)
        /\ \A i \in 1..Len(q) : f[i] = q[i]
        /\ f[Len(q) + 1] = row
    BY <1>1, <1>2
  <1> HIDE DEF f
  <1>5. Q \in [Runs -> Seq(SignalRow)] /\ \A p \in Runs : Q[p] = IF p = r THEN f ELSE d.signal[p]
    BY <1>4 DEF DB
  <1> HIDE DEF Q
  <1>6. e \in DB /\ e.signal = Q
        /\ e.run = d.run /\ e.att = d.att /\ e.pause = d.pause /\ e.job = d.job
    BY <1>3, <1>5 DEF DB
  <1>7. DOMAIN f = DOMAIN q \cup {Len(q) + 1} /\ \A i \in DOMAIN q : i <= Len(q)
    BY <1>4
  <1>8. Received(d, e, r, n)
    BY <1>1, <1>4, <1>5, <1>6, <1>7 DEF Received, q
  <1> QED
    BY <1>8 DEF e

(* A set of naturals has a least element.                                  *)
LEMMA Least ==
    ASSUME NEW S, S # {}, S \subseteq Nat
    PROVE  \E i \in S : \A m \in S : i <= m
  <1> DEFINE R == {p \in Nat \X Nat : p[1] < p[2]}
  <1>1. IsWellFoundedOn(R, Nat)
    BY NatLessThanWellFounded DEF OpToRel
  <1>2. PICK i \in S : \A m \in S : <<m, i>> \notin R
    <2> HIDE DEF R
    <2> QED
      BY <1>1, WFMin
  <1>3. ASSUME NEW m \in S, m < i PROVE <<m, i>> \in R
    <2>1. <<m, i>> \in Nat \X Nat /\ <<m, i>>[1] < <<m, i>>[2]
      BY <1>3
    <2> QED
      BY <2>1
  <1>4. \A m \in S : ~(m < i)
    <2> HIDE DEF R
    <2> QED
      BY <1>2, <1>3
  <1> QED
    BY <1>4

(* resolveNamedPause takes the buffered signal that was accepted first.    *)
LEMMA NextSignalLeast ==
    ASSUME NEW d \in DB, NEW r \in Runs, NEW n, Buffered(d, r, n) # {}
    PROVE  /\ NextSignal(d, r, n) \in Buffered(d, r, n)
           /\ \A m \in Buffered(d, r, n) : NextSignal(d, r, n) <= m
  <1>1. Buffered(d, r, n) \subseteq Nat
    BY Rows DEF Buffered
  <1>2. \E i \in Buffered(d, r, n) : \A m \in Buffered(d, r, n) : i <= m
    BY <1>1, Least
  <1> QED
    BY <1>2 DEF NextSignal

(* A pause that closes, however it does.                                   *)
LEMMA ClosePauseSignals ==
    ASSUME NEW d, \A r \in Runs : InOrder(d, r), NEW k \in Attempts, \A x \in Attempts \ {k} : Heard(d, x),
           d.pause[k].status = "open", NEW s \in {"resumed", "timed_out"}, NEW e, PauseSet(d, e, k, s)
    PROVE  SignalsFit(e)
  <1>1. /\ e.signal = d.signal /\ e.run = d.run
        /\ e.pause[k].status = s
        /\ \A x \in Attempts : x # k => e.pause[x].status = d.pause[x].status /\ e.pause[x].name = d.pause[x].name
    BY DEF PauseSet
  <1>2. ASSUME NEW r \in Runs PROVE InOrder(e, r)
    BY <1>1, <1>2 DEF InOrder
  <1>3. ASSUME NEW x \in Attempts PROVE Heard(e, x)
    BY <1>1, <1>3 DEF Heard
  <1> QED
    BY <1>2, <1>3 DEF SignalsFit

(* The first buffered signal of its name resumes the pause.                *)
LEMMA TakeSignals ==
    ASSUME NEW d, d \in DB, \A r \in Runs : InOrder(d, r),
           NEW k \in Attempts, \A x \in Attempts \ {k} : Heard(d, x),
           d.pause[k].status = "open", d.run[k[1]].status \notin TerminalStatuses,
           NEW i \in Buffered(d, k[1], d.pause[k].name),
           \A m \in Buffered(d, k[1], d.pause[k].name) : i <= m,
           NEW c, Consumed(d, c, k, i), NEW e, PauseSet(c, e, k, "resumed")
    PROVE  SignalsFit(e)
  <1> DEFINE r == k[1]
             n == d.pause[k].name
  <1>1. /\ r \in Runs /\ i \in DOMAIN d.signal[r] /\ d.signal[r][i].name = n
        /\ d.signal[r][i].status = "buffered" /\ DOMAIN d.signal[r] \subseteq Nat
    BY AttemptShape, Rows DEF Buffered
  <1>2. /\ e.run = d.run /\ \A q \in Runs : q # r => e.signal[q] = d.signal[q]
        /\ e.pause[k].status = "resumed"
        /\ \A x \in Attempts : x # k => e.pause[x].status = d.pause[x].status
        /\ \A x \in Attempts : e.pause[x].name = d.pause[x].name
    BY DEF Consumed, PauseSet
  <1>3. /\ Len(e.signal[r]) = Len(d.signal[r])
        /\ DOMAIN e.signal[r] = DOMAIN d.signal[r]
        /\ \A m \in DOMAIN d.signal[r] : m # i => e.signal[r][m] = d.signal[r][m]
        /\ e.signal[r][i].name = n
        /\ e.signal[r][i].status = "resumed"
        /\ e.signal[r][i].pause = k
    BY <1>1 DEF Consumed, PauseSet
  <1>7. \A x \in Attempts : d.pause[x].status = "resumed" => e.pause[x].status = "resumed"
    BY <1>2
  <1> HIDE DEF r
  <1>4. ASSUME NEW q \in Runs, q # r PROVE InOrder(e, q)
    <2>1. InOrder(d, q)
      OBVIOUS
    <2> QED
      BY <2>1, <1>2, <1>7, <1>4, SMTT(60) DEF InOrder
  <1>5. InOrder(e, r)
    <2>1. InOrder(d, r)
      BY <1>1
    <2>2. Len(e.signal[r]) <= MaxReceipts
      BY <2>1, <1>3 DEF InOrder
    <2>3. ASSUME NEW m \in DOMAIN e.signal[r]
          PROVE  LET a == e.signal[r][m]
                 IN  /\ a.status = "buffered" => e.run[r].status \notin TerminalStatuses
                     /\ a.status = "discarded" => e.run[r].status \in TerminalStatuses
                     /\ a.status = "resumed" => a.pause \in Attempts /\ e.pause[a.pause].status = "resumed"
      <3>1. CASE m = i
        BY <3>1, <1>2, <1>3
      <3>2. CASE m # i
        <4>1. m \in DOMAIN d.signal[r] /\ e.signal[r][m] = d.signal[r][m] /\ e.run[r] = d.run[r]
          BY <3>2, <2>3, <1>2, <1>3
        <4> QED
          BY <4>1, <2>1, <1>7, ZenonT(60) DEF InOrder
      <3> QED
        BY <3>1, <3>2
    <2>4. ASSUME NEW l \in DOMAIN e.signal[r], NEW m \in DOMAIN e.signal[r], l < m,
                 e.signal[r][l].name = e.signal[r][m].name, e.signal[r][m].status = "resumed"
          PROVE  e.signal[r][l].status = "resumed" /\ e.signal[r][l].pause # e.signal[r][m].pause
      <3>1. CASE m = i
        <4>1. l \in DOMAIN d.signal[r] /\ l # i /\ e.signal[r][l] = d.signal[r][l]
              /\ d.signal[r][l].name = n
          BY <3>1, <2>4, <1>1, <1>3
        <4>2. d.signal[r][l].status # "buffered"
          BY <3>1, <4>1, <2>4, <1>1 DEF Buffered, r
        <4>3. d.signal[r][l].status # "discarded"
          BY <4>1, <2>1 DEF InOrder, r
        <4>4. d.signal[r][l].status = "resumed"
          <5>1. d.signal[r][l] \in SignalRow
            BY <4>1, <1>1, Rows
          <5> QED
            BY <4>2, <4>3, <5>1 DEF SignalRow
        <4>5. d.signal[r][l].pause # k
          BY <4>1, <4>4, <2>1 DEF InOrder
        <4> QED
          BY <3>1, <4>1, <4>4, <4>5, <1>3
      <3>2. CASE l = i
        <4>1. m # i /\ e.signal[r][m] = d.signal[r][m]
          BY <3>2, <2>4, <1>1, <1>3
        <4>2. d.signal[r][i].status = "resumed"
          BY <3>2, <4>1, <2>4, <2>1, <1>1, <1>3, SMTT(60) DEF InOrder
        <4> QED
          BY <4>2, <1>1
      <3>3. CASE l # i /\ m # i
        BY <3>3, <2>1, <2>4, <1>3, SMTT(60) DEF InOrder
      <3> QED
        BY <3>1, <3>2, <3>3
    <2> QED
      BY <2>2, <2>3, <2>4 DEF InOrder
  <1>6. ASSUME NEW x \in Attempts PROVE Heard(e, x)
    <2>1. CASE x = k
      BY <2>1, <1>2 DEF Heard
    <2>2. CASE x # k /\ x[1] # r
      BY <2>2, <1>2, AttemptShape DEF Heard
    <2>3. CASE x # k /\ x[1] = r
      <3>1. Heard(d, x)
        BY <2>3
      <3> QED
        BY <3>1, <2>3, <1>2, <1>3 DEF Heard
    <2> QED
      BY <2>1, <2>2, <2>3
  <1> QED
    BY <1>4, <1>5, <1>6 DEF SignalsFit

(* A signal arrives: only pauses of its name may not have heard of it.     *)
LEMMA ReceiveSignals ==
    ASSUME NEW d, d \in DB, SignalsFit(d), NEW r \in Runs, d.run[r].status \in ActiveStatuses,
           Len(d.signal[r]) < MaxReceipts, NEW n, NEW e, Received(d, e, r, n)
    PROVE  /\ \A q \in Runs : InOrder(e, q)
           /\ \A x \in Attempts : ~(x[1] = r /\ e.pause[x].status = "open" /\ e.pause[x].name = n) => Heard(e, x)
  <1> DEFINE z == Len(d.signal[r]) + 1
  <1>1. /\ e.run = d.run /\ e.pause = d.pause
        /\ \A q \in Runs : q # r => e.signal[q] = d.signal[q]
        /\ Len(e.signal[r]) = Len(d.signal[r]) + 1
        /\ DOMAIN e.signal[r] = DOMAIN d.signal[r] \cup {z}
        /\ \A i \in DOMAIN d.signal[r] : e.signal[r][i] = d.signal[r][i] /\ i <= Len(d.signal[r])
        /\ e.signal[r][z].name = n
        /\ e.signal[r][z].status = "buffered"
    BY DEF Received
  <1>2. Len(d.signal[r]) \in Nat /\ DOMAIN d.signal[r] \subseteq Nat /\ z \in Nat
    BY Rows
  <1>3. ASSUME NEW q \in Runs, q # r PROVE InOrder(e, q)
    BY <1>1, <1>3 DEF SignalsFit, InOrder
  <1>4. InOrder(e, r)
    <2>1. InOrder(d, r)
      BY DEF SignalsFit
    <2>2. d.run[r].status \notin TerminalStatuses
      BY DEF ActiveStatuses, TerminalStatuses
    <2>3. Len(e.signal[r]) <= MaxReceipts
      BY <1>1, <1>2, BoundsAssumption
    <2>4. ASSUME NEW m \in DOMAIN e.signal[r]
          PROVE  LET a == e.signal[r][m]
                 IN  /\ a.status = "buffered" => e.run[r].status \notin TerminalStatuses
                     /\ a.status = "discarded" => e.run[r].status \in TerminalStatuses
                     /\ a.status = "resumed" => a.pause \in Attempts /\ e.pause[a.pause].status = "resumed"
      <3>1. CASE m = z
        BY <3>1, <2>2, <1>1
      <3>2. CASE m # z
        BY <3>2, <2>1, <2>4, <1>1, SMTT(60) DEF InOrder
      <3> QED
        BY <3>1, <3>2
    <2>5. ASSUME NEW l \in DOMAIN e.signal[r], NEW m \in DOMAIN e.signal[r], l < m,
                 e.signal[r][l].name = e.signal[r][m].name, e.signal[r][m].status = "resumed"
          PROVE  e.signal[r][l].status = "resumed" /\ e.signal[r][l].pause # e.signal[r][m].pause
      <3>1. m # z
        BY <2>5, <1>1
      <3>2. m \in DOMAIN d.signal[r] /\ l # z
        BY <3>1, <2>5, <1>1, <1>2
      <3> QED
        <4>1. l \in DOMAIN d.signal[r] /\ e.signal[r][l] = d.signal[r][l] /\ e.signal[r][m] = d.signal[r][m]
          BY <3>1, <3>2, <2>5, <1>1
        <4> QED
          BY <4>1, <3>2, <2>1, <2>5 DEF InOrder
    <2> QED
      BY <2>3, <2>4, <2>5 DEF InOrder
  <1>5. ASSUME NEW x \in Attempts, ~(x[1] = r /\ e.pause[x].status = "open" /\ e.pause[x].name = n)
        PROVE  Heard(e, x)
    <2>1. Heard(d, x) /\ x[1] \in Runs
      BY AttemptShape DEF SignalsFit
    <2>2. CASE x[1] # r
      BY <2>1, <2>2, <1>1 DEF Heard
    <2>3. CASE x[1] = r
      BY <2>1, <2>3, <1>1, <1>5 DEF Heard
    <2> QED
      BY <2>2, <2>3
  <1> QED
    BY <1>3, <1>4, <1>5

-----------------------------------------------------------------------------
(* What every statement leaves of the database before it.                  *)

(* Statements compose.                                                     *)
LEMMA OnwardTrans ==
    ASSUME NEW new, NEW d, NEW c, NEW e, Onward(d, c, new), Onward(c, e, new)
    PROVE  Onward(d, e, new)
  <1>1. ASSUME NEW k \in Attempts
        PROVE  /\ d.att[k] # "absent" => e.att[k] # "absent"
               /\ d.att[k] \notin {"absent", "pending"} => e.att[k] # "pending"
               /\ d.att[k] \notin {"absent", "pending", "running"} => e.att[k] # "running"
               /\ d.att[k] \in TerminalStatuses => e.att[k] = d.att[k]
               /\ e.att[k] = "waiting" => d.att[k] = "waiting" \/ k \in new
    BY DEF Onward
  <1>2. ASSUME NEW k \in Attempts
        PROVE  /\ d.pause[k].status \notin {"absent", "open"} => e.pause[k].status = d.pause[k].status
               /\ e.pause[k].status = "open" => d.pause[k].status = "open" \/ k \in new
    BY DEF Onward
  <1>3. ASSUME NEW j \in JobIds
        PROVE  /\ d.job[j].status # "absent" => e.job[j].status # "absent"
               /\ e.job[j].status = "running" => e.job[j] = d.job[j]
    BY DEF Onward
  <1>4. ASSUME NEW r \in Runs, d.run[r].status \in TerminalStatuses
        PROVE  e.run[r].status = d.run[r].status /\ e.run[r].step = d.run[r].step
    BY <1>4 DEF Onward
  <1> QED
    BY <1>1, <1>2, <1>3, <1>4 DEF Onward

(* So does doing nothing.                                                  *)
LEMMA OnwardSame == ASSUME NEW d, NEW new PROVE Onward(d, d, new)
  BY DEF Onward

(* Canceling jobs undoes nothing.                                          *)
LEMMA JobsCanceledOnward ==
    ASSUME NEW d, NEW e, NEW S, NEW new, JobsCanceled(d, e, S) PROVE Onward(d, e, new)
  BY DEF JobsCanceled, Onward, Job

(* Ending attempts that live undoes nothing.                               *)
LEMMA AttemptsEndedOnward ==
    ASSUME NEW d, NEW e, NEW S, NEW s \in TerminalStatuses, NEW new, AttemptsEnded(d, e, S, s)
    PROVE  Onward(d, e, new)
  BY DEF AttemptsEnded, Onward, ActiveStatuses, TerminalStatuses

(* Ending active runs undoes nothing.                                      *)
LEMMA RunsEndedOnward ==
    ASSUME NEW d, NEW e, NEW S, \A r \in S : d.run[r].status \in ActiveStatuses, NEW s, NEW new,
           RunsEnded(d, e, S, s)
    PROVE  Onward(d, e, new)
  BY DEF RunsEnded, Onward, ActiveStatuses, TerminalStatuses

(* Creating an attempt that did not exist undoes nothing.                  *)
LEMMA CreatedOnward ==
    ASSUME NEW d, NEW e, NEW n \in Attempts, d.att[n] = "absent",
           d.run[n[1]].status \in ActiveStatuses, NEW new, Created(d, e, n)
    PROVE  Onward(d, e, new)
  BY DEF Created, Onward, ActiveStatuses, TerminalStatuses, Job

(* Completing a live attempt undoes nothing.                               *)
LEMMA CompletedOnward ==
    ASSUME NEW d, NEW e, NEW k \in Attempts, d.att[k] \in ActiveStatuses, NEW new,
           AttemptSet(d, e, k, "completed")
    PROVE  Onward(d, e, new)
  BY DEF AttemptSet, Onward, ActiveStatuses, TerminalStatuses

(* Clearing the active attempt undoes nothing.                             *)
LEMMA InactivatedOnward ==
    ASSUME NEW d, NEW e, NEW r, NEW new, Inactivated(d, e, r)
    PROVE  Onward(d, e, new)
  BY DEF Inactivated, Onward

(* Resolving an open pause undoes nothing.                                 *)
LEMMA PauseSetOnward ==
    ASSUME NEW d, NEW e, NEW k \in Attempts, d.pause[k].status = "open",
           NEW s \in {"resumed", "timed_out"}, NEW new, PauseSet(d, e, k, s)
    PROVE  Onward(d, e, new)
  BY DEF PauseSet, Onward

(* Consuming a signal undoes nothing.                                      *)
LEMMA ConsumedOnward ==
    ASSUME NEW d, NEW e, NEW k, NEW i, NEW new, Consumed(d, e, k, i)
    PROVE  Onward(d, e, new)
  BY DEF Consumed, Onward

(* Accepting a signal undoes nothing.                                      *)
LEMMA ReceivedOnward ==
    ASSUME NEW d, NEW e, NEW r, NEW n, NEW new, Received(d, e, r, n)
    PROVE  Onward(d, e, new)
  BY DEF Received, Onward

(* A job's own transition undoes nothing.                                  *)
LEMMA JobSetOnward ==
    ASSUME NEW d, NEW e, NEW j, NEW row, row.status \notin {"absent", "running"}, NEW new, JobSet(d, e, j, row)
    PROVE  Onward(d, e, new)
  BY DEF JobSet, Onward

(* Only these two begin something, attempt k, or a run's first attempt.    *)
LEMMA TurnedOnward ==
    ASSUME NEW d, NEW e, NEW k \in Attempts, NEW s \in {"running", "waiting"}, Turned(d, e, k, s), NEW new,
           IF s = "running" THEN d.att[k] \in {"pending", "running"} ELSE d.att[k] = "running" /\ k \in new,
           d.run[k[1]].status \in ActiveStatuses,
           \A x \in Attempts : x # k => e.pause[x] = d.pause[x],
           e.pause[k] = d.pause[k] \/ (d.pause[k].status = "absent" /\ k \in new),
           e.job = d.job
    PROVE  Onward(d, e, new)
  BY DEF Turned, Onward, ActiveStatuses, TerminalStatuses

(* Starting a child that did not exist undoes nothing.                     *)
LEMMA SpawnedOnward ==
    ASSUME NEW d, NEW e, NEW k \in Attempts, NEW kid \in Kids, NEW n \in Attempts,
           Spawned(d, e, k, kid, n), d.att[n] = "absent", d.att[k] = "running",
           d.run[kid].status = "absent", d.run[k[1]].status \in ActiveStatuses, NEW new, k \in new
    PROVE  Onward(d, e, new)
  BY DEF Spawned, Onward, ActiveStatuses, TerminalStatuses, Job

-----------------------------------------------------------------------------
(* Statements and what moves runs on.                                      *)

(* The active attempt of an active run is an attempt of its plan.          *)
LEMMA ActiveShape ==
    ASSUME NEW d, Core(d), NEW r \in Runs, d.run[r].status \in ActiveStatuses
    PROVE  /\ Active(d, r) \in Attempts
           /\ Active(d, r)[1] = r
           /\ LockActiveAttempt(d, Active(d, r))
  <1>1. d.run[r].step \in Nat /\ d.run[r].active \in Nat /\ RunFits(d, r)
    BY Rows DEF Core, RunsFit
  <1>2. d.run[r].step \in 1..Steps[r] /\ d.run[r].active \in 1..MaxAttempts[r]
    BY <1>1, PlanShape DEF RunFits, ActiveStatuses
  <1> QED
    BY <1>2, AttemptShape DEF Active, LockActiveAttempt, IsActiveAttempt

(* The attempt lockActiveAttempt accepts is the run's active one.          *)
LEMMA LockedIsActive ==
    ASSUME NEW d, Core(d), NEW k \in Attempts, LockActiveAttempt(d, k)
    PROVE  k[1] \in Runs /\ d.run[k[1]].status \in ActiveStatuses /\ k = Active(d, k[1])
  <1>1. k[1] \in Runs /\ d.run[k[1]].status \in ActiveStatuses /\ IsActiveAttempt(d, k)
    BY AttemptShape DEF LockActiveAttempt
  <1>2. Active(d, k[1]) \in Attempts
    BY <1>1, ActiveShape
  <1> QED
    BY <1>1, <1>2, AttemptEq DEF Active, IsActiveAttempt

(* A run has no live attempt but its active one.                           *)
LEMMA OneLive ==
    ASSUME NEW d, Core(d), NEW k \in Attempts, LockActiveAttempt(d, k),
           NEW x \in Attempts, x[1] = k[1], d.att[x] \in ActiveStatuses
    PROVE  x = k
  BY LockedIsActive DEF Core, LiveFits

(* The rows of run r that move it on stay.                                 *)
Untouched(d, e, r) ==
    /\ e.run[r].status = d.run[r].status
    /\ e.run[r].step = d.run[r].step
    /\ e.run[r].active = d.run[r].active
    /\ \A k \in Attempts : k[1] = r =>
        /\ e.att[k] = d.att[k]
        /\ d.pause[k].status = "open" => e.pause[k].status = "open" /\ e.pause[k].timed = d.pause[k].timed
        /\ \A kind \in {"step", "timeout"} : HasJob(d, k, kind) => HasJob(e, k, kind)

(* Children stay with their parents; those that can no longer report to    *)
(* them are reporting.                                                     *)
KidsKeep(d, e, ended) == \A c \in Kids :
    /\ d.run[c].parent # NoAttempt => e.run[c].parent = d.run[c].parent
    /\ e.run[c].status \in {"completed", "failed"} /\ c \notin ended => d.run[c].status = e.run[c].status

(* A run that a transaction left alone still moves on.                     *)
LEMMA MovesFrame ==
    ASSUME NEW d, Core(d), NEW e, NEW r \in Runs, NEW ended, NEW ended2, ended \subseteq ended2,
           Moves(d, r, ended), Untouched(d, e, r), KidsKeep(d, e, ended2)
    PROVE  Moves(e, r, ended2)
  <1> SUFFICES ASSUME d.run[r].status \in ActiveStatuses PROVE Moves(e, r, ended2)
    BY DEF Moves, Untouched
  <1> DEFINE k == Active(d, r)
  <1>1. k \in Attempts /\ k[1] = r /\ Active(e, r) = k
    BY ActiveShape DEF Active, Untouched
  <1>2. /\ d.att[k] = d.run[r].status
        /\ d.att[k] \in {"pending", "running"} => HasJob(d, k, "step")
        /\ d.att[k] = "waiting" =>
            \/ OnPause(d, k)
            \/ \E c \in Kids : /\ d.run[c].parent = k
                               /\ d.run[c].status \notin {"completed", "failed"} \/ c \in ended
    BY DEF Moves
  <1> HIDE DEF k
  <1>3. /\ e.att[k] = d.att[k]
        /\ HasJob(d, k, "step") => HasJob(e, k, "step")
        /\ OnPause(d, k) => OnPause(e, k)
    BY <1>1 DEF Untouched, OnPause
  <1>4. ASSUME NEW c \in Kids, d.run[c].parent = k, d.run[c].status \notin {"completed", "failed"} \/ c \in ended
        PROVE  e.run[c].parent = k /\ (e.run[c].status \notin {"completed", "failed"} \/ c \in ended2)
    BY <1>1, <1>4, NoneAssumption DEF KidsKeep
  <1>5. e.att[k] = e.run[r].status
    BY <1>2, <1>3 DEF Untouched
  <1>6. e.att[k] = "waiting" =>
            \/ OnPause(e, k)
            \/ \E c \in Kids : /\ e.run[c].parent = k
                               /\ e.run[c].status \notin {"completed", "failed"} \/ c \in ended2
    BY <1>2, <1>3, <1>4
  <1> QED
    BY <1>1, <1>2, <1>3, <1>5, <1>6 DEF Moves

(* Statements that leave a run alone compose.                              *)
LEMMA UntouchedTrans ==
    ASSUME NEW d, NEW c, NEW e, NEW r, Untouched(d, c, r), Untouched(c, e, r)
    PROVE  Untouched(d, e, r)
  BY DEF Untouched

(* Each statement leaves the other runs alone.                             *)
LEMMA JobsCanceledUntouched ==
    ASSUME NEW d, NEW e, NEW S, JobsCanceled(d, e, S), NEW r, \A j \in S : j[1][1] # r
    PROVE  Untouched(d, e, r)
  <1>1. ASSUME NEW k \in Attempts, k[1] = r, NEW kind \in {"step", "timeout"}
        PROVE  e.job[<<k, kind>>] = d.job[<<k, kind>>]
    BY <1>1, JobShape DEF JobsCanceled
  <1>2. ASSUME NEW k \in Attempts, k[1] = r, NEW kind \in {"step", "timeout"}, HasJob(d, k, kind)
        PROVE  HasJob(e, k, kind)
    BY <1>1, <1>2 DEF HasJob, LiveJob
  <1> QED
    BY <1>2 DEF JobsCanceled, Untouched

(* Ending attempts touches only their runs.                                *)
LEMMA AttemptsEndedUntouched ==
    ASSUME NEW d, NEW e, NEW S, NEW s, AttemptsEnded(d, e, S, s), NEW r, \A k \in S : k[1] # r
    PROVE  Untouched(d, e, r)
  BY DEF AttemptsEnded, Untouched, HasJob, LiveJob

(* Ending runs touches no other.                                           *)
LEMMA RunsEndedUntouched ==
    ASSUME NEW d, NEW e, NEW S, NEW s, RunsEnded(d, e, S, s), NEW r \in Runs, r \notin S
    PROVE  Untouched(d, e, r)
  BY DEF RunsEnded, Untouched, HasJob, LiveJob

(* Creating an attempt touches only its run.                               *)
LEMMA CreatedUntouched ==
    ASSUME NEW d, NEW e, NEW n \in Attempts, Created(d, e, n), NEW r \in Runs, r # n[1]
    PROVE  Untouched(d, e, r)
  <1>1. ASSUME NEW k \in Attempts, k[1] = r, NEW kind \in {"step", "timeout"}, HasJob(d, k, kind)
        PROVE  HasJob(e, k, kind)
    <2>1. e.job[<<k, kind>>] = d.job[<<k, kind>>]
      BY <1>1, JobShape DEF Created
    <2> QED
      BY <2>1, <1>1 DEF HasJob, LiveJob
  <1> QED
    BY <1>1 DEF Created, Untouched

(* Changing an attempt touches only its run.                               *)
LEMMA AttemptSetUntouched ==
    ASSUME NEW d, NEW e, NEW k, NEW s, AttemptSet(d, e, k, s), NEW r, r # k[1]
    PROVE  Untouched(d, e, r)
  BY DEF AttemptSet, Untouched, HasJob, LiveJob

(* Clearing the active attempt touches only its run.                       *)
LEMMA InactivatedUntouched ==
    ASSUME NEW d, NEW e, NEW q, Inactivated(d, e, q), NEW r \in Runs, r # q
    PROVE  Untouched(d, e, r)
  BY DEF Inactivated, Untouched, HasJob, LiveJob

(* Resolving a pause touches only its run.                                 *)
LEMMA PauseSetUntouched ==
    ASSUME NEW d, NEW e, NEW k, NEW s, PauseSet(d, e, k, s), NEW r, r # k[1]
    PROVE  Untouched(d, e, r)
  BY DEF PauseSet, Untouched, HasJob, LiveJob

(* A new attempt of the active run is driven by its job.                   *)
LEMMA CreatedMoves ==
    ASSUME NEW d, NEW e, NEW n \in Attempts, Created(d, e, n), d.run[n[1]].status \in ActiveStatuses, NEW ended
    PROVE  Moves(e, n[1], ended)
  <1>1. /\ e.run[n[1]].step = n[2] /\ e.run[n[1]].active = n[3] /\ e.run[n[1]].status = "pending"
        /\ e.att[n] = "pending" /\ e.job[<<n, "step">>] = Job("pending") /\ n[1] \in Runs
    BY AttemptShape, JobShape DEF Created
  <1>2. e \in DB /\ n[2] \in 1..Steps[n[1]] /\ n[3] \in 1..MaxAttempts[n[1]]
    BY AttemptShape, PlanShape DEF Created
  <1>3. Active(e, n[1]) = n
    <2>1. Active(e, n[1]) = <<n[1], n[2], n[3]>>
      BY <1>1 DEF Active
    <2>2. <<n[1], n[2], n[3]>> \in Attempts
      BY <1>1, <1>2, AttemptShape
    <2> QED
      BY <2>1, <2>2, AttemptEq
  <1>4. HasJob(e, n, "step")
    BY <1>1 DEF HasJob, LiveJob, Job
  <1> QED
    BY <1>1, <1>3, <1>4 DEF Moves

-----------------------------------------------------------------------------
(* The methods.                                                            *)

(* A run that ended and that no active attempt waits for needs no report.  *)
LEMMA Reported ==
    ASSUME NEW d, NEW ended, Good(d, ended),
           \A c \in ended \cap Kids :
                d.run[Root].status \in ActiveStatuses => d.run[c].parent # Active(d, Root)
    PROVE  Good(d, {})
  <1>1. ASSUME NEW q \in Runs, d.run[q].status \in ActiveStatuses,
               NEW c \in Kids \cap ended, d.run[c].parent = Active(d, q)
        PROVE  FALSE
    <2>1. Active(d, q) \in Attempts /\ Active(d, q)[1] = q
      BY <1>1, ActiveShape DEF Good
    <2>2. d.run[c].parent[1] = Root
      BY <1>1, <2>1, NoneAssumption DEF Good, Core, LinksFit
    <2> QED
      BY <1>1, <2>1, <2>2
  <1>2. ASSUME NEW q \in Runs PROVE Moves(d, q, {})
    <2>1. Moves(d, q, ended)
      BY DEF Good
    <2> QED
      BY <2>1, <1>1 DEF Moves
  <1> QED
    BY <1>2 DEF Good

(* Runs that have yet to report help to move others on.                    *)
LEMMA GoodMore ==
    ASSUME NEW d, NEW ended, Good(d, {}) PROVE Good(d, ended)
  BY DEF Good, Moves

(* completeAttempt and advance.                                            *)
LEMMA CompleteAttemptGood ==
    ASSUME NEW d, NEW k \in Attempts, Stage(d, k[1], {}), LockActiveAttempt(d, k),
           d.att[k] \in ActiveStatuses, d.pause[k].status # "open", NEW new
    PROVE  LET e == CompleteAttempt(d, k)
           IN  /\ Good(e, {k[1]})
               /\ e.run[k[1]].status \notin TerminalStatuses => Good(e, {})
               /\ Onward(d, e, new)
               /\ e.att[k] = "completed"
  <1> DEFINE r == k[1]
             c == SetAttempt(d, k, "completed")
             e == CompleteAttempt(d, k)
  <1>1. /\ d \in DB /\ Core(d) /\ SignalsFit(d) /\ r \in Runs
        /\ d.run[r].status \in ActiveStatuses /\ d.run[r].step = k[2]
        /\ \A q \in Runs \ {r} : Moves(d, q, {})
    BY AttemptShape DEF Stage, Core, LockActiveAttempt, IsActiveAttempt
  <1>2. AttemptSet(d, c, k, "completed") /\ Onward(d, c, new)
    <2>1. "completed" \in AttStatus
      BY DEF AttStatus, TerminalStatuses
    <2>2. AttemptSet(d, c, k, "completed")
      BY <2>1, <1>1, AttRows
    <2> QED
      BY <2>2, CompletedOnward
  <1>3. c \in DB /\ c.run = d.run /\ c.signal = d.signal /\ c.pause = d.pause /\ c.att[k] = "completed"
    BY <1>2 DEF AttemptSet
  <1>4. e = IF k[2] < Steps[r] THEN CreateStepAttempt(c, <<r, k[2] + 1, 1>>)
            ELSE EndRuns(SetInactive(c, r), {r}, "completed")
    <2>1. e = Advance(c, k)
      BY DEF CompleteAttempt, SetAttempt
    <2>2. c.run[r].status \in ActiveStatuses /\ c.run[r].step = k[2]
      BY <1>1, <1>3
    <2> HIDE DEF c, e
    <2> QED
      BY <2>1, <2>2 DEF Advance, SetInactive
  <1> HIDE DEF c, e
  <1>5. SignalsFit(c)
    BY <1>1, <1>3, SignalsFrame
  <1>6. CASE k[2] < Steps[r]
    <2> DEFINE n == <<r, k[2] + 1, 1>>
    <2>1. n \in Attempts /\ n[1] = r /\ n[2] = k[2] + 1 /\ n[3] = 1 /\ n # k
      BY <1>1, <1>6, AttemptShape, PlanShape
    <2> HIDE DEF n
    <2>2. Created(c, e, n)
      BY <1>3, <1>4, <1>6, <2>1, CreateRows DEF n
    <2>3. NextStepped(d, e, k, n)
      BY <1>2, <2>2 DEF NextStepped
    <2>4. Core(e) /\ d.att[n] = "absent"
      BY <1>1, <1>6, <2>1, <2>3, NextStepCore
    <2>5. c.att[n] = "absent" /\ c.run[n[1]].status \in ActiveStatuses
      BY <1>1, <1>2, <1>3, <2>1, <2>4 DEF AttemptSet
    <2>6. Onward(c, e, new)
      BY <2>1, <2>2, <2>5, CreatedOnward
    <2>7. e.att[k] = "completed"
      BY <1>3, <2>1, <2>2 DEF Created
    <2>8. \A q \in Runs : /\ e.run[q].status \in TerminalStatuses <=> d.run[q].status \in TerminalStatuses
                          /\ e.run[q].parent = d.run[q].parent
                          /\ q # r => e.run[q] = d.run[q]
      BY <1>1, <1>3, <2>1, <2>2 DEF Created, ActiveStatuses, TerminalStatuses
    <2>9. SignalsFit(e)
      BY <1>5, <1>3, <2>2, <2>8, SignalsFrame DEF Created
    <2>10. KidsKeep(d, e, {})
      BY <1>1, <2>8, RunsShape DEF KidsKeep, ActiveStatuses, TerminalStatuses
    <2>11. ASSUME NEW q \in Runs \ {r} PROVE Moves(e, q, {})
      <3>1. Untouched(d, c, q) /\ Untouched(c, e, q)
        BY <1>2, <2>1, <2>2, AttemptSetUntouched, CreatedUntouched
      <3>2. Untouched(d, e, q)
        BY <3>1, UntouchedTrans
      <3> QED
        BY <1>1, <2>10, <3>2, MovesFrame
    <2>12. Moves(e, r, {})
      BY <2>1, <2>2, <2>5, CreatedMoves
    <2>13. Good(e, {})
      BY <2>4, <2>9, <2>11, <2>12 DEF Good
    <2>14. Onward(d, e, new)
      BY <1>2, <2>6, OnwardTrans
    <2> QED
      BY <2>7, <2>13, <2>14, GoodMore DEF e
  <1>7. CASE ~(k[2] < Steps[r])
    <2> DEFINE b == SetInactive(c, r)
    <2>1. Inactivated(c, b, r)
      BY <1>1, <1>3, InactiveRows
    <2>2. e = EndRuns(b, {r}, "completed")
      BY <1>4, <1>7
    <2> HIDE DEF b
    <2>3. b \in DB /\ "completed" \in TerminalStatuses
      BY <2>1 DEF Inactivated, TerminalStatuses
    <2>4. RunsEnded(b, e, {r}, "completed")
      BY <2>2, <2>3, EndRunsRows
    <2>5. Core(e)
      <3>1. Finished(d, e, k)
        BY <1>2, <2>1, <2>4 DEF Finished
      <3> QED
        BY <1>1, <1>7, <3>1, LastStepCore
    <2>6. Onward(c, b, new)
      BY <2>1, InactivatedOnward
    <2>7. Onward(b, e, new)
      <3>1. b.run[r].status \in ActiveStatuses
        BY <1>1, <1>3, <2>1 DEF Inactivated
      <3> QED
        BY <2>4, <3>1, RunsEndedOnward
    <2>8. Onward(d, e, new)
      BY <1>2, <2>6, <2>7, OnwardTrans
    <2>9. SignalsFit(b)
      BY <1>5, <2>1, SignalsFrame DEF Inactivated
    <2>10. SignalsFit(e)
      BY <2>3, <2>4, <2>9, RunsEndedSignals
    <2>11. \A q \in Runs : /\ e.run[q].parent = d.run[q].parent
                           /\ e.run[q].status = IF q = r THEN "completed" ELSE d.run[q].status
      BY <1>3, <2>1, <2>4 DEF Inactivated, RunsEnded
    <2>12. KidsKeep(d, e, {r})
      BY <2>11, RunsShape DEF KidsKeep
    <2>13. ASSUME NEW q \in Runs \ {r} PROVE Moves(e, q, {r})
      <3>1. Untouched(d, c, q) /\ Untouched(c, b, q) /\ Untouched(b, e, q)
        BY <1>2, <2>1, <2>4, AttemptSetUntouched, InactivatedUntouched, RunsEndedUntouched
      <3>2. Untouched(d, e, q)
        BY <3>1, UntouchedTrans
      <3> QED
        BY <1>1, <2>12, <3>2, MovesFrame
    <2>14. Moves(e, r, {r}) /\ e.run[r].status \in TerminalStatuses
      BY <1>1, <2>3, <2>11 DEF Moves, ActiveStatuses, TerminalStatuses
    <2>15. Good(e, {r})
      BY <2>5, <2>10, <2>13, <2>14 DEF Good
    <2>16. e.att[k] = "completed"
      BY <1>3, <2>1, <2>4 DEF Inactivated, RunsEnded
    <2> QED
      BY <2>8, <2>14, <2>15, <2>16 DEF e
  <1> QED
    BY <1>6, <1>7

(* cleanupStepScope, with the attempt marked failed.                       *)
LEMMA FailAttemptStage ==
    ASSUME NEW d, NEW k \in Attempts, Stage(d, k[1], {}), LockActiveAttempt(d, k),
           NEW keep, NEW new
    PROVE  LET e == FailAttempt(d, k, keep)
           IN  /\ Stage(e, k[1], {})
               /\ LockActiveAttempt(e, k)
               /\ \A x \in Attempts : x[1] = k[1] => e.att[x] \notin ActiveStatuses
               /\ Onward(d, e, new)
  <1> DEFINE b == EndAttempts(d, {k}, "failed")
             J == {j \in JobIds : j[1] = k} \ keep
             e == CancelJobs(b, J)
  <1>1. /\ d \in DB /\ Core(d) /\ SignalsFit(d) /\ k[1] \in Runs /\ "failed" \in TerminalStatuses
        /\ \A q \in Runs \ {k[1]} : Moves(d, q, {})
    BY AttemptShape DEF Stage, Core, TerminalStatuses
  <1>2. AttemptsEnded(d, b, {k}, "failed")
    BY <1>1, EndAttemptsRows
  <1>3. e = FailAttempt(d, k, keep)
    BY DEF FailAttempt
  <1> HIDE DEF b
  <1>4. b \in DB
    BY <1>2 DEF AttemptsEnded
  <1>5. JobsCanceled(b, e, J)
    BY <1>4, CancelJobsRows
  <1>12. \A j \in J : j[1][1] = k[1]
    OBVIOUS
  <1> HIDE DEF e, J
  <1>6. Core(e)
    <2>1. Core(b)
      BY <1>1, <1>2, EndAttemptsCore
    <2> QED
      BY <2>1, <1>5, CancelJobsCore
  <1>7. SignalsFit(e)
    <2>1. SignalsFit(b)
      BY <1>1, <1>2, SignalsFrame DEF AttemptsEnded
    <2> QED
      BY <2>1, <1>5, SignalsFrame DEF JobsCanceled
  <1>8. e.run = d.run
    BY <1>2, <1>5 DEF AttemptsEnded, JobsCanceled
  <1>9. ASSUME NEW q \in Runs \ {k[1]} PROVE Moves(e, q, {})
    <2>1. Untouched(d, b, q) /\ Untouched(b, e, q)
      BY <1>2, <1>5, <1>12, AttemptsEndedUntouched, JobsCanceledUntouched
    <2>2. Untouched(d, e, q)
      BY <2>1, UntouchedTrans
    <2>3. KidsKeep(d, e, {})
      BY <1>8 DEF KidsKeep
    <2> QED
      BY <1>1, <2>2, <2>3, MovesFrame
  <1>10. ASSUME NEW x \in Attempts, x[1] = k[1], e.att[x] \in ActiveStatuses PROVE FALSE
    <2>1. e.att[x] = IF x = k /\ d.att[x] \in ActiveStatuses THEN "failed" ELSE d.att[x]
      BY <1>2, <1>5 DEF AttemptsEnded, JobsCanceled
    <2>2. x # k /\ d.att[x] \in ActiveStatuses
      BY <2>1, <1>10 DEF ActiveStatuses
    <2> QED
      BY <2>2, <1>1, <1>10, OneLive
  <1>11. Onward(d, e, new)
    <2>1. Onward(d, b, new) /\ Onward(b, e, new)
      BY <1>1, <1>2, <1>5, AttemptsEndedOnward, JobsCanceledOnward
    <2> QED
      BY <2>1, OnwardTrans
  <1>13. Stage(e, k[1], {}) /\ LockActiveAttempt(e, k)
    BY <1>6, <1>7, <1>8, <1>9 DEF Stage, LockActiveAttempt, IsActiveAttempt
  <1> QED
    BY <1>3, <1>10, <1>11, <1>13

(* Runs that end by failure or cancellation, with all their attempts.      *)
LEMMA RunsEndGood ==
    ASSUME NEW d, Core(d), SignalsFit(d), NEW S \in SUBSET Runs,
           \A r \in S : d.run[r].status \in ActiveStatuses,
           \A q \in Runs \ S : Moves(d, q, {}),
           NEW s \in {"failed", "canceled"}, NEW J, J \subseteq JobsOf(S), NEW new
    PROVE  LET e == EndRuns(CancelJobs(EndAttempts(d, AttemptsOf(S), s), J), S, s)
           IN  /\ Good(e, IF s = "failed" THEN S ELSE {})
               /\ \A r \in Runs : /\ e.run[r].status = IF r \in S THEN s ELSE d.run[r].status
                                  /\ e.run[r].step = d.run[r].step
                                  /\ e.run[r].active = d.run[r].active
                                  /\ e.run[r].parent = d.run[r].parent
               /\ Onward(d, e, new)
  <1> DEFINE A == AttemptsOf(S)
             b == EndAttempts(d, A, s)
             c == CancelJobs(b, J)
             e == EndRuns(c, S, s)
             ended == IF s = "failed" THEN S ELSE {}
  <1>1. d \in DB /\ s \in TerminalStatuses
    BY DEF Core, TerminalStatuses
  <1>2. AttemptsEnded(d, b, A, s)
    BY <1>1, EndAttemptsRows
  <1>3. b \in DB
    BY <1>2 DEF AttemptsEnded
  <1>4. JobsCanceled(b, c, J)
    BY <1>3, CancelJobsRows
  <1>5. c \in DB
    BY <1>4 DEF JobsCanceled
  <1>6. RunsEnded(c, e, S, s)
    BY <1>1, <1>5, EndRunsRows
  <1>7. /\ \A k \in A : k[1] \in S
        /\ \A k \in Attempts : k[1] \in S => k \in A
        /\ \A j \in J : j[1][1] \in S
    BY DEF AttemptsOf, JobsOf
  <1> HIDE DEF A, b, c, e
  <1>8. /\ \A k \in Attempts : c.att[k] = IF k \in A /\ d.att[k] \in ActiveStatuses THEN s ELSE d.att[k]
        /\ c.run = d.run
    BY <1>2, <1>4 DEF AttemptsEnded, JobsCanceled
  <1>9. Core(c)
    <2>1. Core(b)
      BY <1>2, EndAttemptsCore
    <2> QED
      BY <2>1, <1>4, CancelJobsCore
  <1>10. Core(e)
    <2>1. \A k \in Attempts : k[1] \in S => c.att[k] \notin ActiveStatuses
      BY <1>7, <1>8 DEF ActiveStatuses
    <2>2. \A r \in S : c.run[r].status \in ActiveStatuses
      BY <1>8
    <2> QED
      BY <2>1, <2>2, <1>6, <1>9, EndRunsCore
  <1>11. SignalsFit(e)
    <2>1. SignalsFit(b)
      BY <1>2, SignalsFrame DEF AttemptsEnded
    <2>2. SignalsFit(c)
      BY <2>1, <1>4, SignalsFrame DEF JobsCanceled
    <2> QED
      BY <2>2, <1>1, <1>5, <1>6, RunsEndedSignals
  <1>12. \A r \in Runs : /\ e.run[r].status = IF r \in S THEN s ELSE d.run[r].status
                         /\ e.run[r].step = d.run[r].step
                         /\ e.run[r].active = d.run[r].active
                         /\ e.run[r].parent = d.run[r].parent
    BY <1>6, <1>8 DEF RunsEnded
  <1>13. ASSUME NEW q \in Runs \ S PROVE Moves(e, q, ended)
    <2>1. Untouched(d, b, q) /\ Untouched(b, c, q) /\ Untouched(c, e, q)
      BY <1>2, <1>4, <1>6, <1>7, <1>13, AttemptsEndedUntouched, JobsCanceledUntouched, RunsEndedUntouched
    <2>2. Untouched(d, e, q)
      BY <2>1, UntouchedTrans
    <2>3. KidsKeep(d, e, ended)
      BY <1>12, RunsShape DEF KidsKeep
    <2> HIDE DEF ended
    <2> QED
      BY <1>13, <2>2, <2>3, MovesFrame
  <1>14. ASSUME NEW q \in S PROVE Moves(e, q, ended)
    BY <1>1, <1>12, <1>14 DEF Moves, ActiveStatuses, TerminalStatuses
  <1>15. Good(e, ended)
    BY <1>10, <1>11, <1>13, <1>14 DEF Good
  <1>16. Onward(d, e, new)
    <2>1. Onward(d, b, new) /\ Onward(b, c, new)
      BY <1>1, <1>2, <1>4, AttemptsEndedOnward, JobsCanceledOnward
    <2>2. Onward(c, e, new)
      BY <1>6, <1>8, RunsEndedOnward
    <2> QED
      BY <2>1, <2>2, OnwardTrans
  <1> QED
    BY <1>12, <1>15, <1>16 DEF e, c, b, A

(* failRun, for runs that are active.                                      *)
LEMMA FailRunsGood ==
    ASSUME NEW d, Core(d), SignalsFit(d), NEW S \in SUBSET Runs,
           \A r \in S : d.run[r].status \in ActiveStatuses,
           \A q \in Runs \ S : Moves(d, q, {}), NEW keep, NEW new
    PROVE  LET e == FailRuns(d, S, keep)
           IN  /\ Good(e, S)
               /\ \A r \in Runs : /\ e.run[r].status = IF r \in S THEN "failed" ELSE d.run[r].status
                                  /\ e.run[r].step = d.run[r].step
                                  /\ e.run[r].active = d.run[r].active
                                  /\ e.run[r].parent = d.run[r].parent
               /\ Onward(d, e, new)
  <1> DEFINE J == JobsOf(S) \ keep
             f == EndRuns(CancelJobs(EndAttempts(d, AttemptsOf(S), "failed"), J), S, "failed")
  <1>1. {r \in S : d.run[r].status \in ActiveStatuses} = S
    OBVIOUS
  <1>2. FailRuns(d, S, keep) = f
    BY <1>1 DEF FailRuns, CleanupRunScope
  <1>3. J \subseteq JobsOf(S)
    OBVIOUS
  <1> HIDE DEF J
  <1>5. "failed" \in {"failed", "canceled"} /\ Core(d) /\ SignalsFit(d) /\ S \in SUBSET Runs
    OBVIOUS
  <1>4. /\ Good(f, IF "failed" = "failed" THEN S ELSE {})
        /\ \A r \in Runs : /\ f.run[r].status = IF r \in S THEN "failed" ELSE d.run[r].status
                           /\ f.run[r].step = d.run[r].step
                           /\ f.run[r].active = d.run[r].active
                           /\ f.run[r].parent = d.run[r].parent
        /\ Onward(d, f, new)
    BY <1>3, <1>5, RunsEndGood, ZenonT(60)
  <1> QED
    BY <1>2, <1>4

(* What becomes of a run whose active attempt failed.                      *)
LEMMA RetryOrFailGood ==
    ASSUME NEW d, NEW k \in Attempts, Stage(d, k[1], {}), LockActiveAttempt(d, k),
           \A x \in Attempts : x[1] = k[1] => d.att[x] \notin ActiveStatuses,
           NEW keep, NEW retry \in BOOLEAN, NEW new
    PROVE  LET e == RetryOrFail(d, k, keep, retry)
           IN  /\ Good(e, {k[1]})
               /\ e.run[k[1]].status \notin TerminalStatuses => Good(e, {})
               /\ Onward(d, e, new)
  <1> DEFINE r == k[1]
             e == RetryOrFail(d, k, keep, retry)
  <1>1. /\ d \in DB /\ Core(d) /\ SignalsFit(d) /\ r \in Runs
        /\ d.run[r].status \in ActiveStatuses
        /\ \A q \in Runs \ {r} : Moves(d, q, {})
    BY AttemptShape DEF Stage, Core, LockActiveAttempt
  <1>2. CASE retry /\ k[3] < MaxAttempts[r]
    <2> DEFINE n == <<r, k[2], k[3] + 1>>
    <2>1. n \in Attempts /\ n[1] = r /\ n[2] = k[2] /\ n[3] = k[3] + 1
      BY <1>1, <1>2, AttemptShape, PlanShape
    <2>2. e = CreateStepAttempt(d, n)
      BY <1>2 DEF RetryOrFail
    <2> HIDE DEF n, e
    <2>3. Created(d, e, n)
      BY <1>1, <2>1, <2>2, CreateRows
    <2>4. Core(e) /\ d.att[n] = "absent"
      BY <1>1, <1>2, <2>1, <2>3, RetryCore
    <2>5. d.run[n[1]].status \in ActiveStatuses
      BY <1>1, <2>1
    <2>6. Onward(d, e, new)
      BY <2>1, <2>3, <2>4, <2>5, CreatedOnward
    <2>8. \A q \in Runs : /\ e.run[q].status \in TerminalStatuses <=> d.run[q].status \in TerminalStatuses
                          /\ e.run[q].parent = d.run[q].parent
                          /\ q # r => e.run[q] = d.run[q]
      BY <1>1, <2>1, <2>3 DEF Created, ActiveStatuses, TerminalStatuses
    <2>9. SignalsFit(e)
      BY <1>1, <2>3, <2>8, SignalsFrame DEF Created
    <2>10. KidsKeep(d, e, {})
      BY <1>1, <2>8, RunsShape DEF KidsKeep, ActiveStatuses, TerminalStatuses
    <2>11. ASSUME NEW q \in Runs \ {r} PROVE Moves(e, q, {})
      <3>1. Untouched(d, e, q)
        BY <2>1, <2>3, CreatedUntouched
      <3> QED
        BY <1>1, <2>10, <3>1, MovesFrame
    <2>12. Moves(e, r, {})
      BY <2>1, <2>3, <2>5, CreatedMoves
    <2>13. Good(e, {})
      BY <2>4, <2>9, <2>11, <2>12 DEF Good
    <2> QED
      BY <2>6, <2>13, GoodMore DEF e
  <1>3. CASE ~(retry /\ k[3] < MaxAttempts[r])
    <2>1. e = FailRuns(d, {r}, keep)
      BY <1>3 DEF RetryOrFail
    <2> HIDE DEF e
    <2> DEFINE S == {r}
    <2>2. /\ S \in SUBSET Runs /\ r \in S /\ e = FailRuns(d, S, keep)
          /\ \A q \in S : d.run[q].status \in ActiveStatuses
          /\ \A q \in Runs \ S : Moves(d, q, {})
      BY <1>1, <2>1
    <2> HIDE DEF S
    <2>3. Good(e, S) /\ e.run[r].status = "failed" /\ Onward(d, e, new)
      BY <1>1, <2>2, FailRunsGood, SMTT(60)
    <2> QED
      BY <2>3 DEF e, S, TerminalStatuses
  <1> QED
    BY <1>2, <1>3

(* finishParent: whoever waited for run c has been told.                   *)
LEMMA FinishParentGood ==
    ASSUME NEW d, NEW c \in Runs, Good(d, {c}), d.run[c].status \in TerminalStatuses, NEW new
    PROVE  Good(FinishParent(d, c), {}) /\ Onward(d, FinishParent(d, c), new)
  <1> DEFINE k == d.run[c].parent
             e == FinishParent(d, c)
  <1>1. Core(d) /\ d \in DB /\ SignalsFit(d) /\ k \in Attempts \cup {NoAttempt}
    BY Rows DEF Good, Core
  <1>2. CASE k = NoAttempt \/ ~LockActiveAttempt(d, k) \/ d.att[k] # "waiting"
    <2>1. e = d
      BY <1>2 DEF FinishParent
    <2>2. ASSUME d.run[Root].status \in ActiveStatuses, d.run[c].parent = Active(d, Root)
          PROVE  Good(d, {})
      <3>1. Active(d, Root) \in Attempts /\ LockActiveAttempt(d, Active(d, Root))
        BY <2>2, <1>1, ActiveShape, RunsShape
      <3>2. d.att[k] # "waiting"
        BY <1>2, <2>2, <3>1, NoneAssumption
      <3>3. \A q \in Runs : Moves(d, q, {c})
        BY DEF Good
      <3>4. ASSUME NEW q \in Runs, d.run[q].status \in ActiveStatuses, k = Active(d, q)
            PROVE  d.att[Active(d, q)] # "waiting"
        BY <3>2, <3>4
      <3>5. ASSUME NEW q \in Runs PROVE Moves(d, q, {})
        BY <3>3, <3>4 DEF Moves
      <3> QED
        BY <3>5 DEF Good
    <2>3. Good(d, {})
      BY <2>2, Reported
    <2> QED
      BY <2>1, <2>3, OnwardSame
  <1>3. CASE k # NoAttempt /\ LockActiveAttempt(d, k) /\ d.att[k] = "waiting"
    <2>1. /\ k \in Attempts /\ c # Root
          /\ k[1] = Root /\ d.pause[k].status = "absent"
      BY <1>1, <1>3, RunsShape DEF Core, LinksFit
    <2>2. Stage(d, k[1], {})
      <3>1. ASSUME NEW q \in Runs \ {Root} PROVE Moves(d, q, {})
        <4>1. Moves(d, q, {c})
          BY DEF Good
        <4>2. d.run[q].status \in ActiveStatuses => Active(d, q) # k
          BY <2>1 DEF Active
        <4> QED
          BY <4>1, <4>2 DEF Moves
      <3> QED
        BY <1>1, <2>1, <3>1 DEF Stage
    <2>3. Root \notin Kids /\ d.att[k] \in ActiveStatuses /\ d.pause[k].status # "open"
      BY <1>3, <2>1, RunsShape DEF ActiveStatuses
    <2>4. CASE d.run[c].status = "completed"
      <3>1. e = CompleteAttempt(d, k)
        BY <1>3, <2>4 DEF FinishParent
      <3> HIDE DEF k, e
      <3>2. Good(e, {Root}) /\ Onward(d, e, new)
        BY <1>3, <2>1, <2>2, <2>3, <3>1, CompleteAttemptGood
      <3>3. Good(e, {})
        BY <2>3, <3>2, Reported
      <3> QED
        BY <3>2, <3>3 DEF e
    <2>5. CASE d.run[c].status # "completed"
      <3> DEFINE b == FailAttempt(d, k, {})
      <3>1. e = RetryOrFail(b, k, {}, TRUE)
        BY <1>3, <2>5 DEF FinishParent
      <3> HIDE DEF k, e
      <3>2. /\ Stage(b, k[1], {})
            /\ LockActiveAttempt(b, k)
            /\ \A x \in Attempts : x[1] = k[1] => b.att[x] \notin ActiveStatuses
            /\ Onward(d, b, new)
        BY <1>3, <2>1, <2>2, FailAttemptStage
      <3> HIDE DEF b
      <3>3. Good(e, {Root}) /\ Onward(b, e, new)
        BY <2>1, <3>1, <3>2, RetryOrFailGood
      <3>4. Good(e, {}) /\ Onward(d, e, new)
        BY <2>3, <3>2, <3>3, Reported, OnwardTrans
      <3> QED
        BY <3>4 DEF e
    <2> QED
      BY <2>4, <2>5
  <1> QED
    BY <1>2, <1>3

(* A transaction reports the run it ended.                                 *)
LEMMA ReportGood ==
    ASSUME NEW d, NEW e, NEW r \in Runs, d.run[r].status \in ActiveStatuses,
           Good(e, {r}), e.run[r].status \notin TerminalStatuses => Good(e, {}), NEW new
    PROVE  Good(Report(d, e, r), {}) /\ Onward(e, Report(d, e, r), new)
  <1>1. CASE e.run[r].status \in TerminalStatuses
    <2>1. Report(d, e, r) = FinishParent(e, r)
      BY <1>1 DEF Report
    <2> QED
      BY <1>1, <2>1, FinishParentGood
  <1>2. CASE e.run[r].status \notin TerminalStatuses
    <2>1. Report(d, e, r) = e
      BY <1>2 DEF Report
    <2> QED
      BY <1>2, <2>1, OnwardSame
  <1> QED
    BY <1>1, <1>2

(* completeStep.                                                           *)
LEMMA CompleteStepGood ==
    ASSUME NEW d, NEW k \in Attempts, Stage(d, k[1], {}), LockActiveAttempt(d, k),
           d.att[k] \in ActiveStatuses, d.pause[k].status # "open", NEW new
    PROVE  LET e == CompleteStep(d, k)
           IN  Good(e, {}) /\ Onward(d, e, new) /\ e.att[k] \in TerminalStatuses
  <1> DEFINE c == CompleteAttempt(d, k)
             e == Report(d, c, k[1])
  <1>1. k[1] \in Runs /\ d.run[k[1]].status \in ActiveStatuses
    BY AttemptShape DEF LockActiveAttempt
  <1>2. /\ Good(c, {k[1]}) /\ Onward(d, c, new) /\ c.att[k] = "completed"
        /\ c.run[k[1]].status \notin TerminalStatuses => Good(c, {})
    BY CompleteAttemptGood
  <1> HIDE DEF c
  <1>3. Good(e, {}) /\ Onward(c, e, new)
    BY <1>1, <1>2, ReportGood
  <1> HIDE DEF e
  <1>4. Onward(d, e, new)
    BY <1>2, <1>3, OnwardTrans
  <1>5. e.att[k] = "completed"
    BY <1>2, <1>3 DEF Onward, TerminalStatuses
  <1> QED
    BY <1>3, <1>4, <1>5 DEF e, c, CompleteStep, TerminalStatuses

(* failStep.                                                               *)
LEMMA FailStepGood ==
    ASSUME NEW d, NEW k \in Attempts, Good(d, {}), LockActiveAttempt(d, k),
           d.att[k] \in ActiveStatuses, NEW keep, NEW retry \in BOOLEAN, NEW new
    PROVE  LET e == FailStep(d, k, keep, retry)
           IN  Good(e, {}) /\ Onward(d, e, new) /\ e.att[k] \in TerminalStatuses
  <1> DEFINE b == FailAttempt(d, k, keep)
             c == RetryOrFail(b, k, keep, retry)
             e == Report(d, c, k[1])
  <1>1. k[1] \in Runs /\ d.run[k[1]].status \in ActiveStatuses /\ Stage(d, k[1], {})
    BY AttemptShape DEF LockActiveAttempt, Good, Stage
  <1>2. /\ Stage(b, k[1], {}) /\ LockActiveAttempt(b, k) /\ Onward(d, b, new)
        /\ \A x \in Attempts : x[1] = k[1] => b.att[x] \notin ActiveStatuses
    BY <1>1, FailAttemptStage
  <1> HIDE DEF b
  <1>3. /\ Good(c, {k[1]}) /\ Onward(b, c, new)
        /\ c.run[k[1]].status \notin TerminalStatuses => Good(c, {})
    BY <1>2, RetryOrFailGood
  <1> HIDE DEF c
  <1>4. Good(e, {}) /\ Onward(c, e, new)
    BY <1>1, <1>3, ReportGood
  <1> HIDE DEF e
  <1>5. b.att[k] \in TerminalStatuses
    <2>1. b.att[k] \in AttStatus /\ b.att[k] # "absent" /\ b.att[k] \notin ActiveStatuses
      BY <1>2, Rows DEF Stage, Core, Onward, ActiveStatuses
    <2> QED
      BY <2>1 DEF AttStatus
  <1>6. Onward(b, e, new)
    BY <1>3, <1>4, OnwardTrans
  <1>7. Onward(d, e, new) /\ e.att[k] \in TerminalStatuses
    BY <1>2, <1>5, <1>6, OnwardTrans DEF Onward
  <1> QED
    BY <1>4, <1>7 DEF e, c, b, FailStep

(* resolvePause, once the pause's row is settled.                          *)
LEMMA ResolvePauseGood ==
    ASSUME NEW d, Core(d), NEW k \in Attempts, d.pause[k].status = "open",
           NEW s \in {"resumed", "timed_out"}, SignalsFit(SetPause(d, k, s)),
           \A q \in Runs \ {k[1]} : Moves(d, q, {}), NEW new
    PROVE  LET e == ResolvePause(d, k, s)
           IN  Good(e, {}) /\ Onward(d, e, new) /\ e.pause[k].status = s
  <1> DEFINE c == SetPause(d, k, s)
             e == ResolvePause(d, k, s)
  <1>1. d \in DB /\ k[1] \in Runs
    BY AttemptShape DEF Core
  <1>2. d.att[k] = "waiting" /\ LockActiveAttempt(d, k)
    BY DEF Core, RowsFit, LiveFits, ActiveStatuses
  <1>3. PauseSet(d, c, k, s)
    BY <1>1, PauseRows
  <1>4. SignalsFit(c)
    OBVIOUS
  <1>5. e = IF LockActiveAttempt(c, k) /\ c.att[k] = "waiting" THEN CompleteStep(c, k) ELSE c
    BY DEF ResolvePause, SetPause
  <1> HIDE DEF c, e
  <1>6. /\ c.run = d.run /\ c.att = d.att /\ c.job = d.job /\ c \in DB /\ c.pause[k].status = s
        /\ \A x \in Attempts : x # k => c.pause[x].status = d.pause[x].status
    BY <1>3 DEF PauseSet
  <1>7. Core(c)
    <2>1. \A x \in Attempts : /\ c.pause[x].status = "absent" <=> d.pause[x].status = "absent"
                              /\ c.pause[x].status = "open" => d.pause[x].status = "open"
      BY <1>6
    <2> QED
      BY <1>6, <2>1, FrameCore
  <1>8. ASSUME NEW q \in Runs \ {k[1]} PROVE Moves(c, q, {})
    <2>1. Untouched(d, c, q)
      BY <1>3, PauseSetUntouched
    <2>2. KidsKeep(d, c, {})
      BY <1>6 DEF KidsKeep
    <2> QED
      BY <2>1, <2>2, MovesFrame
  <1>9. Stage(c, k[1], {})
    BY <1>4, <1>7, <1>8 DEF Stage
  <1>10. LockActiveAttempt(c, k) /\ c.att[k] = "waiting"
    BY <1>2, <1>6 DEF LockActiveAttempt, IsActiveAttempt
  <1>11. e = CompleteStep(c, k)
    BY <1>5, <1>10
  <1>12. Good(e, {}) /\ Onward(c, e, new)
    BY <1>6, <1>9, <1>10, <1>11, CompleteStepGood DEF ActiveStatuses
  <1>13. Onward(d, e, new)
    <2>1. Onward(d, c, new)
      BY <1>3, PauseSetOnward
    <2> QED
      BY <2>1, <1>12, OnwardTrans
  <1>14. e.pause[k].status = s
    BY <1>6, <1>12 DEF Onward
  <1> QED
    BY <1>12, <1>13, <1>14 DEF e

(* resolvePause on a database between two transactions.                    *)
LEMMA ClosePauseGood ==
    ASSUME NEW d, Good(d, {}), NEW k \in Attempts, d.pause[k].status = "open",
           NEW s \in {"resumed", "timed_out"}, NEW new
    PROVE  LET e == ResolvePause(d, k, s)
           IN  Good(e, {}) /\ Onward(d, e, new) /\ e.pause[k].status = s
  <1>1. Core(d) /\ SignalsFit(d) /\ d \in DB /\ \A q \in Runs \ {k[1]} : Moves(d, q, {})
    BY DEF Good, Core
  <1>2. PauseSet(d, SetPause(d, k, s), k, s)
    BY <1>1, PauseRows
  <1>3. SignalsFit(SetPause(d, k, s))
    BY <1>1, <1>2, ClosePauseSignals DEF SignalsFit
  <1> QED
    BY <1>1, <1>3, ResolvePauseGood

(* resolveNamedPause leaves a pause only if no signal is there for it.     *)
LEMMA ResolveNamedPauseGood ==
    ASSUME NEW d, Core(d), NEW k \in Attempts, d.pause[k].status = "open",
           \A r \in Runs : InOrder(d, r), \A x \in Attempts \ {k} : Heard(d, x),
           \A q \in Runs \ {k[1]} : Moves(d, q, {}), NEW new
    PROVE  LET e == ResolveNamedPause(d, k)
           IN  /\ Onward(d, e, new)
               /\ Good(e, {}) \/ (e = d /\ SignalsFit(d))
  <1> DEFINE r == k[1]
             n == d.pause[k].name
             e == ResolveNamedPause(d, k)
  <1>1. d \in DB /\ r \in Runs /\ d.run[r].status \notin TerminalStatuses
    BY AttemptShape DEF Core, RowsFit, LiveFits, LockActiveAttempt, ActiveStatuses, TerminalStatuses
  <1>2. CASE d.pause[k].expired
    <2>1. e = ResolvePause(d, k, "timed_out")
      BY <1>2 DEF ResolveNamedPause
    <2>2. PauseSet(d, SetPause(d, k, "timed_out"), k, "timed_out")
      BY <1>1, PauseRows
    <2>3. SignalsFit(SetPause(d, k, "timed_out"))
      BY <2>2, ClosePauseSignals
    <2>4. Good(ResolvePause(d, k, "timed_out"), {}) /\ Onward(d, ResolvePause(d, k, "timed_out"), new)
      BY <2>3, ResolvePauseGood
    <2> QED
      BY <2>1, <2>4
  <1>3. CASE ~d.pause[k].expired /\ Buffered(d, r, n) = {}
    <2>1. e = d
      BY <1>3 DEF ResolveNamedPause
    <2>2. Heard(d, k)
      BY <1>3 DEF Heard, Buffered
    <2>3. SignalsFit(d)
      BY <2>2 DEF SignalsFit
    <2> QED
      BY <2>1, <2>3, OnwardSame
  <1>4. CASE ~d.pause[k].expired /\ Buffered(d, r, n) # {}
    <2> DEFINE i == NextSignal(d, r, n)
               c == Consume(d, k, i)
               b == SetPause(c, k, "resumed")
    <2>1. e = ResolvePause(c, k, "resumed")
      BY <1>4 DEF ResolveNamedPause, Consume
    <2>2. i \in Buffered(d, r, n) /\ \A m \in Buffered(d, r, n) : i <= m
      BY <1>1, <1>4, NextSignalLeast
    <2> HIDE DEF i, e
    <2>3. i \in DOMAIN d.signal[r]
      BY <2>2 DEF Buffered
    <2>4. Consumed(d, c, k, i)
      BY <1>1, <2>3, ConsumeRows
    <2> HIDE DEF c
    <2>5. c \in DB /\ c.run = d.run /\ c.att = d.att /\ c.pause = d.pause /\ c.job = d.job
      BY <2>4 DEF Consumed
    <2>6. PauseSet(c, b, k, "resumed")
      BY <2>5, PauseRows
    <2>7. SignalsFit(b)
      BY <1>1, <2>2, <2>4, <2>6, TakeSignals
    <2>8. Core(c)
      BY <2>5, FrameCore
    <2>9. ASSUME NEW q \in Runs \ {r} PROVE Moves(c, q, {})
      <3>1. Moves(d, q, {})
        OBVIOUS
      <3> QED
        BY <2>5, <3>1, SMTT(60) DEF Moves, Active, OnPause, HasJob, LiveJob
    <2>10. Good(e, {}) /\ Onward(c, e, new)
      BY <2>1, <2>5, <2>7, <2>8, <2>9, ResolvePauseGood
    <2>11. Onward(d, e, new)
      <3>1. Onward(d, c, new)
        BY <2>4, ConsumedOnward
      <3> QED
        BY <3>1, <2>10, OnwardTrans
    <2> QED
      BY <2>10, <2>11 DEF e
  <1> QED
    BY <1>2, <1>3, <1>4

-----------------------------------------------------------------------------
(* The transactions that begin to wait.                                    *)

(* beginAttempt.                                                           *)
LEMMA BeginGood ==
    ASSUME NEW d, Good(d, {}), NEW k \in Attempts, d.att[k] \in {"pending", "running"},
           d.job[<<k, "step">>].status = "running", NEW new
    PROVE  LET e == Begin(d, k)
           IN  Good(e, {}) /\ Onward(d, e, new) /\ e.att[k] = "running"
  <1> DEFINE e == Begin(d, k)
  <1>1. /\ Core(d) /\ SignalsFit(d) /\ d \in DB /\ k[1] \in Runs
        /\ \A q \in Runs : Moves(d, q, {})
    BY AttemptShape DEF Good, Core
  <1>2. LockActiveAttempt(d, k) /\ d.run[k[1]].status \in ActiveStatuses
    BY <1>1 DEF Core, LiveFits, LockActiveAttempt, ActiveStatuses
  <1>3. Turned(d, e, k, "running") /\ e.pause = d.pause /\ e.job = d.job
    BY <1>1, BeginRows
  <1> HIDE DEF e
  <1>4. Core(e)
    BY <1>1, <1>2, <1>3, TurnCore
  <1>5. /\ e.signal = d.signal
        /\ \A x \in Attempts : e.att[x] = IF x = k THEN "running" ELSE d.att[x]
        /\ \A q \in Runs : /\ e.run[q].status = IF q = k[1] THEN "running" ELSE d.run[q].status
                           /\ e.run[q].step = d.run[q].step
                           /\ e.run[q].active = d.run[q].active
                           /\ e.run[q].parent = d.run[q].parent
    BY <1>3 DEF Turned
  <1>6. SignalsFit(e)
    <2>1. \A q \in Runs : e.run[q].status \in TerminalStatuses <=> d.run[q].status \in TerminalStatuses
      BY <1>2, <1>5 DEF ActiveStatuses, TerminalStatuses
    <2> QED
      BY <2>1, <1>1, <1>3, <1>5, SignalsFrame
  <1>7. KidsKeep(d, e, {})
    BY <1>5, RunsShape DEF KidsKeep
  <1>8. ASSUME NEW q \in Runs, q # k[1] PROVE Moves(e, q, {})
    <2>1. Untouched(d, e, q)
      BY <1>3, <1>5, <1>8 DEF Untouched, HasJob, LiveJob
    <2> QED
      BY <1>1, <1>7, <2>1, MovesFrame
  <1>9. Moves(e, k[1], {})
    <2>1. Active(e, k[1]) = k
      <3>1. Active(d, k[1]) = k
        BY <1>1, <1>2, LockedIsActive
      <3> QED
        BY <3>1, <1>1, <1>5 DEF Active
    <2>2. HasJob(e, k, "step")
      BY <1>3 DEF HasJob, LiveJob
    <2> QED
      BY <2>1, <2>2, <1>1, <1>5 DEF Moves
  <1>10. Onward(d, e, new)
    BY <1>2, <1>3, TurnedOnward
  <1> QED
    BY <1>1, <1>4, <1>5, <1>6, <1>8, <1>9, <1>10 DEF Good, e

(* suspendForPause: the database after the pause is inserted.              *)
LEMMA OpenPauseStage ==
    ASSUME NEW d, Good(d, {}), NEW k \in Attempts, LockActiveAttempt(d, k), d.att[k] = "running",
           NEW row \in PauseRow, row.status = "open", NEW new, k \in new
    PROVE  LET e == OpenPause(d, k, row)
           IN  /\ e \in DB /\ Core(e) /\ Onward(d, e, new)
               /\ \A r \in Runs : InOrder(e, r)
               /\ \A x \in Attempts \ {k} : Heard(e, x)
               /\ \A q \in Runs \ {k[1]} : Moves(e, q, {})
               /\ e.pause[k] = row
               /\ Active(e, k[1]) = k /\ e.att[k] = "waiting" /\ e.run[k[1]].status = "waiting"
  <1> DEFINE e == OpenPause(d, k, row)
  <1>1. /\ Core(d) /\ SignalsFit(d) /\ d \in DB /\ k[1] \in Runs
        /\ \A q \in Runs : Moves(d, q, {})
    BY AttemptShape DEF Good, Core
  <1>2. d.run[k[1]].status \in ActiveStatuses /\ d.pause[k].status = "absent" /\ Active(d, k[1]) = k
    BY <1>1, LockedIsActive DEF Core, RowsFit
  <1>3. Turned(d, e, k, "waiting") /\ e.job = d.job
        /\ \A x \in Attempts : e.pause[x] = IF x = k THEN row ELSE d.pause[x]
    BY <1>1, OpenPauseRows
  <1> HIDE DEF e
  <1>4. /\ e \in DB /\ e.signal = d.signal
        /\ \A x \in Attempts : e.att[x] = IF x = k THEN "waiting" ELSE d.att[x]
        /\ \A q \in Runs : /\ e.run[q].status = IF q = k[1] THEN "waiting" ELSE d.run[q].status
                           /\ e.run[q].step = d.run[q].step
                           /\ e.run[q].active = d.run[q].active
                           /\ e.run[q].parent = d.run[q].parent
    BY <1>3 DEF Turned
  <1>5. /\ \A x \in Attempts : x # k => e.pause[x] = d.pause[x]
        /\ e.pause[k] = row
        /\ \A j \in JobIds : e.job[j].status # "absent" => d.job[j].status # "absent"
    BY <1>3
  <1>6. Core(e)
    BY <1>1, <1>3, <1>5, TurnCore
  <1>7. Onward(d, e, new)
    BY <1>2, <1>3, <1>5, TurnedOnward
  <1>8. ASSUME NEW r \in Runs PROVE InOrder(e, r)
    <2>1. InOrder(d, r)
      BY <1>1 DEF SignalsFit
    <2>2. e.run[r].status \in TerminalStatuses <=> d.run[r].status \in TerminalStatuses
      BY <1>2, <1>4 DEF ActiveStatuses, TerminalStatuses
    <2>3. \A x \in Attempts : d.pause[x].status = "resumed" => e.pause[x].status = "resumed"
      BY <1>2, <1>5
    <2> QED
      BY <2>1, <2>2, <2>3, <1>4 DEF InOrder
  <1>9. ASSUME NEW x \in Attempts \ {k} PROVE Heard(e, x)
    BY <1>1, <1>4, <1>5 DEF SignalsFit, Heard
  <1>10. ASSUME NEW q \in Runs \ {k[1]} PROVE Moves(e, q, {})
    <2>1. Untouched(d, e, q)
      BY <1>3, <1>4, <1>5, <1>10 DEF Untouched, HasJob, LiveJob
    <2>2. KidsKeep(d, e, {})
      BY <1>4, RunsShape DEF KidsKeep
    <2> QED
      BY <1>1, <2>1, <2>2, MovesFrame
  <1>11. Active(e, k[1]) = k /\ e.att[k] = "waiting" /\ e.run[k[1]].status = "waiting"
    BY <1>1, <1>2, <1>4 DEF Active
  <1>12. /\ e \in DB /\ Core(e) /\ Onward(d, e, new)
         /\ \A r \in Runs : InOrder(e, r)
         /\ \A x \in Attempts \ {k} : Heard(e, x)
         /\ \A q \in Runs \ {k[1]} : Moves(e, q, {})
         /\ e.pause[k] = row
    BY <1>4, <1>5, <1>6, <1>7, <1>8, <1>9, <1>10
  <1> QED
    BY <1>11, <1>12 DEF e

(* The whole of suspendForPause: a signal that is there resumes the pause, *)
(* and a timed pause that stays open gets its timeout job.                 *)
LEMMA SuspendForPauseGood ==
    ASSUME NEW d, Good(d, {}), NEW k \in Attempts, LockActiveAttempt(d, k), d.att[k] = "running",
           NEW n \in Names \cup {NoName}, NEW timed \in BOOLEAN, NEW new, k \in new
    PROVE  LET c == OpenPause(d, k, [status |-> "open", name |-> n, timed |-> timed, expired |-> FALSE])
               b == ResolveNamedPause(c, k)
               e == IF timed /\ b = c THEN SetJob(c, <<k, "timeout">>, Job("pending")) ELSE b
           IN  Good(e, {}) /\ Onward(d, e, new) /\ e.att[k] \notin {"pending", "running"}
  <1> DEFINE row == [status |-> "open", name |-> n, timed |-> timed, expired |-> FALSE]
             c == OpenPause(d, k, row)
             b == ResolveNamedPause(c, k)
             f == SetJob(c, <<k, "timeout">>, Job("pending"))
             e == IF timed /\ b = c THEN f ELSE b
  <1>1. row \in PauseRow /\ row.status = "open" /\ row.timed = timed
    BY DEF PauseRow
  <1> HIDE DEF row
  <1>2. /\ c \in DB /\ Core(c) /\ Onward(d, c, new)
        /\ \A r \in Runs : InOrder(c, r)
        /\ \A x \in Attempts \ {k} : Heard(c, x)
        /\ \A q \in Runs \ {k[1]} : Moves(c, q, {})
        /\ c.pause[k] = row
        /\ Active(c, k[1]) = k /\ c.att[k] = "waiting" /\ c.run[k[1]].status = "waiting"
    BY <1>1, OpenPauseStage
  <1> HIDE DEF c
  <1>3. Onward(c, b, new) /\ (Good(b, {}) \/ (b = c /\ SignalsFit(c)))
    BY <1>1, <1>2, ResolveNamedPauseGood
  <1> HIDE DEF b
  <1>4. CASE timed /\ b = c
    <2>1. SignalsFit(c)
      BY <1>3, <1>4 DEF Good
    <2>2. k[1] \in Runs /\ <<k, "timeout">> \in JobIds /\ Job("pending") \in JobRow
      BY AttemptShape, JobShape DEF Job, JobRow
    <2>3. JobSet(c, f, <<k, "timeout">>, Job("pending"))
      BY <1>2, <2>2, JobRows
    <2> HIDE DEF f
    <2>4. Core(f)
      BY <1>1, <1>2, <2>3, TimeoutJobCore
    <2>5. /\ f.run = c.run /\ f.att = c.att /\ f.pause = c.pause /\ f.signal = c.signal
          /\ \A i \in JobIds : f.job[i] = IF i = <<k, "timeout">> THEN Job("pending") ELSE c.job[i]
      BY <2>3 DEF JobSet
    <2>6. SignalsFit(f)
      BY <2>1, <2>5, SignalsFrame
    <2>7. ASSUME NEW q \in Runs \ {k[1]} PROVE Moves(f, q, {})
      <3>1. \A x \in Attempts : x[1] = q => /\ <<x, "step">> \in JobIds /\ <<x, "timeout">> \in JobIds
                                            /\ <<x, "step">> # <<k, "timeout">> /\ <<x, "timeout">> # <<k, "timeout">>
        BY JobShape
      <3>2. \A x \in Attempts : x[1] = q => \A kind \in {"step", "timeout"} : HasJob(c, x, kind) => HasJob(f, x, kind)
        BY <2>5, <3>1 DEF HasJob, LiveJob
      <3>3. Untouched(c, f, q) /\ KidsKeep(c, f, {})
        BY <2>5, <3>2 DEF Untouched, KidsKeep
      <3> QED
        BY <1>2, <3>3, MovesFrame
    <2>8. Moves(f, k[1], {})
      <3>1. Active(f, k[1]) = k /\ f.att[k] = "waiting" /\ f.run[k[1]].status = "waiting"
        BY <1>2, <2>5 DEF Active
      <3>2. OnPause(f, k)
        BY <1>1, <1>2, <2>2, <2>5 DEF OnPause, HasJob, LiveJob, Job
      <3> QED
        BY <3>1, <3>2 DEF Moves
    <2>9. Good(f, {})
      BY <2>4, <2>6, <2>7, <2>8 DEF Good
    <2>10. Onward(d, f, new)
      <3>1. Job("pending").status \notin {"absent", "running"}
        BY DEF Job
      <3>2. Onward(c, f, new)
        BY <2>3, <3>1, JobSetOnward
      <3> QED
        BY <1>2, <3>2, OnwardTrans
    <2> QED
      BY <1>2, <1>4, <2>5, <2>9, <2>10 DEF b, c, row, f
  <1>5. CASE ~(timed /\ b = c)
    <2>1. Onward(d, b, new)
      BY <1>2, <1>3, OnwardTrans
    <2>2. Good(b, {})
      <3>1. SUFFICES ASSUME b = c, SignalsFit(c), ~timed PROVE Good(c, {})
        BY <1>3, <1>5
      <3>2. OnPause(c, k)
        BY <1>1, <1>2, <3>1 DEF OnPause
      <3>3. Moves(c, k[1], {})
        BY <1>2, <3>2 DEF Moves
      <3> QED
        BY <1>2, <3>1, <3>3 DEF Good
    <2>3. b.att[k] \notin {"pending", "running"}
      BY <1>2, <1>3 DEF Onward
    <2> QED
      BY <1>5, <2>1, <2>2, <2>3 DEF b, c, row
  <1> QED
    BY <1>4, <1>5

(* suspendForChild, with the child's first attempt.                        *)
LEMMA SpawnGood ==
    ASSUME NEW d, Good(d, {}), NEW k \in Attempts, LockActiveAttempt(d, k), k[1] = Root,
           d.att[k] = "running", NEW kid \in Kids, d.run[kid].status = "absent", NEW new, k \in new
    PROVE  LET e == Spawn(d, k, kid)
           IN  Good(e, {}) /\ Onward(d, e, new) /\ e.att[k] \notin {"pending", "running"}
  <1> DEFINE e == Spawn(d, k, kid)
             n == <<kid, 1, 1>>
  <1>1. /\ Core(d) /\ SignalsFit(d) /\ d \in DB /\ kid \in Runs /\ Root \in Runs /\ kid # Root
        /\ \A q \in Runs : Moves(d, q, {})
        /\ d.run[Root].status \in ActiveStatuses
    BY RunsShape DEF Good, Core, LockActiveAttempt
  <1>2. n \in Attempts /\ Spawned(d, e, k, kid, n)
    BY <1>1, SpawnRows
  <1>3. n[1] = kid /\ n[2] = 1 /\ n[3] = 1
    OBVIOUS
  <1> HIDE DEF e, n
  <1>4. Core(e) /\ d.att[n] = "absent"
    BY <1>1, <1>2, <1>3, SpawnCore
  <1>5. Onward(d, e, new)
    BY <1>1, <1>2, <1>4, SpawnedOnward
  <1>6. /\ e \in DB /\ e.pause = d.pause /\ e.signal = d.signal
        /\ \A x \in Attempts : e.att[x] = IF x = n THEN "pending" ELSE IF x = k THEN "waiting" ELSE d.att[x]
        /\ \A j \in JobIds : e.job[j] = IF j = <<n, "step">> THEN Job("pending") ELSE d.job[j]
        /\ \A q \in Runs : q # kid =>
             /\ e.run[q].status = IF q = Root THEN "waiting" ELSE d.run[q].status
             /\ e.run[q].step = d.run[q].step
             /\ e.run[q].active = d.run[q].active
             /\ e.run[q].parent = d.run[q].parent
        /\ e.run[kid].status = "pending" /\ e.run[kid].step = 1
        /\ e.run[kid].active = 1 /\ e.run[kid].parent = k
    BY <1>2 DEF Spawned
  <1>7. SignalsFit(e)
    <2>1. \A q \in Runs : e.run[q].status \in TerminalStatuses <=> d.run[q].status \in TerminalStatuses
      BY <1>1, <1>6 DEF ActiveStatuses, TerminalStatuses
    <2> QED
      BY <2>1, <1>1, <1>6, SignalsFrame
  <1>8. ASSUME NEW q \in Runs, q # kid, q # Root PROVE Moves(e, q, {})
    <2>1. \A x \in Attempts : x[1] = q => x # n /\ x # k /\ <<x, "step">> \in JobIds /\ <<x, "timeout">> \in JobIds
                                          /\ <<x, "step">> # <<n, "step">> /\ <<x, "timeout">> # <<n, "step">>
      BY <1>3, <1>8, JobShape
    <2>2. \A x \in Attempts : x[1] = q => \A kind \in {"step", "timeout"} : HasJob(d, x, kind) => HasJob(e, x, kind)
      BY <1>6, <2>1 DEF HasJob, LiveJob
    <2>3. Untouched(d, e, q)
      BY <1>6, <1>8, <2>1, <2>2 DEF Untouched
    <2>4. KidsKeep(d, e, {})
      <3>1. d.run[kid].parent = NoAttempt
        BY <1>1 DEF Core, LinksFit
      <3> QED
        BY <3>1, <1>1, <1>6, RunsShape DEF KidsKeep
    <2> QED
      BY <1>1, <2>3, <2>4, MovesFrame
  <1>9. Moves(e, Root, {})
    <2>1. Active(e, Root) = k
      <3>1. Active(d, Root) = k
        BY <1>1, LockedIsActive
      <3> QED
        BY <3>1, <1>1, <1>6 DEF Active
    <2>2. k # n
      BY <1>1, <1>3
    <2> QED
      BY <2>1, <2>2, <1>1, <1>6 DEF Moves
  <1>10. Moves(e, kid, {})
    <2>1. Active(e, kid) = n
      BY <1>6 DEF Active, n
    <2>2. HasJob(e, n, "step")
      <3>1. e.job[<<n, "step">>] = Job("pending")
        BY <1>2, <1>6, JobShape
      <3> QED
        BY <3>1 DEF HasJob, LiveJob, Job
    <2> QED
      BY <2>1, <2>2, <1>2, <1>6 DEF Moves
  <1>11. e.att[k] \notin {"pending", "running"}
    BY <1>1, <1>3, <1>6
  <1> QED
    BY <1>4, <1>5, <1>7, <1>8, <1>9, <1>10, <1>11 DEF Good, e

-----------------------------------------------------------------------------
(* Handlers, while others act.                                             *)

(* What has ended in d is the same in e.                                   *)
Final(d, e) ==
    /\ \A r \in Runs : d.run[r].status \in TerminalStatuses =>
            e.run[r].status = d.run[r].status /\ e.run[r].step = d.run[r].step
    /\ \A k \in Attempts :
        /\ d.att[k] \in TerminalStatuses => e.att[k] = d.att[k]
        /\ d.pause[k].status \notin {"absent", "open"} => e.pause[k].status = d.pause[k].status

(* A transaction that undoes nothing keeps what has ended.                 *)
LEMMA OnwardFinal ==
    ASSUME NEW d, NEW e, NEW new, Onward(d, e, new) PROVE Final(d, e)
  BY DEF Onward, Final

(* A transaction takes nothing from a handler of another job.              *)
LEMMA HandlerKeeps ==
    ASSUME NEW d, Core(d), NEW e, NEW new, Onward(d, e, new), NEW g, NEW v, HandlerFits(d, v, g),
           \A k \in new : d.pause[k].status = "absent" /\ ~OwnsJob(d, g, <<k, "step">>)
    PROVE  HandlerFits(e, v, g)
  <1> SUFFICES ASSUME v.pc # "idle" PROVE HandlerFits(e, v, g)
    BY DEF HandlerFits
  <1> DEFINE j == v.job
             k == j[1]
  <1>1. /\ j \in JobIds
        /\ d.job[j].status # "absent"
        /\ v.pc \in {"begin", "invoke", "outcome"} => j[2] = "step"
        /\ v.pc = "resolve" => j[2] = "timeout"
        /\ v.pc \in {"invoke", "outcome"} /\ OwnsJob(d, g, j) => d.att[k] \notin {"pending", "waiting"}
        /\ v.pc = "return" /\ OwnsJob(d, g, j) =>
                IF j[2] = "step" THEN d.att[k] \notin {"pending", "running"}
                ELSE d.pause[k].status # "open"
    BY DEF HandlerFits
  <1>2. k \in Attempts /\ j[2] \in {"step", "timeout"} /\ j = <<k, j[2]>>
    BY <1>1, JobShape
  <1> HIDE DEF j, k
  <1>3. /\ j[2] = "step" => d.att[k] # "absent"
        /\ j[2] = "timeout" => d.pause[k].status # "absent"
    BY <1>1, <1>2 DEF Core, RowsFit
  <1>4. OwnsJob(e, g, j) => OwnsJob(d, g, j)
    BY <1>1 DEF Onward, OwnsJob
  <1>5. e.job[j].status # "absent"
    BY <1>1 DEF Onward
  <1>6. ASSUME j[2] = "step", OwnsJob(d, g, j), d.att[k] \notin {"pending", "waiting"}
        PROVE  e.att[k] \notin {"pending", "waiting"}
    <2>1. k \notin new
      BY <1>2, <1>6
    <2> QED
      BY <2>1, <1>2, <1>3, <1>6 DEF Onward
  <1>7. ASSUME j[2] = "step", d.att[k] \notin {"pending", "running"}
        PROVE  e.att[k] \notin {"pending", "running"}
    BY <1>2, <1>3, <1>7 DEF Onward
  <1>8. ASSUME j[2] = "timeout", d.pause[k].status # "open"
        PROVE  e.pause[k].status # "open"
    BY <1>2, <1>3, <1>8 DEF Onward
  <1> QED
    BY <1>1, <1>2, <1>4, <1>5, <1>6, <1>7, <1>8 DEF HandlerFits, j, k

(* A step of handler h, which goes on at pc.                               *)
LEMMA HandlerGoes ==
    ASSUME IInv, NEW h \in Handlers, handler[h].pc # "idle",
           NEW pc \in {"invoke", "outcome", "return", "throw", "defer"}, Goto(h, pc),
           NEW new, Good(db', {}), Onward(db, db', new),
           \A k \in new : db.pause[k].status = "absent" /\ OwnsJob(db, h, <<k, "step">>),
           HandlerFits(db', [handler[h] EXCEPT !.pc = pc], h),
           canceling' = canceling, faults' = faults \/ Fault
    PROVE  IInv' /\ Final(db, db')
  <1>1. handler' = [handler EXCEPT ![h] = [handler[h] EXCEPT !.pc = pc]]
    BY DEF Goto, IInv
  <1> DEFINE v == [handler[h] EXCEPT !.pc = pc]
  <1>2. v \in HandlerState
    BY DEF IInv, HandlerState
  <1>3. HandlerFits(db', v, h)
    OBVIOUS
  <1> HIDE DEF v
  <1>4. handler' \in [Handlers -> HandlerState] /\ handler'[h] = v
        /\ \A g \in Handlers : g # h => handler'[g] = handler[g]
    BY <1>1, <1>2 DEF IInv, v
  <1>5. ASSUME NEW g \in Handlers, g # h PROVE HandlerFits(db', handler'[g], g)
    <2>1. Core(db) /\ HandlerFits(db, handler[g], g)
      BY DEF IInv, Good
    <2>2. \A k \in new : db.pause[k].status = "absent" /\ ~OwnsJob(db, g, <<k, "step">>)
      <3> SUFFICES ASSUME NEW k \in new, OwnsJob(db, g, <<k, "step">>) PROVE FALSE
        OBVIOUS
      <3>1. db.job[<<k, "step">>].holder = h
        BY DEF OwnsJob
      <3>2. db.job[<<k, "step">>].holder = g
        BY DEF OwnsJob
      <3> QED
        BY <1>5, <3>1, <3>2
    <2>3. HandlerFits(db', handler[g], g)
      BY <2>1, <2>2, HandlerKeeps
    <2> QED
      BY <2>3, <1>4, <1>5
  <1>6. faults' \in 0..MaxFaults
    BY BoundsAssumption DEF Fault, IInv
  <1>7. Final(db, db')
    BY OnwardFinal
  <1> QED
    BY <1>3, <1>4, <1>5, <1>6, <1>7 DEF IInv

(* A step of someone who is no handler.                                    *)
LEMMA OthersGo ==
    ASSUME IInv, Good(db', {}), Onward(db, db', {}), handler' = handler,
           canceling' \subseteq Runs, faults' = faults \/ Fault
    PROVE  IInv' /\ Final(db, db')
  <1>1. ASSUME NEW g \in Handlers PROVE HandlerFits(db', handler[g], g)
    <2>1. Core(db) /\ HandlerFits(db, handler[g], g)
      BY DEF IInv, Good
    <2> QED
      BY <2>1, HandlerKeeps
  <1>2. faults' \in 0..MaxFaults
    BY BoundsAssumption DEF Fault, IInv
  <1>3. Final(db, db')
    BY OnwardFinal
  <1> QED
    BY <1>1, <1>2, <1>3 DEF IInv

(* A handler that ends.                                                    *)
LEMMA HandlerEnds ==
    ASSUME IInv, NEW h \in Handlers, Good(db', {}), Onward(db, db', {}),
           handler' = [handler EXCEPT ![h] = Idle],
           canceling' = canceling, faults' = faults \/ Fault
    PROVE  IInv' /\ Final(db, db')
  <1>1. Idle \in HandlerState /\ Idle.pc = "idle"
    BY DEF Idle, HandlerState
  <1>2. handler' \in [Handlers -> HandlerState] /\ handler'[h] = Idle
        /\ \A g \in Handlers : g # h => handler'[g] = handler[g]
    BY <1>1 DEF IInv
  <1>3. ASSUME NEW g \in Handlers, g # h PROVE HandlerFits(db', handler'[g], g)
    <2>1. Core(db) /\ HandlerFits(db, handler[g], g)
      BY DEF IInv, Good
    <2>2. HandlerFits(db', handler[g], g)
      BY <2>1, HandlerKeeps
    <2> QED
      BY <2>2, <1>2, <1>3
  <1>4. HandlerFits(db', handler'[h], h)
    BY <1>1, <1>2 DEF HandlerFits
  <1>5. faults' \in 0..MaxFaults
    BY BoundsAssumption DEF Fault, IInv
  <1>6. Final(db, db')
    BY OnwardFinal
  <1> QED
    BY <1>2, <1>3, <1>4, <1>5, <1>6 DEF IInv

(* A job's row changes, and what drives its attempt, if anything has to.   *)
LEMMA SetJobGood ==
    ASSUME NEW d, Good(d, {}), NEW j \in JobIds, NEW row \in JobRow, d.job[j].status # "absent",
           \/ row.status \in {"pending", "running", "failed"}
           \/ ~LiveJob(d, j) /\ d.job[j].status # "failed"
           \/ j[2] = "step" /\ d.att[j[1]] \notin {"pending", "running"}
           \/ j[2] = "timeout" /\ (d.pause[j[1]].status # "open" \/ d.att[j[1]] \notin ActiveStatuses)
    PROVE  /\ Good(SetJob(d, j, row), {})
           /\ JobSet(d, SetJob(d, j, row), j, row)
  <1> DEFINE e == SetJob(d, j, row)
             k == j[1]
  <1>1. /\ Core(d) /\ SignalsFit(d) /\ d \in DB
        /\ \A q \in Runs : Moves(d, q, {})
    BY DEF Good, Core
  <1>2. JobSet(d, e, j, row)
    BY <1>1, JobRows
  <1> HIDE DEF e
  <1>3. /\ e \in DB /\ e.run = d.run /\ e.att = d.att /\ e.pause = d.pause /\ e.signal = d.signal
        /\ \A i \in JobIds : e.job[i] = IF i = j THEN row ELSE d.job[i]
    BY <1>2 DEF JobSet
  <1>4. Core(e)
    BY <1>1, <1>3, FrameCore
  <1>5. SignalsFit(e)
    BY <1>1, <1>3, SignalsFrame
  <1>6. k \in Attempts /\ j[2] \in {"step", "timeout"} /\ j = <<k, j[2]>>
        /\ \A x \in Attempts : <<x, "step">> \in JobIds /\ <<x, "timeout">> \in JobIds
    BY JobShape
  <1> HIDE DEF k
  <1>7. ASSUME NEW x \in Attempts, NEW kind \in {"step", "timeout"}, HasJob(d, x, kind), ~HasJob(e, x, kind)
        PROVE  j = <<x, kind>> /\ x = k /\ kind = j[2]
               /\ row.status \notin {"pending", "running", "failed"}
               /\ (LiveJob(d, j) \/ d.job[j].status = "failed")
    <2>1. <<x, kind>> \in JobIds
      BY <1>6, <1>7
    <2>2. j = <<x, kind>>
      BY <2>1, <1>3, <1>7 DEF HasJob, LiveJob
    <2> QED
      BY <2>1, <2>2, <1>3, <1>6, <1>7 DEF HasJob, LiveJob
  <1>8. ASSUME NEW q \in Runs PROVE Moves(e, q, {})
    <2> SUFFICES ASSUME d.run[q].status \in ActiveStatuses PROVE Moves(e, q, {})
      BY <1>3 DEF Moves
    <2> DEFINE a == Active(d, q)
    <2>1. a \in Attempts /\ Active(e, q) = a
      BY <1>1, <1>3, ActiveShape DEF Active
    <2>2. /\ d.att[a] = d.run[q].status
          /\ d.att[a] \in {"pending", "running"} => HasJob(d, a, "step")
          /\ d.att[a] = "waiting" => OnPause(d, a) \/ \E c \in Kids : /\ d.run[c].parent = a
                                                                      /\ d.run[c].status \notin {"completed", "failed"}
      BY <1>1 DEF Moves
    <2> HIDE DEF a
    <2>3. ASSUME d.att[a] \in {"pending", "running"}, ~HasJob(e, a, "step") PROVE FALSE
      <3>1. a = k /\ j[2] = "step" /\ row.status \notin {"pending", "running", "failed"}
            /\ (LiveJob(d, j) \/ d.job[j].status = "failed")
        BY <2>1, <2>2, <2>3, <1>7
      <3> QED
        BY <3>1, <2>3 DEF k
    <2>4. ASSUME d.att[a] = "waiting", OnPause(d, a), ~OnPause(e, a) PROVE FALSE
      <3>1. d.pause[a].status = "open" /\ HasJob(d, a, "timeout") /\ ~HasJob(e, a, "timeout")
        BY <2>1, <2>4, <1>3 DEF OnPause
      <3>2. a = k /\ j[2] = "timeout" /\ row.status \notin {"pending", "running", "failed"}
            /\ (LiveJob(d, j) \/ d.job[j].status = "failed")
        BY <2>1, <3>1, <1>7
      <3> QED
        BY <3>1, <3>2, <2>4 DEF k, ActiveStatuses
    <2>5. /\ e.att[a] = e.run[q].status
          /\ e.att[a] \in {"pending", "running"} => HasJob(e, a, "step")
          /\ e.att[a] = "waiting" => OnPause(e, a) \/ \E c \in Kids : /\ e.run[c].parent = a
                                                                      /\ e.run[c].status \notin {"completed", "failed"}
      BY <2>2, <2>3, <2>4, <1>3
    <2> QED
      BY <2>1, <2>5 DEF Moves
  <1>9. Good(e, {})
    BY <1>4, <1>5, <1>8 DEF Good
  <1> QED
    BY <1>2, <1>9 DEF e

-----------------------------------------------------------------------------
(* The steps keep the invariant and what has ended: those of the queue.    *)

(* What the invariant says of handler h.                                   *)
LEMMA HandlerKnows ==
    ASSUME IInv, NEW h \in Handlers, handler[h].pc # "idle"
    PROVE  LET j == handler[h].job
               k == AttemptOf(h)
           IN  /\ j \in JobIds /\ k \in Attempts /\ k[1] \in Runs
               /\ j = <<k, j[2]>> /\ j[2] \in {"step", "timeout"}
               /\ db.job[j].status # "absent"
               /\ handler[h].pc \in {"begin", "invoke", "outcome"} => j[2] = "step"
               /\ handler[h].pc = "resolve" => j[2] = "timeout"
               /\ handler[h].pc \in {"invoke", "outcome"} /\ OwnsJob(db, h, j) =>
                    db.att[k] \in {"running"} \cup TerminalStatuses
               /\ handler[h].pc = "return" /\ OwnsJob(db, h, j) =>
                    IF j[2] = "step" THEN db.att[k] \notin {"pending", "running"}
                    ELSE db.pause[k].status # "open"
  <1> DEFINE j == handler[h].job
             k == j[1]
  <1>1. HandlerFits(db, handler[h], h) /\ Core(db) /\ db \in DB
    BY DEF IInv, Good, Core
  <1>2. /\ j \in JobIds
        /\ db.job[j].status # "absent"
        /\ handler[h].pc \in {"begin", "invoke", "outcome"} => j[2] = "step"
        /\ handler[h].pc = "resolve" => j[2] = "timeout"
        /\ handler[h].pc \in {"invoke", "outcome"} /\ OwnsJob(db, h, j) => db.att[k] \notin {"pending", "waiting"}
        /\ handler[h].pc = "return" /\ OwnsJob(db, h, j) =>
                IF j[2] = "step" THEN db.att[k] \notin {"pending", "running"}
                ELSE db.pause[k].status # "open"
    BY <1>1 DEF HandlerFits
  <1>3. k \in Attempts /\ k[1] \in Runs /\ j[2] \in {"step", "timeout"} /\ j = <<k, j[2]>>
    BY <1>2, JobShape, AttemptShape
  <1> HIDE DEF j, k
  <1>4. j[2] = "step" => db.att[k] # "absent"
    BY <1>1, <1>2, <1>3 DEF Core, RowsFit
  <1>5. db.att[k] \in AttStatus
    BY <1>1, <1>3, Rows
  <1>6. handler[h].pc \in {"invoke", "outcome"} /\ OwnsJob(db, h, j) =>
            db.att[k] \in {"running"} \cup TerminalStatuses
    BY <1>2, <1>4, <1>5 DEF AttStatus, ActiveStatuses
  <1> QED
    BY <1>2, <1>3, <1>6 DEF AttemptOf, j, k

(* What handler h has to know to go on at pc.                              *)
LEMMA GoesFits ==
    ASSUME IInv, NEW h \in Handlers, handler[h].pc # "idle",
           NEW pc \in {"invoke", "outcome", "return", "throw", "defer"},
           NEW e, NEW new, Onward(db, e, new),
           pc \in {"invoke", "outcome"} =>
                /\ handler[h].job[2] = "step"
                /\ OwnsJob(e, h, handler[h].job) => e.att[AttemptOf(h)] \notin {"pending", "waiting"},
           pc = "return" /\ OwnsJob(e, h, handler[h].job) =>
                IF handler[h].job[2] = "step" THEN e.att[AttemptOf(h)] \notin {"pending", "running"}
                ELSE e.pause[AttemptOf(h)].status # "open"
    PROVE  HandlerFits(e, [handler[h] EXCEPT !.pc = pc], h)
  <1> DEFINE v == [handler[h] EXCEPT !.pc = pc]
  <1>1. v.pc = pc /\ v.job = handler[h].job
    BY DEF IInv, HandlerState
  <1> HIDE DEF v
  <1>2. handler[h].job \in JobIds /\ db.job[handler[h].job].status # "absent"
    BY HandlerKnows
  <1>3. e.job[handler[h].job].status # "absent"
    BY <1>2 DEF Onward
  <1>4. HandlerFits(e, v, h)
    BY <1>1, <1>2, <1>3 DEF HandlerFits, AttemptOf
  <1> QED
    BY <1>4 DEF v

(* A worker claims a job.                                                  *)
LEMMA ClaimStep ==
    ASSUME IInv, NEW h \in Handlers, NEW j \in JobIds, Claim(h, j)
    PROVE  IInv' /\ Final(db, db')
  <1> DEFINE row == [status |-> "running", holder |-> h]
             e == SetJob(db, j, row)
             v == [pc |-> IF j[2] = "timeout" THEN "resolve" ELSE "begin", job |-> j]
  <1>1. db' = e /\ handler' = [handler EXCEPT ![h] = v] /\ UNCHANGED <<canceling, faults>>
        /\ db.job[j].status = "pending"
    BY DEF Claim, SetJob
  <1>2. row \in JobRow /\ row.status = "running" /\ row.holder = h
    BY DEF JobRow
  <1>3. j[2] \in {"step", "timeout"}
    BY JobShape
  <1>4. v \in HandlerState /\ v.job = j /\ v.pc = IF j[2] = "timeout" THEN "resolve" ELSE "begin"
    BY DEF HandlerState
  <1> HIDE DEF row, v
  <1>5. Good(e, {}) /\ JobSet(db, e, j, row)
    BY <1>1, <1>2, SetJobGood DEF IInv
  <1> HIDE DEF e
  <1>6. /\ e.run = db.run /\ e.att = db.att /\ e.pause = db.pause
        /\ \A i \in JobIds : e.job[i] = IF i = j THEN row ELSE db.job[i]
    BY <1>5 DEF JobSet
  <1>7. handler' \in [Handlers -> HandlerState] /\ handler'[h] = v
        /\ \A g \in Handlers : g # h => handler'[g] = handler[g]
    BY <1>1, <1>4 DEF IInv
  <1>8. HandlerFits(e, v, h)
    BY <1>2, <1>3, <1>4, <1>6 DEF HandlerFits
  <1>9. ASSUME NEW g \in Handlers, g # h PROVE HandlerFits(e, handler[g], g)
    <2>1. HandlerFits(db, handler[g], g)
      BY DEF IInv
    <2>2. ASSUME NEW i \in JobIds, OwnsJob(e, g, i) PROVE OwnsJob(db, g, i)
      <3>1. e.job[i].holder = g
        BY <2>2 DEF OwnsJob
      <3>2. i # j
        BY <3>1, <1>2, <1>6, <1>9
      <3> QED
        BY <3>2, <2>2, <1>6 DEF OwnsJob
    <2>3. \A i \in JobIds : db.job[i].status # "absent" => e.job[i].status # "absent"
      BY <1>2, <1>6
    <2> QED
      BY <2>1, <2>2, <2>3, <1>6 DEF HandlerFits
  <1>10. Final(db, e)
    BY <1>6 DEF Final
  <1> QED
    BY <1>1, <1>5, <1>7, <1>8, <1>9, <1>10 DEF IInv

(* A lease lapses and the job is returned, or exhausted.                   *)
LEMMA LapseStep ==
    ASSUME IInv, NEW j \in JobIds, Lapse(j)
    PROVE  IInv' /\ Final(db, db')
  <1>1. PICK s \in {"pending", "failed"} : db' = SetJob(db, j, Job(s))
    BY DEF Lapse, SetJob
  <1>2. Job(s) \in JobRow /\ Job(s).status = s
    BY DEF Job, JobRow
  <1>3. db.job[j].status = "running" /\ handler' = handler /\ canceling' = canceling
        /\ (faults' = faults \/ Fault)
    BY DEF Lapse
  <1>4. Good(db', {}) /\ JobSet(db, db', j, Job(s))
    BY <1>1, <1>2, <1>3, SetJobGood DEF IInv
  <1>5. Onward(db, db', {})
    BY <1>2, <1>4, JobSetOnward
  <1> QED
    BY <1>3, <1>4, <1>5, OthersGo DEF IInv

(* A worker dies; its lease stays until it lapses.                         *)
LEMMA CrashStep ==
    ASSUME IInv, NEW h \in Handlers, Crash(h)
    PROVE  IInv' /\ Final(db, db')
  <1>1. db' = db /\ canceling' = canceling /\ Fault /\ handler' = [handler EXCEPT ![h] = Idle]
    BY DEF Crash
  <1>2. Good(db', {}) /\ Onward(db, db', {})
    BY <1>1, OnwardSame DEF IInv
  <1> QED
    BY <1>1, <1>2, HandlerEnds

(* A handler settles its lease.  It completes the job only when its        *)
(* attempt no longer needs it.                                             *)
LEMMA SettleStep ==
    ASSUME IInv, NEW h \in Handlers, handler[h].pc # "idle", NEW S \in SUBSET {"pending", "failed", "completed"},
           "completed" \in S => handler[h].pc = "return", Settle(h, S)
    PROVE  IInv' /\ Final(db, db')
  <1> DEFINE j == handler[h].job
             k == AttemptOf(h)
  <1>1. PICK s \in S : db' = IF OwnsJob(db, h, j) THEN SetJob(db, j, Job(s)) ELSE db
    BY DEF Settle, SetJob
  <1>2. handler' = [handler EXCEPT ![h] = Idle] /\ canceling' = canceling /\ faults' = faults
    BY DEF Settle
  <1>3. Job(s) \in JobRow /\ Job(s).status = s
    BY DEF Job, JobRow
  <1>4. /\ j \in JobIds /\ j[1] = k /\ j[2] \in {"step", "timeout"} /\ db.job[j].status # "absent"
        /\ s = "completed" /\ OwnsJob(db, h, j) =>
                IF j[2] = "step" THEN db.att[k] \notin {"pending", "running"}
                ELSE db.pause[k].status # "open"
    BY HandlerKnows DEF AttemptOf
  <1> HIDE DEF j, k
  <1>5. CASE OwnsJob(db, h, j)
    <2>1. db' = SetJob(db, j, Job(s))
      BY <1>1, <1>5
    <2>2. \/ Job(s).status \in {"pending", "running", "failed"}
          \/ j[2] = "step" /\ db.att[j[1]] \notin {"pending", "running"}
          \/ j[2] = "timeout" /\ (db.pause[j[1]].status # "open" \/ db.att[j[1]] \notin ActiveStatuses)
      BY <1>3, <1>4, <1>5
    <2>3. Good(db', {}) /\ JobSet(db, db', j, Job(s))
      BY <1>3, <1>4, <2>1, <2>2, SetJobGood DEF IInv
    <2>4. Onward(db, db', {})
      BY <1>3, <2>3, JobSetOnward
    <2> QED
      BY <1>2, <2>3, <2>4, HandlerEnds
  <1>6. CASE ~OwnsJob(db, h, j)
    <2>1. db' = db
      BY <1>1, <1>6
    <2>2. Good(db', {}) /\ Onward(db, db', {})
      BY <2>1, OnwardSame DEF IInv
    <2> QED
      BY <1>2, <2>2, HandlerEnds
  <1> QED
    BY <1>5, <1>6

(* A handler completes, fails or defers its job.                           *)
LEMMA JobStep ==
    ASSUME IInv, NEW h \in Handlers, JobComplete(h) \/ JobFail(h) \/ JobDefer(h)
    PROVE  IInv' /\ Final(db, db')
  <1>1. CASE JobComplete(h)
    <2>1. handler[h].pc = "return" /\ Settle(h, {"completed"})
      BY <1>1 DEF JobComplete, At
    <2> QED
      BY <2>1, SettleStep
  <1>2. CASE JobFail(h)
    <2>1. handler[h].pc = "throw" /\ Settle(h, {"pending", "failed"})
      BY <1>2 DEF JobFail, At
    <2> QED
      BY <2>1, SettleStep
  <1>3. CASE JobDefer(h)
    <2>1. handler[h].pc = "defer" /\ Settle(h, {"pending"})
      BY <1>3 DEF JobDefer, At
    <2> QED
      BY <2>1, SettleStep
  <1> QED
    BY <1>1, <1>2, <1>3

-----------------------------------------------------------------------------
(* The steps of the handlers' own code.                                    *)

(* A transaction of handler h that leaves its attempt settled.             *)
LEMMA CommitStep ==
    ASSUME IInv, NEW h \in Handlers, handler[h].pc # "idle", NEW e, Commit(h, e),
           Good(e, {}), NEW new, Onward(db, e, new),
           \A k \in new : db.pause[k].status = "absent" /\ OwnsJob(db, h, <<k, "step">>),
           OwnsJob(e, h, handler[h].job) =>
                IF handler[h].job[2] = "step" THEN e.att[AttemptOf(h)] \notin {"pending", "running"}
                ELSE e.pause[AttemptOf(h)].status # "open"
    PROVE  IInv' /\ Final(db, db')
  <1>1. db' = e /\ canceling' = canceling
    BY DEF Commit
  <1>2. HandlerFits(e, [handler[h] EXCEPT !.pc = "return"], h)
        /\ HandlerFits(e, [handler[h] EXCEPT !.pc = "throw"], h)
    BY GoesFits
  <1>3. CASE Goto(h, "return") /\ faults' = faults
    BY <1>1, <1>2, <1>3, HandlerGoes
  <1>4. CASE Goto(h, "throw") /\ Fault
    BY <1>1, <1>2, <1>4, HandlerGoes
  <1> QED
    BY <1>3, <1>4 DEF Commit

(* A step of handler h that changes no row.                                *)
LEMMA GoStep ==
    ASSUME IInv, NEW h \in Handlers, handler[h].pc # "idle", db' = db, canceling' = canceling,
           NEW pc \in {"invoke", "outcome", "return", "throw", "defer"}, Goto(h, pc),
           faults' = faults \/ Fault,
           pc \in {"invoke", "outcome"} =>
                /\ handler[h].job[2] = "step"
                /\ OwnsJob(db, h, handler[h].job) => db.att[AttemptOf(h)] \notin {"pending", "waiting"},
           pc = "return" /\ OwnsJob(db, h, handler[h].job) =>
                IF handler[h].job[2] = "step" THEN db.att[AttemptOf(h)] \notin {"pending", "running"}
                ELSE db.pause[AttemptOf(h)].status # "open"
    PROVE  IInv' /\ Final(db, db')
  <1> DEFINE new == {}
  <1>1. Good(db', {}) /\ Onward(db, db', new)
    BY OnwardSame DEF IInv
  <1>2. \A k \in new : db.pause[k].status = "absent" /\ OwnsJob(db, h, <<k, "step">>)
    OBVIOUS
  <1> HIDE DEF new
  <1>3. HandlerFits(db', [handler[h] EXCEPT !.pc = pc], h)
    BY <1>1, GoesFits
  <1> QED
    BY <1>1, <1>2, <1>3, HandlerGoes

(* A handler meets a rate limit and defers its job.                        *)
LEMMA ThrottledStep ==
    ASSUME IInv, NEW h \in Handlers, Throttled(h)
    PROVE  IInv' /\ Final(db, db')
  <1>1. handler[h].pc # "idle" /\ Goto(h, "defer") /\ Fault /\ db' = db /\ canceling' = canceling
    BY DEF Throttled, At
  <1> QED
    BY <1>1, GoStep

(* A live attempt is its run's active attempt.                             *)
LEMMA LiveLocked ==
    ASSUME IInv, NEW k \in Attempts, db.att[k] \in ActiveStatuses
    PROVE  /\ LockActiveAttempt(db, k)
           /\ k[1] \in Runs
           /\ db.run[k[1]].status = db.att[k]
  <1>1. Core(db) /\ LockActiveAttempt(db, k)
    BY DEF IInv, Good, Core, LiveFits
  <1>2. k[1] \in Runs /\ db.run[k[1]].status \in ActiveStatuses /\ k = Active(db, k[1])
    BY <1>1, LockedIsActive
  <1>3. Moves(db, k[1], {})
    BY <1>2 DEF IInv, Good
  <1> QED
    BY <1>1, <1>2, <1>3 DEF Moves

(* The boundary handler begins its attempt.                                *)
LEMMA BeginAttemptStep ==
    ASSUME IInv, NEW h \in Handlers, BeginAttempt(h)
    PROVE  IInv' /\ Final(db, db')
  <1> DEFINE j == handler[h].job
             k == AttemptOf(h)
             begins == /\ db.run[k[1]].status \in ActiveStatuses
                       /\ OwnsJob(db, h, j)
                       /\ db.att[k] \in {"pending", "running"}
  <1>1. /\ handler[h].pc = "begin"
        /\ Goto(h, IF begins THEN "invoke" ELSE "return")
        /\ db' = IF begins THEN Begin(db, k) ELSE db
        /\ canceling' = canceling /\ faults' = faults
    BY DEF BeginAttempt, At, RunOf, Begin
  <1>2. /\ handler[h].pc # "idle" /\ k \in Attempts /\ j[2] = "step" /\ j = <<k, "step">>
    BY <1>1, HandlerKnows
  <1>3. CASE begins
    <2>1. db' = Begin(db, k) /\ Goto(h, "invoke")
      BY <1>1, <1>3
    <2>2. db.job[<<k, "step">>].status = "running"
      BY <1>2, <1>3 DEF OwnsJob
    <2> DEFINE new == {}
    <2>3. Good(db', {}) /\ Onward(db, db', new) /\ db'.att[k] = "running"
      BY <1>2, <1>3, <2>1, <2>2, BeginGood DEF IInv
    <2>5. \A x \in new : db.pause[x].status = "absent" /\ OwnsJob(db, h, <<x, "step">>)
      OBVIOUS
    <2> HIDE DEF new
    <2>4. HandlerFits(db', [handler[h] EXCEPT !.pc = "invoke"], h)
      BY <1>2, <2>3, GoesFits
    <2> QED
      BY <1>1, <1>2, <2>1, <2>3, <2>4, <2>5, HandlerGoes
  <1>4. CASE ~begins
    <2>1. db' = db /\ Goto(h, "return")
      BY <1>1, <1>4
    <2>2. OwnsJob(db, h, j) => db.att[k] \notin {"pending", "running"}
      BY <1>2, <1>4, LiveLocked DEF LockActiveAttempt, ActiveStatuses
    <2> QED
      BY <1>1, <1>2, <2>1, <2>2, GoStep
  <1> QED
    BY <1>3, <1>4

(* It invokes the step's code.                                             *)
LEMMA InvokeRuntimeStep ==
    ASSUME IInv, NEW h \in Handlers, InvokeRuntime(h)
    PROVE  IInv' /\ Final(db, db')
  <1> DEFINE j == handler[h].job
             k == AttemptOf(h)
             owned == db.run[k[1]].status \in ActiveStatuses /\ OwnsJob(db, h, j)
             deadline == owned /\ LockActiveAttempt(db, k) /\ db.att[k] = "running"
  <1>1. handler[h].pc = "invoke" /\ db' = db /\ canceling' = canceling
    BY DEF InvokeRuntime, At
  <1>2. /\ handler[h].pc # "idle" /\ k \in Attempts /\ j[2] = "step"
        /\ OwnsJob(db, h, j) => db.att[k] \in {"running"} \cup TerminalStatuses
    BY <1>1, HandlerKnows
  <1>3. CASE ~deadline /\ Goto(h, "return") /\ faults' = faults
    <2>1. OwnsJob(db, h, j) => db.att[k] \notin {"pending", "running"}
      BY <1>2, <1>3, LiveLocked DEF LockActiveAttempt, ActiveStatuses, TerminalStatuses
    <2> QED
      BY <1>1, <1>2, <1>3, <2>1, GoStep
  <1>4. CASE Goto(h, "throw") /\ (faults' = faults \/ Fault)
    BY <1>1, <1>2, <1>4, GoStep
  <1>5. CASE Goto(h, "outcome") /\ faults' = faults
    <2>1. OwnsJob(db, h, j) => db.att[k] \notin {"pending", "waiting"}
      BY <1>2 DEF TerminalStatuses
    <2> QED
      BY <1>1, <1>2, <1>5, <2>1, GoStep
  <1> QED
    BY <1>3, <1>4, <1>5 DEF InvokeRuntime, RunOf

(* It records that the step completed.                                     *)
LEMMA HandlerCompletesStep ==
    ASSUME IInv, NEW h \in Handlers, HandlerCompletes(h)
    PROVE  IInv' /\ Final(db, db')
  <1> DEFINE j == handler[h].job
             k == AttemptOf(h)
             may == /\ LockActiveAttempt(db, k)
                    /\ db.att[k] \in {"running", "waiting"}
                    /\ OwnsJob(db, h, j)
             e == IF may THEN CompleteStep(db, k) ELSE db
  <1>1. handler[h].pc = "outcome" /\ Commit(h, e)
    BY DEF HandlerCompletes, At
  <1>2. /\ handler[h].pc # "idle" /\ k \in Attempts /\ j[2] = "step"
        /\ OwnsJob(db, h, j) => db.att[k] \in {"running"} \cup TerminalStatuses
    BY <1>1, HandlerKnows
  <1>3. Good(db, {}) /\ Core(db)
    BY DEF IInv, Good
  <1>4. CASE may
    <2>1. db.att[k] = "running" /\ db.pause[k].status # "open" /\ db.att[k] \in ActiveStatuses
      BY <1>2, <1>3, <1>4 DEF Core, RowsFit, TerminalStatuses, ActiveStatuses
    <2>2. Stage(db, k[1], {})
      BY <1>3 DEF Good, Stage
    <2>3. e = CompleteStep(db, k)
      BY <1>4
    <2> HIDE DEF e
    <2>4. Good(e, {}) /\ Onward(db, e, {}) /\ e.att[k] \in TerminalStatuses
      BY <1>2, <1>4, <2>1, <2>2, <2>3, CompleteStepGood
    <2>5. e.att[k] \notin {"pending", "running"}
      BY <2>4 DEF TerminalStatuses
    <2> QED
      BY <1>1, <1>2, <2>4, <2>5, CommitStep
  <1>5. CASE ~may
    <2>1. e = db
      BY <1>5
    <2> HIDE DEF e
    <2>2. OwnsJob(db, h, j) => db.att[k] \notin {"pending", "running"}
      BY <1>2, <1>5, LiveLocked DEF ActiveStatuses, TerminalStatuses
    <2>3. Onward(db, db, {})
      BY OnwardSame
    <2> QED
      BY <1>1, <1>2, <1>3, <2>1, <2>2, <2>3, CommitStep
  <1> QED
    BY <1>4, <1>5

(* It records that the step failed.                                        *)
LEMMA HandlerFailsStep ==
    ASSUME IInv, NEW h \in Handlers, NEW retry \in BOOLEAN, HandlerFails(h, retry)
    PROVE  IInv' /\ Final(db, db')
  <1> DEFINE j == handler[h].job
             k == AttemptOf(h)
             may == /\ LockActiveAttempt(db, k)
                    /\ db.att[k] \in ActiveStatuses
                    /\ OwnsJob(db, h, j)
             e == IF may THEN FailStep(db, k, {j}, retry) ELSE db
  <1>1. /\ handler[h].pc = "outcome" \/ (handler[h].pc = "throw" /\ j[2] = "step")
        /\ Commit(h, e)
    BY DEF HandlerFails, At
  <1>2. handler[h].pc # "idle" /\ k \in Attempts /\ j[2] = "step"
    BY <1>1, HandlerKnows
  <1>3. Good(db, {})
    BY DEF IInv
  <1>4. CASE may
    <2>1. e = FailStep(db, k, {j}, retry)
      BY <1>4
    <2> HIDE DEF e
    <2>2. Good(e, {}) /\ Onward(db, e, {}) /\ e.att[k] \in TerminalStatuses
      BY <1>2, <1>3, <1>4, <2>1, FailStepGood
    <2>3. e.att[k] \notin {"pending", "running"}
      BY <2>2 DEF TerminalStatuses
    <2> QED
      BY <1>1, <1>2, <2>2, <2>3, CommitStep
  <1>5. CASE ~may
    <2>1. e = db
      BY <1>5
    <2> HIDE DEF e
    <2>2. OwnsJob(db, h, j) => db.att[k] \notin {"pending", "running"}
      BY <1>2, <1>5, LiveLocked DEF ActiveStatuses
    <2>3. Onward(db, db, {})
      BY OnwardSame
    <2> QED
      BY <1>1, <1>2, <1>3, <2>1, <2>2, <2>3, CommitStep
  <1> QED
    BY <1>4, <1>5

(* It suspends the step for a pause.                                       *)
LEMMA SuspendForPauseStep ==
    ASSUME IInv, NEW h \in Handlers, NEW n \in Names \cup {NoName}, NEW timed \in BOOLEAN,
           SuspendForPause(h, n, timed)
    PROVE  IInv' /\ Final(db, db')
  <1> DEFINE j == handler[h].job
             k == AttemptOf(h)
             may == LockActiveAttempt(db, k) /\ db.att[k] = "running" /\ OwnsJob(db, h, j)
             c == OpenPause(db, k, [status |-> "open", name |-> n, timed |-> timed, expired |-> FALSE])
             b == ResolveNamedPause(c, k)
             f == IF timed /\ b = c THEN SetJob(c, <<k, "timeout">>, Job("pending")) ELSE b
             e == IF may THEN f ELSE db
  <1>1. handler[h].pc = "outcome" /\ Commit(h, e)
    <2>1. e = IF ~may THEN db ELSE IF timed /\ b = c
                                   THEN [c EXCEPT !.job[<<k, "timeout">>] = Job("pending")] ELSE b
      BY DEF SetJob
    <2>2. c = [db EXCEPT !.pause[k] = [status |-> "open", name |-> n, timed |-> timed, expired |-> FALSE],
                         !.att[k] = "waiting", !.run[k[1]].status = "waiting"]
      BY DEF OpenPause
    <2> HIDE DEF e
    <2> QED
      BY <2>1, <2>2 DEF SuspendForPause, At
  <1>2. /\ handler[h].pc # "idle" /\ k \in Attempts /\ j[2] = "step" /\ j = <<k, "step">>
        /\ OwnsJob(db, h, j) => db.att[k] \in {"running"} \cup TerminalStatuses
    BY <1>1, HandlerKnows
  <1>3. Good(db, {}) /\ Core(db)
    BY DEF IInv, Good
  <1>4. CASE may
    <2>1. Good(f, {}) /\ Onward(db, f, {k}) /\ f.att[k] \notin {"pending", "running"}
      BY <1>2, <1>3, <1>4, SuspendForPauseGood
    <2>2. e = f
      BY <1>4
    <2> HIDE DEF e, f
    <2>3. db.pause[k].status = "absent" /\ OwnsJob(db, h, <<k, "step">>)
      BY <1>2, <1>3, <1>4 DEF Core, RowsFit
    <2>4. Good(e, {}) /\ Onward(db, e, {k}) /\ e.att[k] \notin {"pending", "running"}
      BY <2>1, <2>2
    <2> QED
      BY <1>1, <1>2, <2>3, <2>4, CommitStep
  <1>5. CASE ~may
    <2>1. e = db
      BY <1>5
    <2> HIDE DEF e
    <2>2. OwnsJob(db, h, j) => db.att[k] \notin {"pending", "running"}
      BY <1>2, <1>5, LiveLocked DEF ActiveStatuses, TerminalStatuses
    <2>3. Onward(db, db, {})
      BY OnwardSame
    <2> QED
      BY <1>1, <1>2, <1>3, <2>1, <2>2, <2>3, CommitStep
  <1> QED
    BY <1>4, <1>5
(* It suspends the step for a child.                                       *)
LEMMA SuspendForChildStep ==
    ASSUME IInv, NEW h \in Handlers, NEW kid \in Kids, SuspendForChild(h, kid)
    PROVE  IInv' /\ Final(db, db')
  <1> DEFINE j == handler[h].job
             k == AttemptOf(h)
             may == /\ LockActiveAttempt(db, k)
                    /\ db.run[Root].status = "running"
                    /\ db.att[k] = "running"
                    /\ OwnsJob(db, h, j)
             e == IF may THEN Spawn(db, k, kid) ELSE db
  <1>1. /\ handler[h].pc = "outcome" /\ k[1] = Root /\ db.run[kid].status = "absent"
        /\ Commit(h, e)
    BY DEF SuspendForChild, At, RunOf
  <1>2. /\ handler[h].pc # "idle" /\ k \in Attempts /\ j[2] = "step" /\ j = <<k, "step">>
        /\ OwnsJob(db, h, j) => db.att[k] \in {"running"} \cup TerminalStatuses
    BY <1>1, HandlerKnows
  <1>3. Good(db, {}) /\ Core(db)
    BY DEF IInv, Good
  <1>4. CASE may
    <2>1. e = Spawn(db, k, kid)
      BY <1>4
    <2> HIDE DEF e
    <2>2. Good(e, {}) /\ Onward(db, e, {k}) /\ e.att[k] \notin {"pending", "running"}
      BY <1>1, <1>2, <1>3, <1>4, <2>1, SpawnGood
    <2>3. db.pause[k].status = "absent" /\ OwnsJob(db, h, <<k, "step">>)
      BY <1>2, <1>3, <1>4 DEF Core, RowsFit
    <2> QED
      BY <1>1, <1>2, <2>2, <2>3, CommitStep
  <1>5. CASE ~may
    <2>1. e = db
      BY <1>5
    <2> HIDE DEF e
    <2>2. OwnsJob(db, h, j) => db.att[k] \notin {"pending", "running"}
      BY <1>1, <1>2, <1>5, LiveLocked DEF ActiveStatuses, TerminalStatuses
    <2>3. Onward(db, db, {})
      BY OnwardSame
    <2> QED
      BY <1>1, <1>2, <1>3, <2>1, <2>2, <2>3, CommitStep
  <1> QED
    BY <1>4, <1>5

(* The handler of a pause's timeout job.                                   *)
LEMMA ResolvePauseTimeoutStep ==
    ASSUME IInv, NEW h \in Handlers, ResolvePauseTimeout(h)
    PROVE  IInv' /\ Final(db, db')
  <1> DEFINE j == handler[h].job
             k == AttemptOf(h)
             open == /\ db.run[k[1]].status \in ActiveStatuses
                     /\ OwnsJob(db, h, j)
                     /\ db.pause[k].status = "open"
             e == ResolvePause(db, k, "timed_out")
  <1>1. handler[h].pc = "resolve"
    BY DEF ResolvePauseTimeout, At
  <1>2. handler[h].pc # "idle" /\ k \in Attempts /\ j[2] = "timeout"
    BY <1>1, HandlerKnows
  <1>3. Good(db, {}) /\ Core(db)
    BY DEF IInv, Good
  <1>4. CASE open /\ Commit(h, e)
    <2>1. Good(e, {}) /\ Onward(db, e, {}) /\ e.pause[k].status = "timed_out"
      BY <1>2, <1>3, <1>4, ClosePauseGood
    <2> HIDE DEF e
    <2> QED
      BY <1>2, <1>4, <2>1, CommitStep
  <1>5. CASE ~open /\ Goto(h, "return") /\ UNCHANGED <<db, canceling, faults>>
    <2>1. OwnsJob(db, h, j) => db.pause[k].status # "open"
      <3>1. db.pause[k].status = "open" => db.att[k] \in ActiveStatuses
        BY <1>2, <1>3 DEF Core, RowsFit, ActiveStatuses
      <3> QED
        BY <3>1, <1>2, <1>5, LiveLocked DEF LockActiveAttempt
    <2> QED
      BY <1>2, <1>5, <2>1, GoStep
  <1>6. CASE Goto(h, "defer") /\ UNCHANGED <<db, canceling, faults>>
    BY <1>2, <1>6, GoStep
  <1> QED
    BY <1>4, <1>5, <1>6 DEF ResolvePauseTimeout

-----------------------------------------------------------------------------
(* The steps of the sweeps and of callers from outside.                    *)

(* An exhausted job fails its attempt (handleExhaustedJob).                *)
LEMMA HandleExhaustedJobStep ==
    ASSUME IInv, NEW j \in JobIds, HandleExhaustedJob(j)
    PROVE  IInv' /\ Final(db, db')
  <1> DEFINE k == j[1]
             retry == j[2] # "step"
             may == LockActiveAttempt(db, k) /\ db.att[k] \in ActiveStatuses
             d == IF may THEN FailStep(db, k, {}, retry) ELSE db
  <1>1. /\ db' = SetJob(d, j, Job("landed"))
        /\ handler' = handler /\ canceling' = canceling /\ faults' = faults
        /\ db.job[j].status # "absent"
    BY DEF HandleExhaustedJob, SetJob
  <1>2. k \in Attempts /\ j[2] \in {"step", "timeout"} /\ retry \in BOOLEAN
    BY JobShape
  <1>3. Good(d, {}) /\ Onward(db, d, {}) /\ d.att[k] \notin ActiveStatuses
    <2>1. CASE may
      <3>1. d = FailStep(db, k, {}, retry)
        BY <2>1
      <3> HIDE DEF d, retry
      <3>2. Good(d, {}) /\ Onward(db, d, {}) /\ d.att[k] \in TerminalStatuses
        BY <1>2, <2>1, <3>1, FailStepGood DEF IInv
      <3> QED
        BY <3>2 DEF TerminalStatuses, ActiveStatuses
    <2>2. CASE ~may
      <3>1. d = db
        BY <2>2
      <3> HIDE DEF d
      <3>2. db.att[k] \notin ActiveStatuses
        BY <1>2, <2>2, LiveLocked
      <3> QED
        BY <3>1, <3>2, OnwardSame DEF IInv
    <2> QED
      BY <2>1, <2>2
  <1> HIDE DEF d, k
  <1>4. Job("landed") \in JobRow /\ Job("landed").status \notin {"absent", "running"}
    BY DEF Job, JobRow
  <1>5. d.job[j].status # "absent"
    BY <1>1, <1>3 DEF Onward
  <1>6. \/ j[2] = "step" /\ d.att[j[1]] \notin {"pending", "running"}
        \/ j[2] = "timeout" /\ (d.pause[j[1]].status # "open" \/ d.att[j[1]] \notin ActiveStatuses)
    BY <1>2, <1>3 DEF k, ActiveStatuses
  <1>7. Good(db', {}) /\ JobSet(d, db', j, Job("landed"))
    BY <1>1, <1>3, <1>4, <1>5, <1>6, SetJobGood
  <1>8. Onward(db, db', {})
    <2>1. Onward(d, db', {})
      BY <1>4, <1>7, JobSetOnward
    <2> QED
      BY <1>3, <2>1, OnwardTrans
  <1> QED
    BY <1>1, <1>7, <1>8, OthersGo DEF IInv

(* The receipt of an exhausted job.                                        *)
LEMMA ConfirmExhaustionHandledStep ==
    ASSUME IInv, NEW j \in JobIds, ConfirmExhaustionHandled(j)
    PROVE  IInv' /\ Final(db, db')
  <1>1. /\ db' = SetJob(db, j, Job("receipted"))
        /\ handler' = handler /\ canceling' = canceling /\ faults' = faults
        /\ db.job[j].status = "landed"
    BY DEF ConfirmExhaustionHandled, SetJob
  <1>2. Job("receipted") \in JobRow /\ Job("receipted").status \notin {"absent", "running"}
    BY DEF Job, JobRow
  <1>3. ~LiveJob(db, j) /\ db.job[j].status # "failed" /\ db.job[j].status # "absent"
    BY <1>1 DEF LiveJob
  <1>4. Good(db', {}) /\ JobSet(db, db', j, Job("receipted"))
    BY <1>1, <1>2, <1>3, SetJobGood DEF IInv
  <1>5. Onward(db, db', {})
    BY <1>2, <1>4, JobSetOnward
  <1> QED
    BY <1>1, <1>4, <1>5, OthersGo DEF IInv

(* The clock passes a pause's timeout.                                     *)
Expire(d, k) == [d EXCEPT !.pause[k].expired = TRUE]

(* The clock writes so.                                                    *)
LEMMA ExpireRows ==
    ASSUME NEW d \in DB, NEW k \in Attempts
    PROVE  LET e == Expire(d, k)
           IN  /\ e \in DB
               /\ e.run = d.run /\ e.att = d.att /\ e.signal = d.signal /\ e.job = d.job
               /\ \A x \in Attempts : /\ e.pause[x].status = d.pause[x].status
                                      /\ e.pause[x].name = d.pause[x].name
                                      /\ e.pause[x].timed = d.pause[x].timed
  <1> DEFINE e == Expire(d, k)
             row == [d.pause[k] EXCEPT !.expired = TRUE]
             P == [d.pause EXCEPT ![k] = row]
  <1>1. row \in PauseRow /\ row.status = d.pause[k].status /\ row.name = d.pause[k].name
        /\ row.timed = d.pause[k].timed
    BY Rows DEF PauseRow
  <1>2. e = [d EXCEPT !.pause = P]
    BY DEF DB, Expire
  <1> HIDE DEF row, e
  <1>3. P \in [Attempts -> PauseRow] /\ \A x \in Attempts : P[x] = IF x = k THEN row ELSE d.pause[x]
    BY <1>1 DEF DB
  <1> HIDE DEF P
  <1>4. e \in DB /\ e.pause = P
        /\ e.run = d.run /\ e.att = d.att /\ e.signal = d.signal /\ e.job = d.job
    BY <1>2, <1>3 DEF DB
  <1>5. \A x \in Attempts : /\ e.pause[x].status = d.pause[x].status
                            /\ e.pause[x].name = d.pause[x].name
                            /\ e.pause[x].timed = d.pause[x].timed
    BY <1>1, <1>3, <1>4
  <1> QED
    BY <1>4, <1>5 DEF e

(* A pause's timeout passes.                                               *)
LEMMA PauseExpiresStep ==
    ASSUME IInv, NEW k \in Attempts, PauseExpires(k)
    PROVE  IInv' /\ Final(db, db')
  <1>1. /\ db' = Expire(db, k)
        /\ handler' = handler /\ canceling' = canceling /\ faults' = faults
    BY DEF PauseExpires, Expire
  <1>2. Core(db) /\ SignalsFit(db) /\ db \in DB /\ \A q \in Runs : Moves(db, q, {})
    BY DEF IInv, Good, Core
  <1>3. /\ db' \in DB
        /\ db'.run = db.run /\ db'.att = db.att /\ db'.signal = db.signal /\ db'.job = db.job
        /\ \A x \in Attempts : /\ db'.pause[x].status = db.pause[x].status
                               /\ db'.pause[x].name = db.pause[x].name
                               /\ db'.pause[x].timed = db.pause[x].timed
    BY <1>1, <1>2, ExpireRows
  <1> DEFINE e == db'
  <1> HIDE DEF e
  <1>4. Core(e)
    BY <1>2, <1>3, FrameCore DEF e
  <1>5. SignalsFit(e)
    BY <1>2, <1>3, SignalsFrame DEF e
  <1>6. ASSUME NEW q \in Runs PROVE Moves(e, q, {})
    <2>1. Untouched(db, e, q) /\ KidsKeep(db, e, {})
      BY <1>3 DEF Untouched, KidsKeep, HasJob, LiveJob, e
    <2> QED
      BY <1>2, <2>1, MovesFrame
  <1>7. Good(e, {})
    BY <1>4, <1>5, <1>6 DEF Good
  <1>8. Onward(db, e, {})
    BY <1>3 DEF Onward, e
  <1> QED
    BY <1>1, <1>7, <1>8, OthersGo DEF IInv, e

(* Someone resumes a pause (resumePause).                                  *)
LEMMA ResumePauseStep ==
    ASSUME IInv, NEW k \in Attempts, ResumePause(k)
    PROVE  IInv' /\ Final(db, db')
  <1> DEFINE s == IF db.pause[k].expired THEN "timed_out" ELSE "resumed"
  <1>1. /\ db.pause[k].status = "open"
        /\ db' = ResolvePause(db, k, s)
        /\ handler' = handler /\ canceling' = canceling /\ faults' = faults
    BY DEF ResumePause
  <1>2. s \in {"resumed", "timed_out"}
    OBVIOUS
  <1> HIDE DEF s
  <1>3. Good(db', {}) /\ Onward(db, db', {})
    BY <1>1, <1>2, ClosePauseGood DEF IInv
  <1> QED
    BY <1>1, <1>3, OthersGo DEF IInv

(* A signal arrives, and the pause that waits for it, if any, takes it.    *)
LEMMA SignalByKeyStep ==
    ASSUME IInv, NEW r \in Runs, NEW n \in Names, SignalByKey(r, n)
    PROVE  IInv' /\ Final(db, db')
  <1> DEFINE d == Receive(db, r, n)
             open == {k \in AttemptsOf({r}) : d.pause[k].status = "open" /\ d.pause[k].name = n}
             e == IF open = {} THEN d ELSE ResolveNamedPause(d, CHOOSE k \in open : TRUE)
  <1>1. /\ db.run[r].status \in ActiveStatuses /\ Len(db.signal[r]) < MaxReceipts
        /\ handler' = handler /\ canceling' = canceling /\ faults' = faults
        /\ db' = e
    BY DEF SignalByKey, Receive
  <1>2. Core(db) /\ SignalsFit(db) /\ db \in DB /\ \A q \in Runs : Moves(db, q, {})
    BY DEF IInv, Good, Core
  <1>3. Received(db, d, r, n)
    BY <1>2, ReceiveRows
  <1>4. \A k \in open : k \in Attempts /\ k[1] = r /\ d.pause[k].status = "open" /\ d.pause[k].name = n
    BY DEF AttemptsOf
  <1>5. \A k \in Attempts : k[1] = r /\ d.pause[k].status = "open" /\ d.pause[k].name = n => k \in open
    BY DEF AttemptsOf
  <1>6. Onward(db, d, {})
    BY <1>3, ReceivedOnward
  <1> HIDE DEF d, open
  <1>7. /\ d \in DB /\ d.run = db.run /\ d.att = db.att /\ d.pause = db.pause /\ d.job = db.job
    BY <1>3 DEF Received
  <1>8. Core(d)
    BY <1>2, <1>7, FrameCore
  <1>9. /\ \A q \in Runs : InOrder(d, q)
        /\ \A x \in Attempts : ~(x[1] = r /\ d.pause[x].status = "open" /\ d.pause[x].name = n) => Heard(d, x)
    BY <1>1, <1>2, <1>3, ReceiveSignals
  <1>10. ASSUME NEW q \in Runs PROVE Moves(d, q, {})
    <2>1. Moves(db, q, {})
      BY <1>2
    <2> QED
      BY <2>1, <1>7 DEF Moves, Active, OnPause, HasJob, LiveJob
  <1>11. Good(e, {}) /\ Onward(db, e, {})
    <2>1. CASE open = {}
      <3>1. \A x \in Attempts : Heard(d, x)
        BY <1>5, <1>9, <2>1
      <3>2. Good(d, {})
        BY <1>8, <1>9, <1>10, <3>1 DEF Good, SignalsFit
      <3> QED
        BY <1>6, <2>1, <3>2
    <2>2. CASE open # {}
      <3> DEFINE k == CHOOSE k \in open : TRUE
      <3>1. k \in open
        BY <2>2
      <3>2. e = ResolveNamedPause(d, k)
        BY <2>2
      <3> HIDE DEF k, e
      <3>3. k \in Attempts /\ k[1] = r /\ d.pause[k].status = "open"
        BY <1>4, <3>1
      <3>4. \A x \in Attempts \ {k} : Heard(d, x)
        <4>1. SUFFICES ASSUME NEW x \in Attempts, x[1] = r, d.pause[x].status = "open" PROVE x = k
          BY <1>9
        <4>2. d.att[x] \in ActiveStatuses /\ d.att[k] \in ActiveStatuses /\ LockActiveAttempt(d, k)
          BY <1>8, <3>3, <4>1 DEF Core, RowsFit, LiveFits, ActiveStatuses
        <4> QED
          BY <1>8, <3>3, <4>1, <4>2, OneLive
      <3>5. /\ Onward(d, e, {})
            /\ Good(e, {}) \/ (e = d /\ SignalsFit(d))
        BY <1>8, <1>9, <1>10, <3>2, <3>3, <3>4, ResolveNamedPauseGood
      <3>6. Good(e, {})
        BY <1>8, <1>10, <3>5 DEF Good
      <3>7. Onward(db, e, {})
        BY <1>6, <3>5, OnwardTrans
      <3> QED
        BY <3>6, <3>7
    <2> QED
      BY <2>1, <2>2
  <1> HIDE DEF e
  <1> QED
    BY <1>1, <1>11, OthersGo DEF IInv

(* cancel, its first transaction.                                          *)
LEMMA CancelStep ==
    ASSUME IInv, NEW r \in Runs, Cancel(r)
    PROVE  IInv' /\ Final(db, db')
  <1> DEFINE S == {c \in Hierarchy(r) : db.run[c].status \notin TerminalStatuses}
             e == EndRuns(CancelJobs(EndAttempts(db, AttemptsOf(S), "canceled"), JobsOf(S)), S, "canceled")
  <1>1. /\ db' = e /\ handler' = handler /\ faults' = faults
        /\ db.run[r].status # "absent"
        /\ canceling' \subseteq canceling \cup {r}
    BY DEF Cancel, CancelRuns
  <1>2. Core(db) /\ SignalsFit(db) /\ db \in DB /\ (\A q \in Runs : Moves(db, q, {}))
        /\ canceling \subseteq Runs
    BY DEF IInv, Good, Core
  <1>3. S \in SUBSET Runs
    BY DEF Hierarchy
  <1>4. ASSUME NEW c \in S PROVE db.run[c].status \in ActiveStatuses
    <2>1. db.run[c].status # "absent"
      BY <1>1, <1>2, RunsShape DEF Hierarchy, Core, LinksFit
    <2>2. db.run[c].status \in AttStatus
      BY <1>2, <1>3, Rows
    <2> QED
      BY <2>1, <2>2 DEF AttStatus
  <1> HIDE DEF S
  <1>5. Good(e, IF "canceled" = "failed" THEN S ELSE {}) /\ Onward(db, e, {})
    <2>1. "canceled" \in {"failed", "canceled"} /\ JobsOf(S) \subseteq JobsOf(S)
          /\ \A q \in Runs \ S : Moves(db, q, {})
      BY <1>2
    <2> QED
      BY <1>2, <1>3, <1>4, <2>1, RunsEndGood, ZenonT(60)
  <1> HIDE DEF e
  <1>6. Good(e, {}) /\ canceling' \subseteq Runs
    BY <1>1, <1>2, <1>5
  <1> QED
    BY <1>1, <1>5, <1>6, OthersGo

(* cancel, its second transaction.                                         *)
LEMMA CancelReconcilesStep ==
    ASSUME IInv, NEW r \in Runs, CancelReconciles(r)
    PROVE  IInv' /\ Final(db, db')
  <1> DEFINE e == IF db.run[r].status \in TerminalStatuses THEN FinishParent(db, r) ELSE db
  <1>1. /\ db' = e /\ handler' = handler /\ faults' = faults
        /\ canceling' = canceling \ {r} /\ canceling \subseteq Runs
    BY DEF CancelReconciles, IInv
  <1>2. Good(e, {}) /\ Onward(db, e, {})
    <2>1. CASE db.run[r].status \in TerminalStatuses
      <3>1. Good(db, {r})
        BY GoodMore DEF IInv
      <3>2. Good(FinishParent(db, r), {}) /\ Onward(db, FinishParent(db, r), {})
        BY <2>1, <3>1, FinishParentGood
      <3> QED
        BY <2>1, <3>2
    <2>2. CASE db.run[r].status \notin TerminalStatuses
      BY <2>2, OnwardSame DEF IInv
    <2> QED
      BY <2>1, <2>2
  <1> HIDE DEF e
  <1> QED
    BY <1>1, <1>2, OthersGo

(* cancel never gets to its second transaction.                            *)
LEMMA CancelCrashesStep ==
    ASSUME IInv, NEW r \in Runs, CancelCrashes(r)
    PROVE  IInv' /\ Final(db, db')
  <1>1. db' = db /\ handler' = handler /\ faults' = faults /\ canceling' = canceling \ {r}
    BY DEF CancelCrashes
  <1>2. Good(db', {}) /\ Onward(db, db', {}) /\ canceling' \subseteq Runs
    BY <1>1, OnwardSame DEF IInv
  <1> QED
    BY <1>1, <1>2, OthersGo

(* The tree fails as one: no descendant reports to a parent that is left.  *)
LEMMA FailRunTreeStep ==
    ASSUME IInv, FailRunTree
    PROVE  IInv' /\ Final(db, db')
  <1> DEFINE S == {c \in Hierarchy(Root) : db.run[c].status \in ActiveStatuses}
             e == FailRuns(db, S, {})
  <1>1. db' = e /\ handler' = handler /\ faults' = faults /\ canceling' = canceling /\ canceling \subseteq Runs
    BY DEF FailRunTree, IInv
  <1>2. Core(db) /\ SignalsFit(db) /\ db \in DB /\ \A q \in Runs : Moves(db, q, {})
    BY DEF IInv, Good, Core
  <1>3. S \in SUBSET Runs /\ \A c \in S : db.run[c].status \in ActiveStatuses
    BY RunsShape DEF Hierarchy
  <1>4. Root \in Runs /\ db.run[Root].status \in ActiveStatuses => Root \in S
    BY RunsShape DEF Hierarchy
  <1> HIDE DEF S
  <1>5. Good(e, S) /\ Onward(db, e, {})
        /\ \A r \in Runs : e.run[r].status = IF r \in S THEN "failed" ELSE db.run[r].status
    BY <1>2, <1>3, FailRunsGood
  <1> HIDE DEF e
  <1>6. e.run[Root].status \notin ActiveStatuses
    BY <1>4, <1>5, RunsShape DEF ActiveStatuses
  <1>7. Good(e, {})
    BY <1>5, <1>6, Reported
  <1> QED
    BY <1>1, <1>5, <1>7, OthersGo

-----------------------------------------------------------------------------
(* The invariant holds initially: one run, with its first attempt.         *)
LEMMA InitInv == Init => IInv
  <1> SUFFICES ASSUME Init PROVE IInv
    OBVIOUS
  <1> DEFINE R == [r \in Runs |-> [status |-> IF r = Root THEN "pending" ELSE "absent",
                                   step |-> 0, active |-> 0, parent |-> NoAttempt]]
             A == [k \in Attempts |-> "absent"]
             P == [k \in Attempts |-> [status |-> "absent", name |-> NoName,
                                       timed |-> FALSE, expired |-> FALSE]]
             Q == [r \in Runs |-> <<>>]
             J == [j \in JobIds |-> Job("absent")]
             d == [run |-> R, att |-> A, pause |-> P, signal |-> Q, job |-> J]
             n == <<Root, 1, 1>>
  <1>1. /\ db = CreateStepAttempt(d, n) /\ handler = [h \in Handlers |-> Idle]
        /\ canceling = {} /\ faults = 0
    BY DEF Init
  <1>2. n \in Attempts /\ n[1] = Root /\ n[2] = 1 /\ n[3] = 1 /\ Root \in Runs
    BY AttemptShape, PlanShape, RunsShape
  <1>3. R \in [Runs -> RunRow]
    BY DEF RunRow, ActiveStatuses
  <1>4. A \in [Attempts -> AttStatus]
    BY DEF AttStatus
  <1>5. P \in [Attempts -> PauseRow]
    BY DEF PauseRow
  <1>6. Q \in [Runs -> Seq(SignalRow)]
    OBVIOUS
  <1>7. J \in [JobIds -> JobRow]
    BY DEF Job, JobRow
  <1>8. /\ \A r \in Runs : /\ R[r].status = IF r = Root THEN "pending" ELSE "absent"
                           /\ R[r].step = 0 /\ R[r].active = 0 /\ R[r].parent = NoAttempt
        /\ \A k \in Attempts : A[k] = "absent" /\ P[k].status = "absent"
        /\ \A r \in Runs : Len(Q[r]) = 0 /\ DOMAIN Q[r] = {}
        /\ \A j \in JobIds : J[j].status = "absent"
    BY DEF Job
  <1> HIDE DEF R, A, P, Q, J, n
  <1>9. d \in DB /\ d.run = R /\ d.att = A /\ d.pause = P /\ d.signal = Q /\ d.job = J
    BY <1>3, <1>4, <1>5, <1>6, <1>7 DEF DB, AttStatus
  <1> HIDE DEF d
  <1>10. Created(d, db, n)
    BY <1>1, <1>2, <1>9, CreateRows
  <1>11. /\ db \in DB
         /\ \A k \in Attempts : /\ db.att[k] = IF k = n THEN "pending" ELSE "absent"
                                /\ db.pause[k].status = "absent"
         /\ \A r \in Runs : Len(db.signal[r]) = 0 /\ DOMAIN db.signal[r] = {}
         /\ \A j \in JobIds : j # <<n, "step">> => db.job[j].status = "absent"
         /\ db.job[<<n, "step">>] = Job("pending")
    <2>1. db \in DB /\ db.pause = P /\ db.signal = Q
      BY <1>9, <1>10 DEF Created
    <2>2. \A k \in Attempts : db.att[k] = IF k = n THEN "pending" ELSE A[k]
      BY <1>9, <1>10 DEF Created
    <2>3. \A j \in JobIds : db.job[j] = IF j = <<n, "step">> THEN Job("pending") ELSE J[j]
      BY <1>9, <1>10 DEF Created
    <2>4. <<n, "step">> \in JobIds
      BY <1>2, JobShape
    <2>5. \A k \in Attempts : db.att[k] = IF k = n THEN "pending" ELSE "absent"
      BY <2>2, <1>8
    <2>6. \A j \in JobIds : j # <<n, "step">> => db.job[j].status = "absent"
      BY <2>3, <1>8
    <2>7. db.job[<<n, "step">>] = Job("pending")
      BY <2>3, <2>4
    <2> QED
      BY <2>1, <2>5, <2>6, <2>7, <1>8
  <1>12. /\ \A r \in Runs : r # Root => db.run[r].status = "absent" /\ db.run[r].step = 0 /\ db.run[r].active = 0
         /\ \A r \in Runs : db.run[r].parent = NoAttempt
         /\ db.run[Root].status = "pending" /\ db.run[Root].step = 1 /\ db.run[Root].active = 1
    BY <1>2, <1>8, <1>9, <1>10 DEF Created, ActiveStatuses
  <1>13. RunsFit(db)
    <2>1. ASSUME NEW r \in Runs PROVE RunFits(db, r)
      BY <1>12, <2>1, PlanShape DEF RunFits
    <2> QED
      BY <2>1 DEF RunsFit
  <1>14. LiveFits(db)
    <2>1. LockActiveAttempt(db, n)
      BY <1>2, <1>12 DEF LockActiveAttempt, IsActiveAttempt, ActiveStatuses
    <2> QED
      BY <2>1, <1>11 DEF LiveFits, ActiveStatuses
  <1>15. NoneAhead(db)
    <2>1. NotAhead(db, n)
      BY <1>2, <1>12 DEF NotAhead
    <2> QED
      BY <2>1, <1>11 DEF NoneAhead
  <1>16. DoneOnce(db)
    BY <1>11 DEF DoneOnce
  <1>17. DoneAll(db)
    <2>1. ASSUME NEW r \in Runs, NEW s \in 1..Steps[r] PROVE ~(s < db.run[r].step) /\ db.run[r].status # "completed"
      BY <1>12, PlanShape
    <2> QED
      BY <2>1 DEF DoneAll
  <1>18. RowsFit(db)
    <2>1. \A k \in Attempts : k # n => <<k, "step">> # <<n, "step">>
      OBVIOUS
    <2>2. \A k \in Attempts : <<k, "timeout">> # <<n, "step">>
      OBVIOUS
    <2> QED
      BY <2>1, <2>2, <1>2, <1>11, JobShape DEF RowsFit
  <1>19. LinksFit(db)
    BY <1>12, RunsShape DEF LinksFit
  <1>20. Core(db)
    BY <1>11, <1>13, <1>14, <1>15, <1>16, <1>17, <1>18, <1>19 DEF Core
  <1>21. SignalsFit(db)
    <2>1. ASSUME NEW r \in Runs PROVE InOrder(db, r)
      BY <1>11, <2>1, BoundsAssumption DEF InOrder
    <2>2. ASSUME NEW k \in Attempts PROVE Heard(db, k)
      BY <1>11, <2>2 DEF Heard
    <2> QED
      BY <2>1, <2>2 DEF SignalsFit
  <1>22. ASSUME NEW r \in Runs PROVE Moves(db, r, {})
    <2>1. CASE r = Root
      <3>1. Active(db, Root) = n
        BY <1>12 DEF Active, n
      <3>2. HasJob(db, n, "step")
        BY <1>11 DEF HasJob, LiveJob, Job
      <3> QED
        BY <2>1, <3>1, <3>2, <1>2, <1>11, <1>12 DEF Moves
    <2>2. CASE r # Root
      BY <2>2, <1>12 DEF Moves, ActiveStatuses
    <2> QED
      BY <2>1, <2>2
  <1>23. Good(db, {})
    BY <1>20, <1>21, <1>22 DEF Good
  <1>24. /\ Idle \in HandlerState /\ Idle.pc = "idle"
         /\ \A h \in Handlers : handler[h] = Idle
    BY <1>1 DEF Idle, HandlerState
  <1>25. handler \in [Handlers -> HandlerState] /\ \A h \in Handlers : HandlerFits(db, handler[h], h)
    BY <1>1, <1>24 DEF HandlerFits
  <1> QED
    BY <1>1, <1>23, <1>25, BoundsAssumption DEF IInv

(* Every step keeps it, and what has ended.                                *)
LEMMA NextInv == IInv /\ [Next]_vars => IInv' /\ Final(db, db')
  <1> SUFFICES ASSUME IInv, [Next]_vars PROVE IInv' /\ Final(db, db')
    OBVIOUS
  <1>1. CASE UNCHANGED vars
    <2>1. Good(db', {}) /\ Onward(db, db', {}) /\ handler' = handler /\ canceling' \subseteq Runs
          /\ faults' = faults
      BY <1>1, OnwardSame DEF vars, IInv
    <2> QED
      BY <2>1, OthersGo
  <1>2. ASSUME NEW h \in Handlers, Handle(h) PROVE IInv' /\ Final(db, db')
    <2>1. CASE BeginAttempt(h)
      BY <2>1, BeginAttemptStep
    <2>2. CASE InvokeRuntime(h)
      BY <2>2, InvokeRuntimeStep
    <2>3. CASE HandlerCompletes(h)
      BY <2>3, HandlerCompletesStep
    <2>4. CASE HandlerFails(h, TRUE) \/ HandlerFails(h, FALSE)
      BY <2>4, HandlerFailsStep
    <2>5. ASSUME NEW n \in Names \cup {NoName}, NEW t \in BOOLEAN, SuspendForPause(h, n, t)
          PROVE  IInv' /\ Final(db, db')
      BY <2>5, SuspendForPauseStep
    <2>6. ASSUME NEW kid \in Kids, SuspendForChild(h, kid) PROVE IInv' /\ Final(db, db')
      BY <2>6, SuspendForChildStep
    <2>7. CASE ResolvePauseTimeout(h)
      BY <2>7, ResolvePauseTimeoutStep
    <2>8. CASE JobComplete(h) \/ JobFail(h) \/ JobDefer(h)
      BY <2>8, JobStep
    <2> QED
      BY <1>2, <2>1, <2>2, <2>3, <2>4, <2>5, <2>6, <2>7, <2>8 DEF Handle
  <1>3. ASSUME NEW r \in Runs, Operate(r) \/ CancelReconciles(r) PROVE IInv' /\ Final(db, db')
    <2>1. ASSUME NEW n \in Names, SignalByKey(r, n) PROVE IInv' /\ Final(db, db')
      BY <2>1, SignalByKeyStep
    <2> QED
      BY <1>3, <2>1, CancelStep, CancelCrashesStep, CancelReconcilesStep DEF Operate
  <1>4. ASSUME NEW h \in Handlers, (\E j \in JobIds : Claim(h, j)) \/ Throttled(h) \/ Crash(h)
        PROVE  IInv' /\ Final(db, db')
    BY <1>4, ClaimStep, ThrottledStep, CrashStep
  <1>5. ASSUME NEW j \in JobIds, Lapse(j) \/ HandleExhaustedJob(j) \/ ConfirmExhaustionHandled(j)
        PROVE  IInv' /\ Final(db, db')
    BY <1>5, LapseStep, HandleExhaustedJobStep, ConfirmExhaustionHandledStep
  <1>6. ASSUME NEW k \in Attempts, PauseExpires(k) \/ ResumePause(k) PROVE IInv' /\ Final(db, db')
    BY <1>6, PauseExpiresStep, ResumePauseStep
  <1>7. CASE FailRunTree
    BY <1>7, FailRunTreeStep
  <1> QED
    BY <1>1, <1>2, <1>3, <1>4, <1>5, <1>6, <1>7 DEF Next

(* The inductive invariant holds in every reachable state.                 *)
THEOREM Invariance == Spec => []IInv
  <1>1. IInv /\ [Next]_vars => IInv'
    BY NextInv
  <1> QED
    BY InitInv, <1>1, PTL DEF Spec

-----------------------------------------------------------------------------
(* The rows and the handlers keep their types, attempt numbers stay within *)
(* the retry policy and signals within their limit.                        *)
THEOREM TypeCorrect == Spec => []TypeOK
  <1>1. IInv => TypeOK
    <2> SUFFICES ASSUME IInv PROVE TypeOK
      OBVIOUS
    <2>1. db \in DB /\ RunsFit(db) /\ SignalsFit(db)
      BY DEF IInv, Good, Core
    <2> QED
      BY <2>1 DEF IInv, TypeOK, RunsFit, RunFits, SignalsFit, InOrder
  <1> QED
    BY <1>1, Invariance, PTL

(* A run has at most one attempt that may still change, the one its state  *)
(* row names, and a run that ended has none, whatever retries, pauses,     *)
(* children and cancels race (lockActiveAttempt, cleanupRunScope, cancel). *)
THEOREM OneLiveAttemptHolds == Spec => []OneLiveAttempt
  <1>1. IInv => OneLiveAttempt
    BY DEF IInv, Good, Core, LiveFits, LockActiveAttempt, OneLiveAttempt
  <1> QED
    BY <1>1, Invariance, PTL

(* A step is reached only through a completed attempt of the step before   *)
(* it, and no step completes twice (advance, createStepAttempt).           *)
THEOREM StepsInOrderHolds == Spec => []StepsInOrder
  <1>1. IInv => StepsInOrder
    <2> SUFFICES ASSUME IInv, NEW r \in Runs, NEW s \in 1..Steps[r]
                 PROVE  LET done == {n \in 1..MaxAttempts[r] : db.att[<<r, s, n>>] = "completed"}
                        IN  /\ Cardinality(done) <= 1
                            /\ s < db.run[r].step \/ db.run[r].status = "completed" => done # {}
      BY DEF StepsInOrder
    <2> DEFINE done == {n \in 1..MaxAttempts[r] : db.att[<<r, s, n>>] = "completed"}
    <2>1. DoneOnce(db) /\ DoneAll(db)
      BY DEF IInv, Good, Core
    <2>2. ASSUME NEW n \in done, NEW m \in done PROVE n = m
      <3>1. <<r, s, n>> \in Attempts /\ <<r, s, m>> \in Attempts
        BY AttemptShape
      <3>2. <<r, s, n>> = <<r, s, m>>
        BY <2>1, <2>2, <3>1 DEF DoneOnce
      <3> QED
        BY <3>2
    <2>3. Cardinality(done) <= 1
      <3>1. CASE done = {}
        <4> HIDE DEF done
        <4>1. Cardinality({}) = 0
          BY FS_EmptySet
        <4> QED
          BY <3>1, <4>1
      <3>2. CASE done # {}
        <4>1. PICK n \in done : TRUE
          BY <3>2
        <4>2. done = {n}
          BY <2>2, <4>1
        <4> HIDE DEF done
        <4>3. Cardinality({n}) = 1
          BY FS_Singleton
        <4> QED
          BY <4>2, <4>3
      <3> QED
        BY <3>1, <3>2
    <2>4. ASSUME s < db.run[r].step \/ db.run[r].status = "completed" PROVE done # {}
      <3>1. PICK k \in Attempts : k[1] = r /\ k[2] = s /\ db.att[k] = "completed"
        BY <2>1, <2>4 DEF DoneAll
      <3>2. k[3] \in 1..MaxAttempts[r]
        BY <3>1, AttemptShape, PlanShape
      <3>3. k = <<k[1], k[2], k[3]>>
        BY DEF Attempts
      <3> QED
        BY <3>1, <3>2, <3>3
    <2> QED
      BY <2>3, <2>4
  <1> QED
    BY <1>1, Invariance, PTL

(* A step attempt starts at most one child, however often its job is       *)
(* delivered (suspendForChild).                                            *)
THEOREM OneChildPerAttemptHolds == Spec => []OneChildPerAttempt
  <1>1. IInv => OneChildPerAttempt
    BY DEF IInv, Good, Core, LinksFit, OneChildPerAttempt
  <1> QED
    BY <1>1, Invariance, PTL

(* An active run is never left with nothing that will move it on: a job of *)
(* its active attempt, an open pause, or a child that will report          *)
(* (createStepAttempt, suspendForPause, finishParent).                     *)
THEOREM DrivenHolds == Spec => []Driven
  <1>1. IInv => Driven
    <2> SUFFICES ASSUME IInv, NEW r \in Runs, db.run[r].status \in ActiveStatuses
                 PROVE  LET k == <<r, db.run[r].step, db.run[r].active>>
                        IN  /\ db.run[r].active # 0
                            /\ \/ db.att[k] \in {"pending", "running"} /\ HasJob(db, k, "step")
                               \/ db.att[k] = "waiting" /\ (OnPause(db, k) \/ OnChild(db, k))
      BY DEF Driven
    <2> DEFINE k == Active(db, r)
    <2>1. RunFits(db, r) /\ Moves(db, r, {})
      BY DEF IInv, Good, Core, RunsFit
    <2>2. db.run[r].active # 0
      BY <2>1 DEF RunFits, ActiveStatuses
    <2>3. /\ db.att[k] \in ActiveStatuses
          /\ db.att[k] \in {"pending", "running"} => HasJob(db, k, "step")
          /\ db.att[k] = "waiting" => OnPause(db, k) \/ OnChild(db, k)
      BY <2>1 DEF Moves, OnChild
    <2> HIDE DEF k
    <2>4. \/ db.att[k] \in {"pending", "running"} /\ HasJob(db, k, "step")
          \/ db.att[k] = "waiting" /\ (OnPause(db, k) \/ OnChild(db, k))
      BY <2>3 DEF ActiveStatuses
    <2> QED
      BY <2>2, <2>4 DEF k, Active
  <1> QED
    BY <1>1, Invariance, PTL

(* An open pause never waits for a signal that is already there, whichever *)
(* came first, and a run that ended left none unanswered (suspendForPause, *)
(* signalByKey, discard_workflow_signals).                                 *)
THEOREM NoMissedSignalHolds == Spec => []NoMissedSignal
  <1>1. IInv => NoMissedSignal
    <2> SUFFICES ASSUME IInv PROVE NoMissedSignal
      OBVIOUS
    <2>1. (\A r \in Runs : InOrder(db, r)) /\ (\A k \in Attempts : Heard(db, k))
      BY DEF IInv, Good, SignalsFit
    <2>2. ASSUME NEW k \in Attempts, db.pause[k].status = "open"
          PROVE  Buffered(db, k[1], db.pause[k].name) = {}
      BY <2>1, <2>2 DEF Heard, Buffered
    <2>3. ASSUME NEW r \in Runs, NEW n \in Names, db.run[r].status \in TerminalStatuses
          PROVE  Buffered(db, r, n) = {}
      BY <2>1, <2>3 DEF InOrder, Buffered
    <2> QED
      BY <2>2, <2>3 DEF NoMissedSignal
  <1> QED
    BY <1>1, Invariance, PTL

(* Signals of one name are consumed in the order they were accepted, each  *)
(* by a pause of its own that it resumed (resolveNamedPause).              *)
THEOREM SignalsInOrderHolds == Spec => []SignalsInOrder
  <1>1. IInv => SignalsInOrder
    BY DEF IInv, Good, SignalsFit, InOrder, SignalsInOrder
  <1> QED
    BY <1>1, Invariance, PTL

(* What has ended never changes again, be it a run, an attempt or a pause: *)
(* cancellation and completion have one winner (ADR 0025).                 *)
THEOREM OutcomesAreFinalHolds == Spec => OutcomesAreFinal
  <1>1. IInv /\ [Next]_vars => [Final(db, db')]_vars
    BY NextInv
  <1>2. Spec => [][Final(db, db')]_vars
    BY <1>1, Invariance, PTL DEF Spec
  <1> QED
    BY <1>2 DEF OutcomesAreFinal, Final
=============================================================================
