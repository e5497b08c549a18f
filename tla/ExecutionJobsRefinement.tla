---------------------- MODULE ExecutionJobsRefinement ----------------------
(***************************************************************************)
(* The durable job queue implements JobLease, for any sets of jobs, loops  *)
(* and drivers and any limits.  A statement that changes one row is mapped *)
(* through OneRowMaps, a claim through TakeLeasesMaps, and everything else *)
(* leaves what JobLease sees of every row alone.                           *)
(***************************************************************************)
EXTENDS ExecutionJobsProofs

(* Two rows that JobLease does not tell apart.                             *)
SameLease(r, s) ==
    /\ StateOf(s) = StateOf(r)
    /\ s.leasedBy = r.leasedBy
    /\ s.live = r.live
    /\ FailuresOf(s) = FailuresOf(r)
    /\ LapsesOf(s) = LapsesOf(r)

LEMMA OneRowMaps ==
    ASSUME IInv, NEW j \in Jobs, NEW s, job' = [job EXCEPT ![j] = s]
    PROVE  /\ LeaseState' = [LeaseState EXCEPT ![j] = StateOf(s)]
           /\ LeaseHolder' = [LeaseHolder EXCEPT ![j] = s.leasedBy]
           /\ LeaseLive' = [LeaseLive EXCEPT ![j] = s.live]
           /\ Failures' = [Failures EXCEPT ![j] = FailuresOf(s)]
           /\ Lapses' = [Lapses EXCEPT ![j] = LapsesOf(s)]
  <1>1. \A i \in Jobs : job'[i] = IF i = j THEN s ELSE job[i]
    BY DEF IInv, TypeOK
  <1>2. LeaseState' = [LeaseState EXCEPT ![j] = StateOf(s)]
    <2>1. LeaseState' = [i \in Jobs |-> StateOf(job'[i])]
      BY DEF LeaseState, StateOf
    <2>2. [LeaseState EXCEPT ![j] = StateOf(s)] = [i \in Jobs |-> IF i = j THEN StateOf(s) ELSE StateOf(job[i])]
      BY DEF LeaseState
    <2> QED BY <1>1, <2>1, <2>2
  <1>3. LeaseHolder' = [LeaseHolder EXCEPT ![j] = s.leasedBy]
    <2>1. LeaseHolder' = [i \in Jobs |-> job'[i].leasedBy]
      BY DEF LeaseHolder
    <2>2. [LeaseHolder EXCEPT ![j] = s.leasedBy] = [i \in Jobs |-> IF i = j THEN s.leasedBy ELSE job[i].leasedBy]
      BY DEF LeaseHolder
    <2> QED BY <1>1, <2>1, <2>2
  <1>4. LeaseLive' = [LeaseLive EXCEPT ![j] = s.live]
    <2>1. LeaseLive' = [i \in Jobs |-> job'[i].live]
      BY DEF LeaseLive
    <2>2. [LeaseLive EXCEPT ![j] = s.live] = [i \in Jobs |-> IF i = j THEN s.live ELSE job[i].live]
      BY DEF LeaseLive
    <2> QED BY <1>1, <2>1, <2>2
  <1>5. Failures' = [Failures EXCEPT ![j] = FailuresOf(s)]
    <2>1. Failures' = [i \in Jobs |-> FailuresOf(job'[i])]
      BY DEF Failures, FailuresOf
    <2>2. [Failures EXCEPT ![j] = FailuresOf(s)] = [i \in Jobs |-> IF i = j THEN FailuresOf(s) ELSE FailuresOf(job[i])]
      BY DEF Failures
    <2> QED BY <1>1, <2>1, <2>2
  <1>6. Lapses' = [Lapses EXCEPT ![j] = LapsesOf(s)]
    <2>1. Lapses' = [i \in Jobs |-> LapsesOf(job'[i])]
      BY DEF Lapses, LapsesOf
    <2>2. [Lapses EXCEPT ![j] = LapsesOf(s)] = [i \in Jobs |-> IF i = j THEN LapsesOf(s) ELSE LapsesOf(job[i])]
      BY DEF Lapses
    <2> QED BY <1>1, <2>1, <2>2
  <1> QED BY <1>2, <1>3, <1>4, <1>5, <1>6

LEMMA SameLeaseStutters ==
    ASSUME \A j \in Jobs : SameLease(job[j], job'[j])
    PROVE  UNCHANGED Lease!vars
  <1>1. LeaseState' = LeaseState
    BY DEF LeaseState, SameLease
  <1>2. LeaseHolder' = LeaseHolder
    BY DEF LeaseHolder, SameLease
  <1>3. LeaseLive' = LeaseLive
    BY DEF LeaseLive, SameLease
  <1>4. Failures' = Failures
    BY DEF Failures, SameLease
  <1>5. Lapses' = Lapses
    BY DEF Lapses, SameLease
  <1> QED BY <1>1, <1>2, <1>3, <1>4, <1>5 DEF Lease!vars

LEMMA UnchangedRowsStutter ==
    ASSUME UNCHANGED job
    PROVE  UNCHANGED Lease!vars
  BY SameLeaseStutters DEF SameLease

LEMMA OneRowStutters ==
    ASSUME IInv, NEW j \in Jobs, NEW s, SameLease(job[j], s), job' = [job EXCEPT ![j] = s]
    PROVE  UNCHANGED Lease!vars
  <1>1. \A i \in Jobs : job'[i] = IF i = j THEN s ELSE job[i]
    BY DEF IInv, TypeOK
  <1>2. \A i \in Jobs : SameLease(job[i], job'[i])
    BY <1>1 DEF SameLease
  <1> QED BY <1>2, SameLeaseStutters

(* What JobLease sees of a good row.                                       *)
LEMMA LeaseOf ==
    ASSUME IInv, NEW j \in Jobs
    PROVE  /\ LeaseState[j] = StateOf(job[j])
           /\ LeaseHolder[j] = job[j].leasedBy
           /\ LeaseLive[j] = job[j].live
           /\ Failures[j] = FailuresOf(job[j])
           /\ Lapses[j] = LapsesOf(job[j])
  BY DEF LeaseState, LeaseHolder, LeaseLive, Failures, Lapses

(* The row ends its lease, or never had one, the way EndLease says.        *)
LEMMA EndsLease ==
    ASSUME IInv, NEW j \in Jobs, NEW s, job' = [job EXCEPT ![j] = s],
           NEW n, NEW m,
           s.leasedBy = NoWorker, s.live = FALSE,
           FailuresOf(s) = IF StateOf(s) = "ready" THEN n ELSE 0,
           LapsesOf(s) = IF StateOf(s) = "ready" THEN m ELSE 0
    PROVE  Lease!EndLease(j, StateOf(s), n, m)
  <1>1. /\ LeaseState' = [LeaseState EXCEPT ![j] = StateOf(s)]
        /\ LeaseHolder' = [LeaseHolder EXCEPT ![j] = s.leasedBy]
        /\ LeaseLive' = [LeaseLive EXCEPT ![j] = s.live]
        /\ Failures' = [Failures EXCEPT ![j] = FailuresOf(s)]
        /\ Lapses' = [Lapses EXCEPT ![j] = LapsesOf(s)]
    BY OneRowMaps
  <1>2. /\ LeaseHolder' = [LeaseHolder EXCEPT ![j] = NoWorker]
        /\ LeaseLive' = [LeaseLive EXCEPT ![j] = FALSE]
        /\ Failures' = [Failures EXCEPT ![j] = IF StateOf(s) = "ready" THEN n ELSE 0]
        /\ Lapses' = [Lapses EXCEPT ![j] = IF StateOf(s) = "ready" THEN m ELSE 0]
    BY <1>1
  <1> QED BY <1>1, <1>2 DEF Lease!EndLease

-----------------------------------------------------------------------------
(* The row updates as JobLease sees them.                                  *)

LEMMA CompletedMaps ==
    ASSUME NEW r, GoodRow(r), r.status = "running"
    PROVE  LET s == Completed(r, r.generation)
           IN  /\ StateOf(s) = "completed"
               /\ s.leasedBy = NoWorker
               /\ s.live = FALSE
               /\ FailuresOf(s) = 0
               /\ LapsesOf(s) = 0
  BY DEF GoodRow, Row, Completed, Unleased, DeleteLeaseInvocations,
         StateOf, FailuresOf, LapsesOf

LEMMA CanceledMaps ==
    ASSUME NEW r, GoodRow(r)
    PROVE  LET s == Canceled(r)
           IN  /\ StateOf(s) = "canceled"
               /\ s.leasedBy = NoWorker
               /\ s.live = FALSE
               /\ FailuresOf(s) = 0
               /\ LapsesOf(s) = 0
  BY DEF GoodRow, Row, Canceled, Unleased, StateOf, FailuresOf, LapsesOf

(* A failed attempt: attempt already counts it, so the row's own test      *)
(* against max_attempts is JobLease's test of one failure more.            *)
LEMMA FailedMaps ==
    ASSUME NEW r, GoodRow(r), r.status = "running"
    PROVE  LET s == Failed(r, r.generation)
           IN  /\ StateOf(s) = IF FailuresOf(r) + 1 < MaxAttempts THEN "ready" ELSE "failed"
               /\ s.leasedBy = NoWorker
               /\ s.live = FALSE
               /\ FailuresOf(s) = IF StateOf(s) = "ready" THEN FailuresOf(r) + 1 ELSE 0
               /\ LapsesOf(s) = IF StateOf(s) = "ready" THEN LapsesOf(r) ELSE 0
  <1>1. r.attempt \in Nat /\ MaxAttempts \in Nat
    BY LimitsAssumption DEF GoodRow, Row
  <1>2. CASE r.attempt < MaxAttempts
    BY <1>1, <1>2 DEF GoodRow, Row, Failed, Unleased, DeleteLeaseInvocations,
                      StateOf, FailuresOf, LapsesOf
  <1>3. CASE ~(r.attempt < MaxAttempts)
    BY <1>1, <1>3 DEF GoodRow, Row, Failed, Unleased, DeleteLeaseInvocations,
                      StateOf, FailuresOf, LapsesOf
  <1> QED BY <1>2, <1>3

LEMMA ReleasedMaps ==
    ASSUME NEW r, GoodRow(r), r.status = "running", NEW d \in BOOLEAN
    PROVE  LET s == Released(r, r.generation, d)
           IN  /\ StateOf(s) = "ready"
               /\ s.leasedBy = NoWorker
               /\ s.live = FALSE
               /\ FailuresOf(s) = FailuresOf(r)
               /\ LapsesOf(s) = LapsesOf(r)
  BY DEF GoodRow, Row, Released, Unleased, DeleteLeaseInvocations,
         StateOf, FailuresOf, LapsesOf

LEMMA ExpiredMaps ==
    ASSUME NEW r, GoodRow(r), r.status = "running"
    PROVE  LET s == Expired(r)
           IN  /\ StateOf(s) = IF LapsesOf(r) + 1 < MaxLeaseExpiries THEN "ready" ELSE "failed"
               /\ s.leasedBy = NoWorker
               /\ s.live = FALSE
               /\ FailuresOf(s) = IF StateOf(s) = "ready" THEN FailuresOf(r) ELSE 0
               /\ LapsesOf(s) = IF StateOf(s) = "ready" THEN LapsesOf(r) + 1 ELSE 0
  <1>1. r.attempt \in Nat /\ r.attempt > 0
    BY LimitsAssumption DEF GoodRow, Row, RowInv
  <1>2. CASE r.expiries + 1 < MaxLeaseExpiries
    BY <1>1, <1>2 DEF GoodRow, Row, Expired, Unleased, StateOf, FailuresOf, LapsesOf
  <1>3. CASE ~(r.expiries + 1 < MaxLeaseExpiries)
    BY <1>1, <1>3 DEF GoodRow, Row, Expired, Unleased, StateOf, FailuresOf, LapsesOf
  <1> QED BY <1>2, <1>3

LEMMA RevivedMaps ==
    ASSUME NEW r, GoodRow(r), r.status \in Terminal, NEW d \in BOOLEAN
    PROVE  LET s == Revived(r, d)
           IN  /\ StateOf(s) = "ready"
               /\ s.leasedBy = r.leasedBy
               /\ s.live = r.live
               /\ FailuresOf(s) = FailuresOf(r)
               /\ LapsesOf(s) = LapsesOf(r)
  <1>1. r.leasedBy = NoWorker /\ r.live = FALSE
    BY DEF GoodRow, Row, RowInv, Terminal
  <1> QED BY <1>1 DEF GoodRow, Row, Revived, Unleased, Terminal,
                      StateOf, FailuresOf, LapsesOf

LEMMA LeasedMaps ==
    ASSUME NEW r, GoodRow(r), r.status = "pending", NEW w \in Workers
    PROVE  LET s == Leased(r, w)
           IN  /\ StateOf(s) = "leased"
               /\ s.leasedBy = w
               /\ s.live = TRUE
               /\ FailuresOf(s) = FailuresOf(r)
               /\ LapsesOf(s) = LapsesOf(r)
  BY DEF GoodRow, Row, Leased, StateOf, FailuresOf, LapsesOf

-----------------------------------------------------------------------------
(* The steps of the queue as steps of JobLease.                            *)

LEMMA OwnsSettles ==
    ASSUME IInv, NEW w \in Workers, NEW j \in Jobs, Owns(w, j)
    PROVE  Lease!Settles(w, j)
  BY LeaseOf DEF Owns, StateOf, Lease!Settles

(* Settling a lease the worker still owns.                                 *)
LEMMA CompletedIsComplete ==
    ASSUME IInv, NEW w \in Workers, NEW j \in Jobs, Owns(w, j),
           job' = [job EXCEPT ![j] = Completed(@, held[w][j])]
    PROVE  Lease!Complete(w, j)
  <1> DEFINE s == Completed(job[j], job[j].generation)
  <1>1. job' = [job EXCEPT ![j] = s]
    BY OwnsGood
  <1>2. /\ StateOf(s) = "completed"
        /\ s.leasedBy = NoWorker
        /\ s.live = FALSE
        /\ FailuresOf(s) = 0
        /\ LapsesOf(s) = 0
    BY OwnsGood, CompletedMaps
  <1> HIDE DEF s
  <1>3. Lease!EndLease(j, "completed", 0, 0)
    BY <1>1, <1>2, EndsLease
  <1> QED BY <1>3, OwnsSettles DEF Lease!Complete

LEMMA FailedIsFail ==
    ASSUME IInv, NEW w \in Workers, NEW j \in Jobs, Owns(w, j),
           job' = [job EXCEPT ![j] = Failed(@, held[w][j])]
    PROVE  Lease!Fail(w, j)
  <1> DEFINE s == Failed(job[j], job[j].generation)
             f == FailuresOf(job[j]) + 1
             m == LapsesOf(job[j])
  <1>1. job' = [job EXCEPT ![j] = s]
    BY OwnsGood
  <1>2. /\ StateOf(s) = IF f < MaxAttempts THEN "ready" ELSE "failed"
        /\ s.leasedBy = NoWorker
        /\ s.live = FALSE
        /\ FailuresOf(s) = IF StateOf(s) = "ready" THEN f ELSE 0
        /\ LapsesOf(s) = IF StateOf(s) = "ready" THEN m ELSE 0
    BY OwnsGood, FailedMaps
  <1>3. f = Failures[j] + 1 /\ m = Lapses[j]
    BY LeaseOf
  <1> HIDE DEF s, f, m
  <1>4. Lease!EndLease(j, StateOf(s), f, m)
    BY <1>1, <1>2, EndsLease
  <1> QED BY <1>2, <1>3, <1>4, OwnsSettles DEF Lease!Fail

LEMMA ReleasedIsGiveBack ==
    ASSUME IInv, NEW w \in Workers, NEW j \in Jobs, Owns(w, j), NEW d \in BOOLEAN,
           job' = [job EXCEPT ![j] = Released(@, held[w][j], d)]
    PROVE  Lease!GiveBack(w, j)
  <1> DEFINE s == Released(job[j], job[j].generation, d)
             f == FailuresOf(job[j])
             m == LapsesOf(job[j])
  <1>1. job' = [job EXCEPT ![j] = s]
    BY OwnsGood
  <1>2. /\ StateOf(s) = "ready"
        /\ s.leasedBy = NoWorker
        /\ s.live = FALSE
        /\ FailuresOf(s) = f
        /\ LapsesOf(s) = m
    BY OwnsGood, ReleasedMaps
  <1>3. f = Failures[j] /\ m = Lapses[j]
    BY LeaseOf
  <1> HIDE DEF s, f, m
  <1>4. Lease!EndLease(j, "ready", f, m)
    <2>1. /\ FailuresOf(s) = IF StateOf(s) = "ready" THEN f ELSE 0
          /\ LapsesOf(s) = IF StateOf(s) = "ready" THEN m ELSE 0
      BY <1>2
    <2>2. Lease!EndLease(j, StateOf(s), f, m)
      BY <1>1, <1>2, <2>1, EndsLease
    <2> QED BY <1>2, <2>2
  <1> QED BY <1>3, <1>4, OwnsSettles DEF Lease!GiveBack

LEMMA ExpiredIsReclaim ==
    ASSUME IInv, NEW j \in Jobs, job[j].status = "running", ~job[j].live,
           job' = [job EXCEPT ![j] = Expired(@)]
    PROVE  Lease!Reclaim(j)
  <1> DEFINE s == Expired(job[j])
             f == FailuresOf(job[j])
             m == LapsesOf(job[j]) + 1
  <1>1. job' = [job EXCEPT ![j] = s]
    OBVIOUS
  <1>2. /\ StateOf(s) = IF m < MaxLeaseExpiries THEN "ready" ELSE "failed"
        /\ s.leasedBy = NoWorker
        /\ s.live = FALSE
        /\ FailuresOf(s) = IF StateOf(s) = "ready" THEN f ELSE 0
        /\ LapsesOf(s) = IF StateOf(s) = "ready" THEN m ELSE 0
    BY RowIsGood, ExpiredMaps
  <1>3. f = Failures[j] /\ m = Lapses[j] + 1
    BY LeaseOf
  <1>4. LeaseState[j] = "leased" /\ ~LeaseLive[j]
    BY LeaseOf DEF StateOf
  <1> HIDE DEF s, f, m
  <1>5. Lease!EndLease(j, StateOf(s), f, m)
    BY <1>1, <1>2, EndsLease
  <1> QED BY <1>2, <1>3, <1>4, <1>5 DEF Lease!Reclaim

LEMMA CanceledIsCancel ==
    ASSUME IInv, NEW j \in Jobs, job[j].status \in {"pending", "running"},
           job' = [job EXCEPT ![j] = Canceled(@)]
    PROVE  Lease!Cancel(j)
  <1> DEFINE s == Canceled(job[j])
  <1>1. job' = [job EXCEPT ![j] = s]
    OBVIOUS
  <1>2. /\ StateOf(s) = "canceled"
        /\ s.leasedBy = NoWorker
        /\ s.live = FALSE
        /\ FailuresOf(s) = 0
        /\ LapsesOf(s) = 0
    BY RowIsGood, CanceledMaps
  <1>3. LeaseState[j] \in {"ready", "leased"}
    BY LeaseOf DEF StateOf
  <1> HIDE DEF s
  <1>4. Lease!EndLease(j, "canceled", 0, 0)
    <2>1. /\ FailuresOf(s) = IF StateOf(s) = "ready" THEN 0 ELSE 0
          /\ LapsesOf(s) = IF StateOf(s) = "ready" THEN 0 ELSE 0
      BY <1>2
    <2>2. Lease!EndLease(j, StateOf(s), 0, 0)
      BY <1>1, <1>2, <2>1, EndsLease
    <2> QED BY <1>2, <2>2
  <1> QED BY <1>3, <1>4 DEF Lease!Cancel

(* A row inserted or revived.                                              *)
LEMMA SubmittedIsSubmit ==
    ASSUME IInv, NEW j \in Jobs, job[j].status \in Terminal \cup {"absent"}, NEW s,
           job' = [job EXCEPT ![j] = s],
           StateOf(s) = "ready",
           s.leasedBy = job[j].leasedBy, s.live = job[j].live,
           FailuresOf(s) = FailuresOf(job[j]), LapsesOf(s) = LapsesOf(job[j])
    PROVE  Lease!Submit(j)
  <1>1. LeaseState' = [LeaseState EXCEPT ![j] = "ready"]
    <2>1. LeaseState' = [LeaseState EXCEPT ![j] = StateOf(s)]
      BY OneRowMaps
    <2> QED BY <2>1
  <1>2. LeaseState[j] \in Lease!Ended \cup {"absent"}
    BY LeaseOf DEF StateOf, Terminal, Lease!Ended
  <1>3. \A i \in Jobs : job'[i] = IF i = j THEN s ELSE job[i]
    BY DEF IInv, TypeOK
  <1>4. LeaseHolder' = LeaseHolder
    BY <1>3 DEF LeaseHolder
  <1>5. LeaseLive' = LeaseLive
    BY <1>3 DEF LeaseLive
  <1>6. Failures' = Failures
    BY <1>3 DEF Failures
  <1>7. Lapses' = Lapses
    BY <1>3 DEF Lapses
  <1> QED BY <1>1, <1>2, <1>4, <1>5, <1>6, <1>7 DEF Lease!Submit

LEMMA TakeLeasesIsGrant ==
    ASSUME IInv, NEW w \in Workers, NEW S \in SUBSET Jobs,
           \A j \in S : job[j].status = "pending",
           TakeLeases(w, S)
    PROVE  Lease!Grant(w, S)
  <1>1. \A j \in Jobs : job'[j] = IF j \in S THEN Leased(job[j], w) ELSE job[j]
    BY DEF TakeLeases
  <1>2. \A j \in S : /\ StateOf(Leased(job[j], w)) = "leased"
                     /\ Leased(job[j], w).leasedBy = w
                     /\ Leased(job[j], w).live = TRUE
                     /\ FailuresOf(Leased(job[j], w)) = FailuresOf(job[j])
                     /\ LapsesOf(Leased(job[j], w)) = LapsesOf(job[j])
    BY RowIsGood, LeasedMaps
  <1>3. \A j \in S : LeaseState[j] = "ready"
    BY LeaseOf DEF StateOf
  <1>4. LeaseState' = [j \in Jobs |-> IF j \in S THEN "leased" ELSE LeaseState[j]]
    <2>1. LeaseState' = [j \in Jobs |-> StateOf(job'[j])]
      BY DEF LeaseState, StateOf
    <2> QED BY <2>1, <1>1, <1>2, LeaseOf
  <1>5. LeaseHolder' = [j \in Jobs |-> IF j \in S THEN w ELSE LeaseHolder[j]]
    <2>1. LeaseHolder' = [j \in Jobs |-> job'[j].leasedBy]
      BY DEF LeaseHolder
    <2> QED BY <2>1, <1>1, <1>2, LeaseOf
  <1>6. LeaseLive' = [j \in Jobs |-> IF j \in S THEN TRUE ELSE LeaseLive[j]]
    <2>1. LeaseLive' = [j \in Jobs |-> job'[j].live]
      BY DEF LeaseLive
    <2> QED BY <2>1, <1>1, <1>2, LeaseOf
  <1>7. Failures' = Failures
    <2>1. Failures' = [j \in Jobs |-> FailuresOf(job'[j])]
      BY DEF Failures, FailuresOf
    <2> QED BY <2>1, <1>1, <1>2 DEF Failures
  <1>8. Lapses' = Lapses
    <2>1. Lapses' = [j \in Jobs |-> LapsesOf(job'[j])]
      BY DEF Lapses, LapsesOf
    <2> QED BY <2>1, <1>1, <1>2 DEF Lapses
  <1> QED BY <1>3, <1>4, <1>5, <1>6, <1>7, <1>8 DEF Lease!Grant

LEMMA LapseIsLapse ==
    ASSUME IInv, NEW j \in Jobs, LeaseLapses(j)
    PROVE  Lease!Lapse(j)
  <1> DEFINE s == [job[j] EXCEPT !.live = FALSE]
  <1>1. job' = [job EXCEPT ![j] = s] /\ job[j] \in Row
    BY DEF LeaseLapses, IInv, TypeOK
  <1>2. \A i \in Jobs : job'[i] = IF i = j THEN s ELSE job[i]
    BY <1>1 DEF IInv, TypeOK
  <1>3. /\ StateOf(s) = StateOf(job[j])
        /\ s.leasedBy = job[j].leasedBy
        /\ s.live = FALSE
        /\ FailuresOf(s) = FailuresOf(job[j])
        /\ LapsesOf(s) = LapsesOf(job[j])
    BY <1>1 DEF Row, StateOf, FailuresOf, LapsesOf
  <1>4. LeaseState[j] = "leased" /\ LeaseLive[j]
    BY LeaseOf DEF LeaseLapses, StateOf
  <1> HIDE DEF s
  <1>5. LeaseLive' = [LeaseLive EXCEPT ![j] = FALSE]
    <2>1. LeaseLive' = [LeaseLive EXCEPT ![j] = s.live]
      BY <1>1, OneRowMaps
    <2> QED BY <2>1, <1>3
  <1>6. LeaseState' = LeaseState
    <2>1. LeaseState' = [i \in Jobs |-> StateOf(job'[i])]
      BY DEF LeaseState, StateOf
    <2> QED BY <2>1, <1>2, <1>3 DEF LeaseState
  <1>7. LeaseHolder' = LeaseHolder
    <2>1. LeaseHolder' = [i \in Jobs |-> job'[i].leasedBy]
      BY DEF LeaseHolder
    <2> QED BY <2>1, <1>2, <1>3 DEF LeaseHolder
  <1>8. Failures' = Failures
    <2>1. Failures' = [i \in Jobs |-> FailuresOf(job'[i])]
      BY DEF Failures, FailuresOf
    <2> QED BY <2>1, <1>2, <1>3 DEF Failures
  <1>9. Lapses' = Lapses
    <2>1. Lapses' = [i \in Jobs |-> LapsesOf(job'[i])]
      BY DEF Lapses, LapsesOf
    <2> QED BY <2>1, <1>2, <1>3 DEF Lapses
  <1> QED BY <1>4, <1>5, <1>6, <1>7, <1>8, <1>9 DEF Lease!Lapse

LEMMA EnqueueMaps ==
    ASSUME IInv, NEW j \in Jobs, Enqueue(j)
    PROVE  Lease!Submit(j)
  <1>1. PICK d \in BOOLEAN :
            \/ /\ job[j].status = "absent"
               /\ job' = [job EXCEPT ![j] = [NewRow EXCEPT !.status = "pending", !.due = d]]
            \/ /\ job[j].status \in Terminal
               /\ job' = [job EXCEPT ![j] = Revived(@, d)]
    BY DEF Enqueue
  <1>2. CASE job[j].status = "absent"
    <2> DEFINE s == [NewRow EXCEPT !.status = "pending", !.due = d]
    <2>1. job' = [job EXCEPT ![j] = s]
      BY <1>1, <1>2 DEF Terminal
    <2>2. job[j].leasedBy = NoWorker /\ job[j].live = FALSE
      BY <1>2, RowIsGood DEF GoodRow, Row, RowInv
    <2>3. /\ StateOf(s) = "ready"
          /\ s.leasedBy = job[j].leasedBy
          /\ s.live = job[j].live
          /\ FailuresOf(s) = FailuresOf(job[j])
          /\ LapsesOf(s) = LapsesOf(job[j])
      BY <1>2, <2>2 DEF NewRow, StateOf, FailuresOf, LapsesOf
    <2> HIDE DEF s
    <2> QED BY <1>2, <2>1, <2>3, SubmittedIsSubmit
  <1>3. CASE job[j].status \in Terminal
    <2> DEFINE s == Revived(job[j], d)
    <2>1. job' = [job EXCEPT ![j] = s]
      BY <1>1, <1>3 DEF Terminal
    <2>2. /\ StateOf(s) = "ready"
          /\ s.leasedBy = job[j].leasedBy
          /\ s.live = job[j].live
          /\ FailuresOf(s) = FailuresOf(job[j])
          /\ LapsesOf(s) = LapsesOf(job[j])
      BY <1>3, RowIsGood, RevivedMaps
    <2> HIDE DEF s
    <2> QED BY <1>3, <2>1, <2>2, SubmittedIsSubmit
  <1> QED BY <1>1, <1>2, <1>3

LEMMA RedriveMaps ==
    ASSUME IInv, NEW j \in Jobs, Redrive(j)
    PROVE  Lease!Submit(j)
  <1>1. PICK d \in BOOLEAN : job' = [job EXCEPT ![j] = Revived(job[j], d)]
    BY DEF Redrive
  <1>2. job[j].status \in Terminal
    BY DEF Redrive, Terminal
  <1> DEFINE s == Revived(job[j], d)
  <1>3. job' = [job EXCEPT ![j] = s]
    BY <1>1
  <1>4. /\ StateOf(s) = "ready"
        /\ s.leasedBy = job[j].leasedBy
        /\ s.live = job[j].live
        /\ FailuresOf(s) = FailuresOf(job[j])
        /\ LapsesOf(s) = LapsesOf(job[j])
    BY <1>2, RowIsGood, RevivedMaps
  <1> HIDE DEF s
  <1> QED BY <1>2, <1>3, <1>4, SubmittedIsSubmit

(* Updates of columns JobLease does not know.                              *)
LEMMA HiddenColumns ==
    ASSUME NEW r \in Row, NEW x
    PROVE  /\ SameLease(r, [r EXCEPT !.due = x])
           /\ SameLease(r, [r EXCEPT !.invocation = x])
           /\ SameLease(r, [r EXCEPT !.stamp = x])
           /\ SameLease(r, [r EXCEPT !.receipt = x])
  BY DEF Row, SameLease, StateOf, FailuresOf, LapsesOf

LEMMA StampAllStutters ==
    ASSUME IInv, NEW w \in Workers, NEW S \in SUBSET Jobs, StampAll(w, S)
    PROVE  UNCHANGED Lease!vars
  <1>1. \A j \in Jobs : job'[j] = IF j \in S THEN [job[j] EXCEPT !.stamp = "fresh"] ELSE job[j]
    BY DEF StampAll
  <1>2. \A j \in Jobs : job[j] \in Row
    BY DEF IInv, TypeOK
  <1>3. \A j \in Jobs : SameLease(job[j], job'[j])
    <2> TAKE j \in Jobs
    <2>1. SameLease(job[j], [job[j] EXCEPT !.stamp = "fresh"])
      BY <1>2, HiddenColumns
    <2>2. SameLease(job[j], job[j])
      BY DEF SameLease
    <2> QED BY <1>1, <2>1, <2>2
  <1> QED BY <1>3, SameLeaseStutters

-----------------------------------------------------------------------------
LEMMA InitMaps == Init => Lease!Init
  BY DEF Init, NewRow, Lease!Init, LeaseState, LeaseHolder, LeaseLive, Failures, Lapses,
         StateOf, FailuresOf, LapsesOf

LEMMA NextMaps == IInv /\ [Next]_vars => [Lease!Next]_(Lease!vars)
  <1> SUFFICES ASSUME IInv, [Next]_vars PROVE Lease!Next \/ UNCHANGED Lease!vars
    BY DEF Lease!vars
  <1> DEFINE Maps == Lease!Next \/ UNCHANGED Lease!vars
  <1>0. \A j \in Jobs : job[j] \in Row
    BY DEF IInv, TypeOK
  <1>1. ASSUME NEW j \in Jobs, Enqueue(j) PROVE Maps
    BY <1>1, EnqueueMaps DEF Lease!Next
  <1>2. ASSUME NEW j \in Jobs, Redrive(j) PROVE Maps
    BY <1>2, RedriveMaps DEF Lease!Next
  <1>3. ASSUME NEW j \in Jobs, Cancel(j) PROVE Maps
    BY <1>3, CanceledIsCancel DEF Cancel, Lease!Next
  <1>4. ASSUME NEW j \in Jobs, LeaseLapses(j) PROVE Maps
    BY <1>4, LapseIsLapse DEF Lease!Next
  <1>5. ASSUME NEW j \in Jobs, MakeAvailable(j) PROVE Maps
    <2>1. SameLease(job[j], [job[j] EXCEPT !.due = TRUE])
      BY <1>0, HiddenColumns
    <2>2. job' = [job EXCEPT ![j] = [job[j] EXCEPT !.due = TRUE]]
      BY <1>5 DEF MakeAvailable
    <2> QED BY <2>1, <2>2, OneRowStutters
  <1>6. ASSUME NEW j \in Jobs, ExhaustionClaimExpires(j) PROVE Maps
    <2>1. SameLease(job[j], [job[j] EXCEPT !.stamp = "stale"])
      BY <1>0, HiddenColumns
    <2>2. job' = [job EXCEPT ![j] = [job[j] EXCEPT !.stamp = "stale"]]
      BY <1>6 DEF ExhaustionClaimExpires
    <2> QED BY <2>1, <2>2, OneRowStutters
  <1>7. ASSUME NEW w \in Loops, Claim(w) PROVE Maps
    <2>1. PICK S \in SUBSET Jobs : (\A j \in S : job[j].status = "pending") /\ TakeLeases(w, S)
      BY <1>7 DEF Claim, Claimable
    <2>2. w \in Workers
      BY DEF Workers
    <2> QED BY <2>1, <2>2, TakeLeasesIsGrant DEF Lease!Next
  <1>8. ASSUME NEW w \in Drivers, NEW j \in Jobs, ClaimById(w, j) PROVE Maps
    <2>1. (\A i \in {j} : job[i].status = "pending") /\ TakeLeases(w, {j})
      BY <1>8 DEF ClaimById, Claimable
    <2>2. w \in Workers /\ {j} \in SUBSET Jobs
      BY DEF Workers
    <2> QED BY <2>1, <2>2, TakeLeasesIsGrant DEF Lease!Next
  <1>9. ASSUME NEW w \in Workers, ClaimExhausted(w) PROVE Maps
    <2>1. PICK S \in SUBSET Jobs : StampAll(w, S)
      BY <1>9 DEF ClaimExhausted
    <2> QED BY <2>1, StampAllStutters
  <1>10. ASSUME NEW w \in Workers, NEW j \in Jobs, ClaimExhaustionFor(w, j) PROVE Maps
    <2>1. StampAll(w, {j}) \/ UNCHANGED job
      BY <1>10 DEF ClaimExhaustionFor
    <2>2. {j} \in SUBSET Jobs
      OBVIOUS
    <2> QED BY <2>1, <2>2, StampAllStutters, UnchangedRowsStutter
  <1>11. ASSUME NEW w \in Workers, NEW j \in Jobs, ConfirmExhaustionHandled(w, j) PROVE Maps
    <2>1. SameLease(job[j], [job[j] EXCEPT !.receipt = TRUE])
      BY <1>0, HiddenColumns
    <2>2. job' = [job EXCEPT ![j] = [job[j] EXCEPT !.receipt = TRUE]] \/ UNCHANGED job
      BY <1>11 DEF ConfirmExhaustionHandled
    <2> QED BY <2>1, <2>2, OneRowStutters, UnchangedRowsStutter
  <1>12. ASSUME NEW w \in Workers, NEW j \in Jobs, ReleaseExhaustionClaim(w, j) PROVE Maps
    <2>1. SameLease(job[j], [job[j] EXCEPT !.stamp = "none"])
      BY <1>0, HiddenColumns
    <2>2. job' = [job EXCEPT ![j] = [job[j] EXCEPT !.stamp = "none"]] \/ UNCHANGED job
      BY <1>12 DEF ReleaseExhaustionClaim
    <2> QED BY <2>1, <2>2, OneRowStutters, UnchangedRowsStutter
  <1>13. ASSUME NEW w \in Workers, NEW j \in Jobs, RequeueExpired(w, j) PROVE Maps
    BY <1>13, ExpiredIsReclaim DEF RequeueExpired, Lease!Next
  <1>14. ASSUME NEW w \in Workers, NEW j \in Jobs, ReleaseUnstarted(w, j) PROVE Maps
    <2>1. CASE Owns(w, j)
      BY <1>14, <2>1, ReleasedIsGiveBack DEF ReleaseUnstarted, Lease!Next
    <2>2. CASE ~Owns(w, j)
      BY <1>14, <2>2, UnchangedRowsStutter DEF ReleaseUnstarted
    <2> QED BY <2>1, <2>2
  <1>15. ASSUME NEW w \in Workers, NEW j \in Jobs, Complete(w, j) PROVE Maps
    <2>1. CASE Owns(w, j)
      BY <1>15, <2>1, CompletedIsComplete DEF Complete, Lease!Next
    <2>2. CASE ~Owns(w, j)
      BY <1>15, <2>2, UnchangedRowsStutter DEF Complete
    <2> QED BY <2>1, <2>2
  <1>16. ASSUME NEW w \in Workers, NEW j \in Jobs, Fail(w, j) PROVE Maps
    <2>1. CASE Owns(w, j)
      BY <1>16, <2>1, FailedIsFail DEF Fail, Lease!Next
    <2>2. CASE ~Owns(w, j)
      BY <1>16, <2>2, UnchangedRowsStutter DEF Fail
    <2> QED BY <2>1, <2>2
  <1>17. ASSUME NEW w \in Workers, NEW j \in Jobs, Release(w, j) PROVE Maps
    <2>1. PICK d \in BOOLEAN :
            job' = IF Owns(w, j) THEN [job EXCEPT ![j] = Released(@, held[w][j], d)]
                                 ELSE job
      BY <1>17 DEF Release
    <2>2. CASE Owns(w, j)
      BY <2>1, <2>2, ReleasedIsGiveBack DEF Lease!Next
    <2>3. CASE ~Owns(w, j)
      BY <2>1, <2>3, UnchangedRowsStutter
    <2> QED BY <2>2, <2>3
  <1>18. ASSUME NEW w \in Workers, NEW j \in Jobs, CompleteThrows(w, j) PROVE Maps
    <2>1. CASE UNCHANGED job
      BY <2>1, UnchangedRowsStutter
    <2>2. CASE Owns(w, j) /\ job' = [job EXCEPT ![j] = Completed(@, held[w][j])]
      BY <2>2, CompletedIsComplete DEF Lease!Next
    <2> QED BY <1>18, <2>1, <2>2 DEF CompleteThrows
  <1>19. ASSUME NEW w \in Workers, NEW j \in Jobs, RegisterInvocation(w, j) PROVE Maps
    <2>1. SameLease(job[j], [job[j] EXCEPT !.invocation = held[w][j]])
      BY <1>0, HiddenColumns
    <2>2. job' = [job EXCEPT ![j] = [job[j] EXCEPT !.invocation = held[w][j]]]
      BY <1>19 DEF RegisterInvocation
    <2> QED BY <2>1, <2>2, OneRowStutters
  <1>20. ASSUME NEW w \in Workers, NEW j \in Jobs, UnregisterInvocation(w, j) PROVE Maps
    <2> DEFINE x == IF job[j].invocation = held[w][j] THEN 0 ELSE job[j].invocation
    <2>1. SameLease(job[j], [job[j] EXCEPT !.invocation = x])
      BY <1>0, HiddenColumns
    <2>2. job' = [job EXCEPT ![j] = [job[j] EXCEPT !.invocation = x]]
      BY <1>20 DEF UnregisterInvocation, DeleteLeaseInvocations
    <2> QED BY <2>1, <2>2, OneRowStutters
  <1>21. ASSUME NEW w \in Workers, NEW j \in Jobs, StartJob(w, j) PROVE Maps
    BY <1>21, UnchangedRowsStutter DEF StartJob
  <1>22. ASSUME NEW w \in Workers, NEW j \in Jobs, Heartbeat(w, j) PROVE Maps
    BY <1>22, UnchangedRowsStutter DEF Heartbeat
  <1>23. ASSUME NEW w \in Workers, NEW j \in Jobs, HandlerSettles(w, j) PROVE Maps
    BY <1>23, UnchangedRowsStutter DEF HandlerSettles
  <1>24. ASSUME NEW w \in Workers, NEW j \in Jobs, ExhaustedHandler(w, j) PROVE Maps
    BY <1>24, UnchangedRowsStutter DEF ExhaustedHandler
  <1>25. ASSUME NEW w \in Workers, NEW j \in Jobs, FenceFires(w, j) PROVE Maps
    BY <1>25, UnchangedRowsStutter DEF FenceFires
  <1>26. ASSUME NEW w \in Workers, NEW j \in Jobs, SettleThrows(w, j) PROVE Maps
    BY <1>26, UnchangedRowsStutter DEF SettleThrows
  <1>27. ASSUME NEW w \in Workers, Crash(w) PROVE Maps
    BY <1>27, UnchangedRowsStutter DEF Crash
  <1>28. ASSUME NEW w \in Workers, Stop(w) PROVE Maps
    BY <1>28, UnchangedRowsStutter DEF Stop
  <1>29. ASSUME NEW w \in Workers, Restart(w) PROVE Maps
    BY <1>29, UnchangedRowsStutter DEF Restart
  <1>30. ASSUME UNCHANGED vars PROVE Maps
    BY <1>30, UnchangedRowsStutter DEF vars
  <1> HIDE DEF Maps
  <1>99. Maps
    BY <1>1, <1>2, <1>3, <1>4, <1>5, <1>6, <1>7, <1>8, <1>9, <1>10, <1>11,
       <1>12, <1>13, <1>14, <1>15, <1>16, <1>17, <1>18, <1>19, <1>20, <1>21,
       <1>22, <1>23, <1>24, <1>25, <1>26, <1>27, <1>28, <1>29, <1>30
    DEF Next, Sweep, Faults, RunJob, Exhaustion, Workers
  <1> QED BY <1>99 DEF Maps

(* The queue implements JobLease: whatever its workers, sweeps, crashes,   *)
(* lapses, cancels and redrives do, every step is one that JobLease allows *)
(* or one it cannot see.  In particular complete, fail and release of a    *)
(* stale snapshot change nothing, and attempt and lease_expiries count     *)
(* failures and lapses exactly.                                            *)
THEOREM Refinement == Spec => ImplementsJobLease
  <1>1. Init => Lease!Init
    BY InitMaps
  <1>2. IInv /\ [Next]_vars => [Lease!Next]_(Lease!vars)
    BY NextMaps
  <1> QED BY <1>1, <1>2, Invariance, PTL DEF Spec, ImplementsJobLease, Lease!Spec
=============================================================================
