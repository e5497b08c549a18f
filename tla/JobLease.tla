------------------------------ MODULE JobLease ------------------------------
(***************************************************************************)
(* What the durable job queue promises the code that runs on it, without   *)
(* its rows, generations, worker snapshots or sweeps:                      *)
(*   - a job has at most one holder, and only that holder, while its lease *)
(*     is live, decides how the job ends or goes back to the queue;        *)
(*   - a job fails only when its code failed MaxAttempts times or its      *)
(*     lease lapsed MaxLeaseExpiries times since it was last submitted;    *)
(*   - giving a job back, or losing its lease, costs it no attempt.        *)
(***************************************************************************)
EXTENDS Naturals

CONSTANTS Jobs, Workers, NoWorker, MaxAttempts, MaxLeaseExpiries

VARIABLES
    state,      \* state[j]: where job j stands
    holder,     \* holder[j]: the worker that holds j's lease
    live,       \* live[j]: j's lease has not lapsed
    failures,   \* failures[j]: times j's code failed since it was submitted
    lapses      \* lapses[j]: times j's lease lapsed since it was submitted

vars == <<state, holder, live, failures, lapses>>

Ended == {"completed", "failed", "canceled"}

Init ==
    /\ state = [j \in Jobs |-> "absent"]
    /\ holder = [j \in Jobs |-> NoWorker]
    /\ live = [j \in Jobs |-> FALSE]
    /\ failures = [j \in Jobs |-> 0]
    /\ lapses = [j \in Jobs |-> 0]

Submit(j) ==
    /\ state[j] \in Ended \cup {"absent"}
    /\ state' = [state EXCEPT ![j] = "ready"]
    /\ UNCHANGED <<holder, live, failures, lapses>>

Grant(w, S) ==
    /\ \A j \in S : state[j] = "ready"
    /\ state' = [j \in Jobs |-> IF j \in S THEN "leased" ELSE state[j]]
    /\ holder' = [j \in Jobs |-> IF j \in S THEN w ELSE holder[j]]
    /\ live' = [j \in Jobs |-> IF j \in S THEN TRUE ELSE live[j]]
    /\ UNCHANGED <<failures, lapses>>

Lapse(j) ==
    /\ state[j] = "leased"
    /\ live[j]
    /\ live' = [live EXCEPT ![j] = FALSE]
    /\ UNCHANGED <<state, holder, failures, lapses>>

(* j leaves its holder for state s, with n failures and m lapses charged.  *)
EndLease(j, s, n, m) ==
    /\ state' = [state EXCEPT ![j] = s]
    /\ holder' = [holder EXCEPT ![j] = NoWorker]
    /\ live' = [live EXCEPT ![j] = FALSE]
    /\ failures' = [failures EXCEPT ![j] = IF s = "ready" THEN n ELSE 0]
    /\ lapses' = [lapses EXCEPT ![j] = IF s = "ready" THEN m ELSE 0]

Settles(w, j) ==
    /\ state[j] = "leased"
    /\ holder[j] = w
    /\ live[j]

Complete(w, j) ==
    /\ Settles(w, j)
    /\ EndLease(j, "completed", 0, 0)

GiveBack(w, j) ==
    /\ Settles(w, j)
    /\ EndLease(j, "ready", failures[j], lapses[j])

Fail(w, j) ==
    /\ Settles(w, j)
    /\ EndLease(j, IF failures[j] + 1 < MaxAttempts THEN "ready" ELSE "failed",
                failures[j] + 1, lapses[j])

Reclaim(j) ==
    /\ state[j] = "leased"
    /\ ~live[j]
    /\ EndLease(j, IF lapses[j] + 1 < MaxLeaseExpiries THEN "ready" ELSE "failed",
                failures[j], lapses[j] + 1)

Cancel(j) ==
    /\ state[j] \in {"ready", "leased"}
    /\ EndLease(j, "canceled", 0, 0)

Next ==
    \/ \E j \in Jobs : Submit(j) \/ Lapse(j) \/ Reclaim(j) \/ Cancel(j)
    \/ \E w \in Workers, S \in SUBSET Jobs : Grant(w, S)
    \/ \E w \in Workers, j \in Jobs :
            Complete(w, j) \/ GiveBack(w, j) \/ Fail(w, j)

Spec == Init /\ [][Next]_vars
=============================================================================
