-------------------------- MODULE AgentOwnersProofs --------------------------
(***************************************************************************)
(* Proofs about the owners of turns and the runners at work for them, for  *)
(* any messages, holders, limits and kinds of faults, while no transaction *)
(* stalls: that no harness works unwatched.                                *)
(***************************************************************************)
EXTENDS AgentTurnsProofs

-----------------------------------------------------------------------------
(* The second layer: owners and runners, while no transaction stalled.     *)

(* The runners of a turn that may be at work and that nobody left to       *)
(* themselves.                                                             *)
Working(t) == {c \in 1 .. Len(runner[t]) : runner[t][c].phase \in Up /\ ~runner[t][c].left}
Dead(t) == Working(t) = {}

(* A runner that may work is the one that the last attempt of a running    *)
(* turn records; it has not said that it ended.                            *)
Recorded(t) == \A c \in Working(t) :
    /\ turn[t].status = "running"
    /\ attempt[t][Len(attempt[t])].runner # None
    /\ attempt[t][Len(attempt[t])].runner.at = c
GoesOnTalking(t) == \A c \in Working(t) : \A i \in 1 .. Len(runner[t][c].out) :
    runner[t][c].out[i][1] # "end"
WatchedTurn(t) == Recorded(t) /\ GoesOnTalking(t)

(* What the owner of a turn may rely on.                                   *)
Resting == {"attempt", "prepare", "launch", "again", "ended", "waits", "killed",
            "settle", "refuse", "lose"}
Relies(h) ==
    LET v == holder[h]
        t == v.turn
    IN  /\ v.pc \notin {"load", "attempt", "settle"} => v.n = Len(attempt[t])
        /\ v.pc \in Resting => Dead(t)
        /\ v.pc \in {"attach", "start", "pump", "refused"} => turn[t].status = "running"
        /\ v.pc \in {"start", "pump", "refused"} => attempt[t][v.n].runner = v.mem
OwnerFits(h) == Owns(h) => Relies(h)

Inv2 == Timely => /\ \A t \in TurnIds : WatchedTurn(t)
                  /\ \A h \in Holders : OwnerFits(h)

(* No lease is given, and an owned turn keeps its holder.                  *)
Leases == \A u \in TurnIds : turn'[u].live => turn[u].live /\ turn'[u].token = turn[u].token

(* No runner of t starts, and what it says now is no end of a runner that  *)
(* may work.                                                               *)
Calm(t) ==
    /\ Working(t)' \subseteq Working(t)
    /\ \A c \in Working(t)' : \A i \in 1 .. Len(runner'[t][c].out) :
         \/ runner'[t][c].out[i][1] # "end"
         \/ i \in 1 .. Len(runner[t][c].out) /\ runner'[t][c].out[i] = runner[t][c].out[i]

(* A turn whose runners are left alone.                                    *)
LEMMA LeftAlone ==
    ASSUME NEW t, runner'[t] = runner[t]
    PROVE  Calm(t) /\ (Dead(t)' <=> Dead(t)) /\ Working(t)' = Working(t)
  <1>1. Working(t)' = Working(t)
    BY DEF Working
  <1>2. Calm(t)
    BY <1>1 DEF Calm, Working
  <1> QED
    BY <1>1, <1>2 DEF Dead

(* A turn that keeps its status and what its last attempt records.         *)
LEMMA StaysWatched ==
    ASSUME NEW t, WatchedTurn(t), Calm(t),
           turn[t].status = "running" => turn'[t].status = "running",
           Len(attempt'[t]) = Len(attempt[t]),
           LET a == attempt[t][Len(attempt[t])].runner
               b == attempt'[t][Len(attempt[t])].runner
           IN  a = b \/ (b # None /\ a.at = b.at)
    PROVE  WatchedTurn(t)'
  <1>1. ASSUME NEW c \in Working(t)'
        PROVE  /\ turn'[t].status = "running"
               /\ attempt'[t][Len(attempt'[t])].runner # None
               /\ attempt'[t][Len(attempt'[t])].runner.at = c
    <2>1. c \in Working(t)
      BY <1>1 DEF Calm
    <2> QED
      BY <2>1 DEF WatchedTurn, Recorded
  <1>2. ASSUME NEW c \in Working(t)', NEW i \in 1 .. Len(runner'[t][c].out)
        PROVE  runner'[t][c].out[i][1] # "end"
    <2>1. c \in Working(t)
      BY <1>2 DEF Calm
    <2> QED
      BY <1>2, <2>1 DEF Calm, WatchedTurn, GoesOnTalking
  <1>3. Recorded(t)'
    BY <1>1 DEF Recorded
  <1>4. GoesOnTalking(t)'
    BY <1>2 DEF GoesOnTalking
  <1> QED
    BY <1>3, <1>4 DEF WatchedTurn

(* A calm turn with no working runner gets none.                           *)
LEMMA StaysDead ==
    ASSUME NEW t, Calm(t), Dead(t)
    PROVE  Dead(t)'
  BY DEF Calm, Dead

(* A turn with no runner that may work.                                    *)
LEMMA DeadWatched ==
    ASSUME NEW t, Dead(t)'
    PROVE  WatchedTurn(t)'
  BY DEF Dead, WatchedTurn, Recorded, GoesOnTalking

(* Runners of a turn that does not run do not work.                        *)
LEMMA RestingDead ==
    ASSUME NEW t, WatchedTurn(t), turn[t].status # "running"
    PROVE  Dead(t)
  BY DEF Dead, WatchedTurn, Recorded

(* When the recorded runner does not work, none does.                      *)
LEMMA RecordedDead ==
    ASSUME NEW t, WatchedTurn(t),
           LET a == attempt[t][Len(attempt[t])].runner
           IN  a = None \/ a.at \notin Working(t)
    PROVE  Dead(t)
  BY DEF Dead, WatchedTurn, Recorded

(* A turn has one owner.                                                   *)
LEMMA OneOwner ==
    ASSUME Inv1, NEW h \in Holders, NEW g \in Holders, Owns(h), Owns(g)
    PROVE  g = h
  <1>1. /\ holder[h].turn \in TurnIds /\ turn[holder[h].turn].status \in Active
        /\ holder[g].turn \in TurnIds /\ turn[holder[g].turn].status \in Active
    BY Driven DEF Owns
  <1>2. holder[h].turn = holder[g].turn
    BY <1>1 DEF Inv1, TurnsFit
  <1> QED
    BY <1>2 DEF Owns

(* A holder that the step leaves alone owns no more than it did.           *)
LEMMA OwnedBefore ==
    ASSUME Inv1, Leases, NEW g \in Holders, holder'[g] = holder[g], Owns(g)'
    PROVE  Owns(g) /\ holder[g].turn \in TurnIds
  <1>1. holder[g].pc # "idle" /\ turn'[holder[g].turn].token = g /\ turn'[holder[g].turn].live
    BY DEF Owns
  <1>2. holder[g].turn \in TurnIds
    BY <1>1, Driven
  <1> QED
    BY <1>1, <1>2 DEF Owns, Leases

(* A step of the owner of t.                                               *)
LEMMA OwnerStep ==
    ASSUME Inv1, Inv2, Timely, NEW h \in Holders, Owns(h), Leases,
           NEW t, t = holder[h].turn,
           \A u \in TurnIds : u # t => /\ attempt'[u] = attempt[u] /\ runner'[u] = runner[u]
                                       /\ turn[u].status = "running" => turn'[u].status = "running",
           WatchedTurn(t)', OwnerFits(h)',
           \A g \in Holders : g # h => holder'[g] = holder[g]
    PROVE  Inv2'
  <1>1. ASSUME NEW u \in TurnIds, u # t PROVE WatchedTurn(u)'
    <2>1. WatchedTurn(u) /\ Calm(u)
      BY <1>1, LeftAlone DEF Inv2
    <2> QED
      BY <1>1, <2>1, StaysWatched
  <1>2. ASSUME NEW g \in Holders, g # h PROVE OwnerFits(g)'
    <2>1. Owns(g)' => Owns(g)
      BY <1>2, OwnedBefore
    <2> QED
      BY <1>2, <2>1, OneOwner DEF OwnerFits
  <1> QED
    BY <1>1, <1>2 DEF Inv2

(* A step that leaves attempts alone and starts no runner.                 *)
LEMMA OutsideStep ==
    ASSUME Inv1, Inv2, Timely, Leases, attempt' = attempt,
           \A u \in TurnIds : Calm(u),
           \A u \in TurnIds : turn[u].status = "running" => turn'[u].status = "running",
           \A g \in Holders : holder'[g] = holder[g] \/ OwnerFits(g)'
    PROVE  Inv2'
  <1>1. ASSUME NEW u \in TurnIds PROVE WatchedTurn(u)'
    BY StaysWatched DEF Inv2
  <1>2. ASSUME NEW g \in Holders, holder'[g] = holder[g] PROVE OwnerFits(g)'
    <2> SUFFICES ASSUME Owns(g)' PROVE Relies(g)'
      BY DEF OwnerFits
    <2>1. Owns(g) /\ holder[g].turn \in TurnIds
      BY <1>2, OwnedBefore
    <2>2. Relies(g)
      BY <2>1 DEF Inv2, OwnerFits
    <2>3. \A u \in TurnIds : Dead(u) => Dead(u)'
      BY StaysDead
    <2>4. Dead(holder[g].turn) => Dead(holder[g].turn)'
      BY <1>2, <2>1, <2>3 DEF Dead, Working
    <2> QED
      BY <1>2, <2>1, <2>2, <2>4 DEF Relies
  <1> QED
    BY <1>1, <1>2 DEF Inv2

-----------------------------------------------------------------------------
(* Steps that start no runner and write no attempt.                        *)

(* The holder of a lease has what it relies on.                            *)
LEMMA OwnerHas ==
    ASSUME Inv1, Inv2, Timely, NEW h \in Holders, holder[h].pc # "idle", May(h)
    PROVE  /\ holder[h].turn \in TurnIds
           /\ Owns(h) /\ Relies(h) /\ WatchedTurn(holder[h].turn)
           /\ Len(attempt[holder[h].turn]) \in Nat
  <1>1. Owns(h) /\ holder[h].turn \in TurnIds
    BY Driven
  <1>2. Len(attempt[holder[h].turn]) \in Nat
    BY <1>1, Lengths DEF Inv1
  <1> QED
    BY <1>1, <1>2 DEF Inv2, OwnerFits

(* Turns left alone.                                                       *)
LEMMA TurnsAlone ==
    ASSUME turn' = turn
    PROVE  Leases /\ \A u \in TurnIds : turn[u].status = "running" => turn'[u].status = "running"
  BY DEF Leases

(* Runners left alone.                                                     *)
LEMMA RunnersAlone ==
    ASSUME runner' = runner
    PROVE  \A u \in TurnIds : Calm(u) /\ (Dead(u) => Dead(u)')
  BY LeftAlone

(* A holder with nothing to do owns nothing.                               *)
LEMMA IdleFits ==
    ASSUME NEW g \in Holders, holder'[g].pc = "idle"
    PROVE  OwnerFits(g)'
  BY DEF OwnerFits, Owns

(* What a holder may rely on after a step, said of its row.                *)
LEMMA ReliesOn ==
    ASSUME NEW h, NEW t, NEW v, holder'[h] = v, v.turn = t,
           v.pc \notin {"load", "attempt", "settle"} => v.n = Len(attempt'[t]),
           v.pc \in Resting => Dead(t)',
           v.pc \in {"attach", "start", "pump", "refused"} => turn'[t].status = "running",
           v.pc \in {"start", "pump", "refused"} => attempt'[t][v.n].runner = v.mem
    PROVE  OwnerFits(h)'
  BY DEF OwnerFits, Relies, Dead, Working

(* The holder of t goes on with it.                                        *)
LEMMA GoesOnFits ==
    ASSUME Inv1, Inv2, Timely, NEW h \in Holders, NEW t \in TurnIds, t = holder[h].turn,
           NEW v \in HolderRow, holder' = [holder EXCEPT ![h] = v], v.turn = t,
           turn' = turn, attempt' = attempt, \A u \in TurnIds : Calm(u),
           v.pc \notin {"load", "attempt", "settle"} => v.n = Len(attempt[t]),
           v.pc \in Resting => Dead(t)',
           v.pc \in {"attach", "start", "pump", "refused"} => turn[t].status = "running",
           v.pc \in {"start", "pump", "refused"} => attempt[t][v.n].runner = v.mem
    PROVE  Inv2'
  <1>1. holder'[h] = v /\ \A g \in Holders : g # h => holder'[g] = holder[g]
    BY HolderKeeps DEF Inv1
  <1>2. OwnerFits(h)'
    BY <1>1, ReliesOn
  <1>3. Leases /\ \A u \in TurnIds : turn[u].status = "running" => turn'[u].status = "running"
    BY TurnsAlone
  <1>4. \A g \in Holders : holder'[g] = holder[g] \/ OwnerFits(g)'
    BY <1>1, <1>2
  <1> QED
    BY <1>3, <1>4, OutsideStep

(* What people do, and the end of a lease.                                 *)
LEMMA QuietStep ==
    ASSUME Inv1, Inv2, Timely, Leases, attempt' = attempt, runner' = runner,
           \A u \in TurnIds : turn[u].status = "running" => turn'[u].status = "running",
           \A g \in Holders : holder'[g] = holder[g] \/ holder'[g].pc = "idle"
    PROVE  Inv2'
  <1>1. \A g \in Holders : holder'[g] = holder[g] \/ OwnerFits(g)'
    BY IdleFits
  <1>2. \A u \in TurnIds : Calm(u)
    BY RunnersAlone
  <1> QED
    BY <1>1, <1>2, OutsideStep

-----------------------------------------------------------------------------
(* What people do starts and ends no runner.                               *)

(* A message is sent.                                                      *)
LEMMA SendOwners ==
    ASSUME Inv1, Inv2, Timely, NEW m \in Messages, NEW mode, Send(m, mode)
    PROVE  Inv2'
  <1>1. attempt' = attempt /\ holder' = holder /\ runner' = runner
    BY DEF Send
  <1>2. Own(m) \in TurnIds /\ turn[Own(m)].status = "none" /\ item[m] = None
    BY Names DEF Inv1, ItemsFit, Send
  <1>3. \A u \in TurnIds : /\ turn'[u].live => turn[u].live /\ turn'[u].token = turn[u].token
                           /\ turn[u].status = "running" => turn'[u].status = "running"
    <2>1. CASE turn' = turn
      BY <2>1
    <2> DEFINE T == [turn EXCEPT ![Own(m)] = NewTurn(LastOrdinal(turn) + 1, 0)]
               U == [StopActive(turn) EXCEPT ![Own(m)] = NewTurn(LastOrdinal(turn) + 1, 1)]
    <2>2. ~NewTurn(LastOrdinal(turn) + 1, 0).live /\ ~NewTurn(LastOrdinal(turn) + 1, 1).live
      BY DEF NewTurn, Absent
    <2>3. CASE turn' = T
      <3>1. \A u \in TurnIds : T[u] = IF u = Own(m) THEN NewTurn(LastOrdinal(turn) + 1, 0) ELSE turn[u]
        BY DEF Inv1, TurnsFit
      <3> HIDE DEF T
      <3> QED
        BY <1>2, <2>2, <2>3, <3>1
    <2>4. CASE turn' = U
      <3>1. \A u \in TurnIds : StopActive(turn)[u].status = turn[u].status
                /\ StopActive(turn)[u].live = turn[u].live /\ StopActive(turn)[u].token = turn[u].token
        BY StopActiveKeeps DEF Inv1
      <3>2. \A u \in TurnIds : U[u] = IF u = Own(m) THEN NewTurn(LastOrdinal(turn) + 1, 1)
                                      ELSE StopActive(turn)[u]
        BY DEF StopActive
      <3> HIDE DEF U
      <3> QED
        BY <1>2, <2>2, <2>4, <3>1, <3>2
    <2> QED
      BY <2>1, <2>3, <2>4 DEF Send
  <1>4. Leases
    BY <1>3 DEF Leases
  <1> QED
    BY <1>1, <1>3, <1>4, QuietStep

(* What stops is stopped, and what waits to be tried again is interrupted. *)
LEMMA InterruptOwners ==
    ASSUME Inv1, Inv2, Timely, Interrupt
    PROVE  Inv2'
  <1> DEFINE waiting == {t \in TurnIds : WaitsToRetry(t)}
             ended == [t \in TurnIds |->
                         IF t \in waiting THEN [turn[t] EXCEPT !.status = "interrupted"]
                         ELSE turn[t]]
  <1>1. attempt' = attempt /\ holder' = holder /\ runner' = runner
    BY DEF Interrupt
  <1>2. turn' = StopActive(RequeueSteers(ended, waiting))
    BY Zenon DEF Interrupt
  <1>3. \A u \in TurnIds : /\ ended[u].live = turn[u].live /\ ended[u].token = turn[u].token
                           /\ turn[u].status = "running" => ended[u].status = "running"
                           /\ {"status", "live", "token"} \subseteq DOMAIN ended[u]
    <2>1. \A u \in TurnIds : turn[u] \in TurnRow
      BY Rows
    <2>2. \A u \in TurnIds : turn[u].status = "running" => u \notin waiting
      BY DEF WaitsToRetry
    <2>3. \A u \in TurnIds : ended[u] = IF u \in waiting THEN [turn[u] EXCEPT !.status = "interrupted"]
                                        ELSE turn[u]
      OBVIOUS
    <2> HIDE DEF ended, waiting
    <2> QED
      BY <2>1, <2>2, <2>3 DEF TurnRow
  <1>4. \A m \in Moved(waiting) : turn[Own(m)].status = "none"
    BY MovedAbsent DEF Inv1
  <1> DEFINE U == RequeueSteers(ended, waiting)
  <1>5. \A u \in TurnIds : \/ U[u] = ended[u]
                           \/ /\ turn[u].status = "none" /\ ~U[u].live
                              /\ {"status", "live", "token"} \subseteq DOMAIN U[u]
    <2>1. \A u \in TurnIds : U[u] = IF \E m \in Moved(waiting) : u = Own(m) THEN U[u] ELSE ended[u]
      BY DEF RequeueSteers, Moved
    <2>2. \A u \in TurnIds : (\E m \in Moved(waiting) : u = Own(m)) =>
            ~U[u].live /\ {"status", "live", "token"} \subseteq DOMAIN U[u]
      <3>1. ASSUME NEW x, NEW y
            PROVE  ~NewTurn(x, y).live /\ {"status", "live", "token"} \subseteq DOMAIN NewTurn(x, y)
        BY DEF NewTurn, Absent
      <3>2. \A u \in TurnIds : (\E m \in Moved(waiting) : u = Own(m)) => \E x : U[u] = NewTurn(x, 0)
        BY DEF RequeueSteers, Moved
      <3> HIDE DEF U
      <3> QED
        BY <3>1, <3>2
    <2> HIDE DEF U, ended, waiting
    <2> QED
      BY <1>4, <2>1, <2>2
  <1>6. \A u \in TurnIds : turn'[u] = IF U[u].status \in Active THEN [U[u] EXCEPT !.stop = TRUE] ELSE U[u]
    BY <1>2 DEF StopActive
  <1> HIDE DEF U, ended, waiting
  <1>7. \A u \in TurnIds : /\ turn'[u].live = U[u].live /\ turn'[u].token = U[u].token
                           /\ turn'[u].status = U[u].status
    BY <1>3, <1>5, <1>6
  <1>8. \A u \in TurnIds : /\ turn'[u].live => turn[u].live /\ turn'[u].token = turn[u].token
                           /\ turn[u].status = "running" => turn'[u].status = "running"
    BY <1>3, <1>5, <1>7
  <1> QED
    BY <1>1, <1>8, QuietStep DEF Leases

(* One row changes, its lease and its work do not.                         *)
LEMMA OneRowQuiet ==
    ASSUME Inv1, Inv2, Timely, NEW t, NEW row, turn' = WithRow(turn, t, row),
           row.live => turn[t].live /\ row.token = turn[t].token,
           turn[t].status = "running" => row.status = "running",
           attempt' = attempt, runner' = runner, 
           \A g \in Holders : holder'[g] = holder[g] \/ holder'[g].pc = "idle"
    PROVE  Inv2'
  <1>1. \A u \in TurnIds : turn'[u] = IF u = t THEN row ELSE turn[u]
    BY DEF Inv1, TurnsFit, WithRow
  <1>2. Leases /\ \A u \in TurnIds : turn[u].status = "running" => turn'[u].status = "running"
    BY <1>1 DEF Leases
  <1> QED
    BY <1>2, QuietStep

(* A queued turn is cancelled, held, queued again or retried; time passes. *)
LEMMA WaitingOwners ==
    ASSUME Inv1, Inv2, Timely, NEW t \in TurnIds,
           CancelQueued(t) \/ Hold(t) \/ Unhold(t) \/ Retry(t) \/ Lapse(t) \/ FallsDue(t)
    PROVE  Inv2'
  <1>1. attempt' = attempt /\ holder' = holder /\ runner' = runner
    BY DEF CancelQueued, Hold, Unhold, Retry, Lapse, FallsDue
  <1>2. turn[t] \in TurnRow /\ turn \in [TurnIds -> TurnRow]
    BY Rows DEF Inv1, TurnsFit
  <1> DEFINE x == [turn[t] EXCEPT !.status = "cancelled"]
             y == [turn[t] EXCEPT !.status = "held", !.fresh = TRUE]
             z == [turn[t] EXCEPT !.status = "queued", !.fresh = FALSE]
             w == [turn[t] EXCEPT !.status = "queued", !.prio = 1, !.due = TRUE, !.stop = FALSE]
             l == [turn[t] EXCEPT !.live = FALSE]
             d == [turn[t] EXCEPT !.due = TRUE]
             f == [turn[t] EXCEPT !.fresh = FALSE]
  <1>3. /\ CancelQueued(t) => turn' = WithRow(turn, t, x) /\ turn[t].status # "running"
        /\ Hold(t) => turn' = WithRow(turn, t, y) /\ turn[t].status # "running"
        /\ Unhold(t) => turn' = WithRow(turn, t, z) /\ turn[t].status # "running"
        /\ Retry(t) => turn' = WithRow(turn, t, w) /\ turn[t].status # "running"
        /\ Lapse(t) => turn' = WithRow(turn, t, l)
        /\ FallsDue(t) => turn' = WithRow(turn, t, d) \/ turn' = WithRow(turn, t, f)
    BY <1>2 DEF CancelQueued, Hold, Unhold, Retry, Lapse, FallsDue, WithRow
  <1>4. /\ x.live = turn[t].live /\ x.token = turn[t].token
        /\ y.live = turn[t].live /\ y.token = turn[t].token
        /\ z.live = turn[t].live /\ z.token = turn[t].token
        /\ w.live = turn[t].live /\ w.token = turn[t].token
        /\ l.live = FALSE /\ l.status = turn[t].status
        /\ d.live = turn[t].live /\ d.token = turn[t].token /\ d.status = turn[t].status
        /\ f.live = turn[t].live /\ f.token = turn[t].token /\ f.status = turn[t].status
    BY <1>2 DEF TurnRow
  <1> HIDE DEF x, y, z, w, l, d, f
  <1>5. \E row : /\ turn' = WithRow(turn, t, row)
                 /\ row.live => turn[t].live /\ row.token = turn[t].token
                 /\ turn[t].status = "running" => row.status = "running"
    BY <1>3, <1>4
  <1>6. \A g \in Holders : holder'[g] = holder[g] \/ holder'[g].pc = "idle"
    BY <1>1
  <1> QED
    BY <1>1, <1>5, <1>6, OneRowQuiet

(* To the front of the queue.                                              *)
LEMMA SendNowOwners ==
    ASSUME Inv1, Inv2, Timely, NEW t \in TurnIds, SendNow(t)
    PROVE  Inv2'
  <1> DEFINE T == StopActive(turn)
  <1>1. attempt' = attempt /\ holder' = holder /\ runner' = runner /\ turn[t].status # "running"
        /\ turn' = [T EXCEPT ![t].status = "queued", ![t].prio = 1, ![t].fresh = FALSE]
    BY DEF SendNow
  <1>2. /\ T \in [TurnIds -> TurnRow]
        /\ \A u \in TurnIds : T[u].status = turn[u].status /\ T[u].live = turn[u].live
                              /\ T[u].token = turn[u].token
    BY StopActiveKeeps DEF Inv1, TurnsFit
  <1> HIDE DEF T
  <1>3. \A u \in TurnIds : turn'[u].live = T[u].live /\ turn'[u].token = T[u].token
                           /\ (u # t => turn'[u].status = T[u].status)
    <2> DEFINE row == [T[t] EXCEPT !.status = "queued", !.prio = 1, !.fresh = FALSE]
    <2>1. \A u \in TurnIds : turn'[u] = IF u = t THEN row ELSE T[u]
      BY <1>1, <1>2
    <2>2. row.live = T[t].live /\ row.token = T[t].token
      BY <1>2 DEF TurnRow
    <2> HIDE DEF row
    <2> QED
      BY <2>1, <2>2
  <1>4. Leases /\ \A u \in TurnIds : turn[u].status = "running" => turn'[u].status = "running"
    BY <1>1, <1>2, <1>3 DEF Leases
  <1> QED
    BY <1>1, <1>4, QuietStep

(* People.                                                                 *)
LEMMA PeopleOwners ==
    ASSUME Inv1, Inv2, Timely, People
    PROVE  Inv2'
  <1>1. CASE \E m \in Messages, mode \in Modes : Send(m, mode)
    BY <1>1, SendOwners
  <1>2. CASE Interrupt
    BY <1>2, InterruptOwners
  <1>3. CASE \E t \in TurnIds : CancelQueued(t) \/ Hold(t) \/ Unhold(t) \/ Retry(t)
    BY <1>3, WaitingOwners
  <1>4. CASE \E t \in TurnIds : SendNow(t)
    BY <1>4, SendNowOwners
  <1>5. CASE \E m \in Messages : SteerNow(m)
    <2>1. turn' = turn /\ attempt' = attempt /\ runner' = runner /\ holder' = holder
      BY <1>5 DEF SteerNow
    <2> QED
      BY <2>1, TurnsAlone, QuietStep
  <1>6. CASE \E x \in Harnesses : SwitchHarness(x)
    <2>1. turn' = turn /\ attempt' = attempt /\ runner' = runner /\ holder' = holder
      BY <1>6 DEF SwitchHarness
    <2> QED
      BY <2>1, TurnsAlone, QuietStep
  <1> QED
    BY <1>1, <1>2, <1>3, <1>4, <1>5, <1>6 DEF People

(* The holder goes away, or gives its turn up.                             *)
LEMMA LeavingOwners ==
    ASSUME Inv1, Inv2, Timely, NEW h \in Holders, Leave(h) \/ Crash(h) \/ Disconnected(h)
    PROVE  Inv2'
  <1>1. attempt' = attempt /\ runner' = runner /\ holder' = [holder EXCEPT ![h] = Idle]
    BY DEF Leave, Crash, Disconnected
  <1>2. \A g \in Holders : holder'[g] = holder[g] \/ holder'[g].pc = "idle"
    <2>1. holder \in [Holders -> HolderRow]
      BY DEF Inv1, TablesFit
    <2> QED
      BY <1>1, <2>1, IdleRow
  <1>3. CASE turn' = turn
    BY <1>1, <1>2, <1>3, TurnsAlone, QuietStep
  <1>4. CASE turn' = [turn EXCEPT ![holder[h].turn].live = FALSE] /\ holder[h].pc # "idle"
    <2> DEFINE t == holder[h].turn
               row == [turn[t] EXCEPT !.live = FALSE]
    <2>1. t \in TurnIds /\ turn[t] \in TurnRow
      BY <1>4, Driven
    <2>2. turn' = WithRow(turn, t, row)
      BY <1>4, Zenon DEF WithRow
    <2>3. ~row.live /\ row.status = turn[t].status
      BY <2>1 DEF TurnRow
    <2> HIDE DEF row, t
    <2> QED
      BY <1>1, <1>2, <2>2, <2>3, OneRowQuiet
  <1> QED
    BY <1>3, <1>4 DEF Leave, Crash, Disconnected

(* A graceful stop.                                                        *)
LEMMA StopOwners ==
    ASSUME Inv1, Inv2, Timely, NEW h \in Holders, Stop(h)
    PROVE  Inv2'
  <1>1. attempt' = attempt /\ runner' = runner
    BY DEF Stop
  <1>2. CASE turn' = turn /\ holder' = holder
    BY <1>1, <1>2, TurnsAlone, QuietStep
  <1>3. CASE /\ turn' = [turn EXCEPT ![holder[h].turn].live = FALSE]
             /\ holder' = [holder EXCEPT ![h] = IF @.pc = "start" THEN @ ELSE Idle]
    <2> DEFINE t == holder[h].turn
               row == [turn[t] EXCEPT !.live = FALSE]
    <2>1. t \in TurnIds /\ turn[t] \in TurnRow
      BY Driven DEF Stop, Owns
    <2>2. turn' = WithRow(turn, t, row)
      BY <1>3, Zenon DEF WithRow
    <2>3. ~row.live /\ row.status = turn[t].status
      BY <2>1 DEF TurnRow
    <2>4. \A g \in Holders : holder'[g] = holder[g] \/ holder'[g].pc = "idle"
      <3>1. holder \in [Holders -> HolderRow]
        BY DEF Inv1, TablesFit
      <3> QED
        BY <1>3, <3>1, IdleRow
    <2> HIDE DEF row, t
    <2> QED
      BY <1>1, <2>2, <2>3, <2>4, OneRowQuiet
  <1> QED
    BY <1>2, <1>3 DEF Stop

-----------------------------------------------------------------------------
(* Where a holder finds its turn.                                          *)
LEMMA LoadOwners ==
    ASSUME Inv1, Inv2, Timely, NEW h \in Holders, Load(h)
    PROVE  Inv2'
  <1>1. /\ holder[h].pc = "load" /\ May(h)
        /\ turn' = turn /\ attempt' = attempt /\ runner' = runner
    BY DEF Load
  <1>2. PICK t \in TurnIds : t = holder[h].turn
    BY <1>1, OwnerHas
  <1> DEFINE n == Len(attempt[t])
  <1>3. /\ WatchedTurn(t) /\ n \in Nat /\ holder[h] \in HolderRow
        /\ holder \in [Holders -> HolderRow]
    BY <1>1, <1>2, OwnerHas DEF Inv1, TablesFit
  <1>4. \A u \in TurnIds : Calm(u) /\ (Dead(u) => Dead(u)')
    BY <1>1, RunnersAlone
  <1>5. CASE turn[t].status = "preparing" /\ holder' = [holder EXCEPT ![h].pc = "attempt", ![h].n = n]
    <2> DEFINE v == [holder[h] EXCEPT !.pc = "attempt", !.n = n]
    <2>1. holder' = [holder EXCEPT ![h] = v]
      BY <1>5
    <2>2. v \in HolderRow /\ v.pc = "attempt" /\ v.turn = t
      BY <1>2, <1>3 DEF HolderRow, Places
    <2>3. Dead(t)'
      BY <1>3, <1>4, <1>5, RestingDead
    <2> HIDE DEF v, n
    <2> QED
      BY <1>1, <1>2, <1>4, <2>1, <2>2, <2>3, GoesOnFits
  <1>6. CASE turn[t].status = "running" /\ holder' = [holder EXCEPT ![h].pc = "attach", ![h].n = n]
    <2> DEFINE v == [holder[h] EXCEPT !.pc = "attach", !.n = n]
    <2>1. holder' = [holder EXCEPT ![h] = v]
      BY <1>6
    <2>2. v \in HolderRow /\ v.pc = "attach" /\ v.turn = t /\ v.n = n /\ v.pc \notin Resting
      BY <1>2, <1>3 DEF HolderRow, Places, Resting
    <2> HIDE DEF v
    <2> QED
      BY <1>1, <1>2, <1>4, <1>6, <2>1, <2>2, GoesOnFits
  <1>7. CASE /\ turn[t].status = "finalizing"
             /\ holder' = [[holder EXCEPT ![h].pc = "settle", ![h].n = n] EXCEPT
                              ![h].outcome = AttemptOutcome(attempt[t][n])]
    <2> DEFINE o == AttemptOutcome(attempt[t][n])
               v == [holder[h] EXCEPT !.pc = "settle", !.n = n, !.outcome = o]
    <2>1. holder' = [holder EXCEPT ![h] = v]
      BY <1>3, <1>7
    <2>2. o \in Outcomes
      BY DEF AttemptOutcome, Outcomes
    <2> HIDE DEF o
    <2>3. v \in HolderRow /\ v.turn = t /\ v.pc = "settle"
      BY <1>2, <1>3, <2>2 DEF HolderRow, Places
    <2>4. Dead(t)'
      BY <1>3, <1>4, <1>7, RestingDead
    <2> HIDE DEF v, n
    <2> QED
      BY <1>1, <1>2, <1>4, <2>1, <2>3, <2>4, GoesOnFits
  <1> QED
    BY <1>2, <1>5, <1>6, <1>7 DEF Load

(* A holder whose turn rests goes on to another resting place.             *)
LEMMA RestingOwners ==
    ASSUME Inv1, Inv2, Timely, NEW h \in Holders, holder[h].pc \in Resting, May(h),
           turn' = turn, attempt' = attempt, runner' = runner,
           NEW v \in HolderRow, holder' = [holder EXCEPT ![h] = v],
           v.turn = holder[h].turn, v.n = holder[h].n \/ v.pc \in {"attempt", "settle"},
           v.pc \in Resting,
           holder[h].pc \in {"attempt", "settle"} => v.pc \in {"attempt", "settle"}
    PROVE  Inv2'
  <1>1. holder[h].pc # "idle" /\ holder[h].pc # "load"
    BY DEF Resting
  <1>2. PICK t \in TurnIds : t = holder[h].turn
    BY <1>1, OwnerHas
  <1>3. Relies(h)
    BY <1>1, OwnerHas
  <1>4. \A u \in TurnIds : Calm(u) /\ (Dead(u) => Dead(u)')
    BY RunnersAlone
  <1>5. Dead(t)'
    BY <1>2, <1>3, <1>4 DEF Relies
  <1>6. v.pc \notin {"load", "attempt", "settle"} => v.n = Len(attempt[t])
    BY <1>1, <1>2, <1>3 DEF Relies
  <1>7. v.pc \notin {"attach", "start", "pump", "refused"}
    BY DEF Resting
  <1>8. v.turn = t
    BY <1>2
  <1> QED
    BY <1>2, <1>4, <1>5, <1>6, <1>7, <1>8, GoesOnFits

(* What is prepared is launched, or refused.                               *)
LEMMA PrepareOwners ==
    ASSUME SessionFits, Inv1, Inv2, Timely, NEW h \in Holders, Prepare(h) \/ Refuse(h)
    PROVE  Inv2'
  <1> DEFINE t == holder[h].turn
             on == session.harness \in session.named
             mem == RunnerState(Len(runner[t]) + 1, session.harness, on,
                                AttemptInput(t, holder[h].n, on))
             x == [holder[h] EXCEPT !.pc = "refuse", !.outcome = "interrupted"]
             y == [holder[h] EXCEPT !.pc = "launch", !.mem = mem]
             z == [holder[h] EXCEPT !.pc = "refuse", !.outcome = "failed"]
  <1>1. /\ holder[h].pc = "prepare" /\ May(h) /\ holder[h] \in HolderRow
        /\ turn' = turn /\ attempt' = attempt /\ runner' = runner
        /\ TablesFit /\ t \in TurnIds
    BY InPlace DEF Prepare, Refuse
  <1>2. mem \in RunnerStates
    <2> DEFINE carried == AttemptInput(t, holder[h].n, on)
    <2>1. Len(runner[t]) + 1 \in Nat /\ session.harness \in Harnesses /\ on \in BOOLEAN
      BY <1>1, Lengths DEF SessionFits
    <2>2. carried \in SUBSET Messages
      BY DEF AttemptInput, SteeredItems
    <2> DEFINE k == Len(runner[t]) + 1
               s == session.harness
    <2> HIDE DEF carried, on, k, s
    <2>3. RunnerState(k, s, on, carried) \in RunnerStates
      BY <2>1, <2>2 DEF RunnerState, RunnerStates, k, s
    <2> QED
      BY <2>3 DEF carried, k, s
  <1>3. \/ holder' = [holder EXCEPT ![h] = x]
        \/ holder' = [holder EXCEPT ![h] = y]
        \/ holder' = [holder EXCEPT ![h] = z]
    BY DEF Prepare, Refuse
  <1> HIDE DEF mem
  <1>4. /\ x \in HolderRow /\ x.n = holder[h].n /\ x.turn = t /\ x.pc = "refuse"
        /\ y \in HolderRow /\ y.n = holder[h].n /\ y.turn = t /\ y.pc = "launch"
        /\ z \in HolderRow /\ z.n = holder[h].n /\ z.turn = t /\ z.pc = "refuse"
    BY <1>1, <1>2 DEF HolderRow, Places, Outcomes
  <1> HIDE DEF x, y, z
  <1>5. {"prepare", "launch", "refuse"} \subseteq Resting /\ {"prepare", "launch", "refuse"} \cap {"attempt", "settle"} = {}
    BY DEF Resting
  <1> HIDE DEF t
  <1>6. \E v \in HolderRow : /\ holder' = [holder EXCEPT ![h] = v]
                             /\ v.turn = holder[h].turn /\ v.n = holder[h].n /\ v.pc \in Resting
    BY <1>3, <1>4, <1>5 DEF t
  <1> QED
    BY <1>1, <1>5, <1>6, RestingOwners

(* The pause before a failed attempt is tried again is over.               *)
LEMMA RetryFailureDueOwners ==
    ASSUME Inv1, Inv2, Timely, NEW h \in Holders, RetryFailureDue(h)
    PROVE  Inv2'
  <1> DEFINE t == holder[h].turn
             x == [holder[h] EXCEPT !.pc = "killed", !.outcome = "interrupted"]
             y == [Idle EXCEPT !.pc = "attempt", !.turn = t]
  <1>1. /\ holder[h].pc = "waits" /\ May(h) /\ holder[h] \in HolderRow
        /\ turn' = turn /\ attempt' = attempt /\ runner' = runner
        /\ t \in TurnIds
    BY InPlace DEF RetryFailureDue
  <1>2. \/ holder' = [holder EXCEPT ![h] = x]
        \/ holder' = [holder EXCEPT ![h] = y]
    BY DEF RetryFailureDue
  <1>3. x \in HolderRow /\ x.n = holder[h].n /\ x.turn = t /\ x.pc = "killed"
    BY <1>1 DEF HolderRow, Places, Outcomes
  <1>4. y \in HolderRow /\ y.turn = t /\ y.pc = "attempt"
    <2>1. "attempt" \in Places
      BY DEF Places
    <2> QED
      BY <1>1, <2>1, IdleRow
  <1> HIDE DEF x, y, t
  <1>5. \E v \in HolderRow : /\ holder' = [holder EXCEPT ![h] = v]
                             /\ v.turn = holder[h].turn /\ v.pc \in Resting
                             /\ v.n = holder[h].n \/ v.pc \in {"attempt", "settle"}
    BY <1>2, <1>3, <1>4 DEF t, Resting
  <1>6. holder[h].pc \in Resting /\ holder[h].pc \notin {"attempt", "settle"}
    BY <1>1 DEF Resting
  <1> QED
    BY <1>1, <1>5, <1>6, RestingOwners

(* The turn's changes cannot be saved.                                     *)
LEMMA FinalizeFailsOwners ==
    ASSUME Inv1, Inv2, Timely, NEW h \in Holders, FinalizeFails(h)
    PROVE  Inv2'
  <1> DEFINE v == [holder[h] EXCEPT !.outcome = "failed"]
  <1>1. /\ holder[h].pc = "settle" /\ holder[h] \in HolderRow
        /\ turn' = turn /\ attempt' = attempt /\ runner' = runner
        /\ holder[h].turn \in TurnIds /\ turn[holder[h].turn].status = "finalizing"
        /\ holder' = [holder EXCEPT ![h] = v]
    BY InPlace DEF FinalizeFails
  <1>2. PICK t \in TurnIds : t = holder[h].turn
    BY <1>1
  <1>3. v \in HolderRow /\ v.turn = t /\ v.pc = "settle"
    BY <1>1, <1>2 DEF HolderRow, Outcomes
  <1> HIDE DEF v
  <1>4. WatchedTurn(t)
    BY <1>2 DEF Inv2
  <1>5. \A u \in TurnIds : Calm(u) /\ (Dead(u) => Dead(u)')
    BY <1>1, RunnersAlone
  <1>6. Dead(t)'
    BY <1>1, <1>2, <1>4, <1>5, RestingDead
  <1> QED
    BY <1>1, <1>2, <1>3, <1>5, <1>6, GoesOnFits

-----------------------------------------------------------------------------
(* Steps of a runner.                                                      *)

(* A turn one of whose runners changes calmly.                             *)
LEMMA CalmWrite ==
    ASSUME TablesFit, NEW t \in TurnIds, NEW c \in 1 .. Len(runner[t]), NEW row,
           row \in RunnerRow, RunnerPut(t, c, row), Calms(runner[t][c], row)
    PROVE  \A u \in TurnIds : Calm(u)
  <1>1. ASSUME NEW u \in TurnIds, u # t PROVE Calm(u)
    BY <1>1, LeftAlone DEF RunnerPut
  <1>2. Calm(t)
    <2>1. /\ Len(runner'[t]) = Len(runner[t]) /\ runner'[t][c] = row
          /\ \A i \in 1 .. Len(runner[t]) : i # c => runner'[t][i] = runner[t][i]
      BY DEF RunnerPut
    <2>2. Working(t)' \subseteq Working(t)
      BY <2>1 DEF Working, Calms
    <2>3. ASSUME NEW k \in Working(t)', NEW i \in 1 .. Len(runner'[t][k].out)
          PROVE  \/ runner'[t][k].out[i][1] # "end"
                 \/ i \in 1 .. Len(runner[t][k].out) /\ runner'[t][k].out[i] = runner[t][k].out[i]
      <3>1. CASE runner'[t][k] = runner[t][k]
        BY <2>3, <3>1
      <3>2. CASE k = c /\ row.out = runner[t][c].out
        BY <2>1, <2>3, <3>2
      <3>3. CASE k = c /\ \E f : f[1] # "end" /\ row.out = Append(runner[t][c].out, f)
        <4> DEFINE s == runner[t][c].out
        <4>1. PICK f : f[1] # "end" /\ row.out = Append(s, f)
          BY <3>3
        <4>2. s \in Seq(Frames) /\ runner'[t][k].out = row.out /\ i \in 1 .. Len(row.out)
          BY <2>1, <2>3, <3>3, Lengths DEF RunnerRow
        <4> HIDE DEF s
        <4>3. /\ Len(s) \in Nat /\ Len(row.out) = Len(s) + 1
              /\ row.out[Len(s) + 1] = f
              /\ \A j \in 1 .. Len(s) : row.out[j] = s[j]
          BY <4>1, <4>2
        <4>4. i \in 1 .. Len(s) \/ i = Len(s) + 1
          BY <4>2, <4>3
        <4> QED
          BY <3>3, <4>1, <4>2, <4>3, <4>4 DEF s
      <3>4. k \in Working(t)' /\ k \in 1 .. Len(runner[t])
        BY <2>1, <2>3 DEF Working
      <3>5. k # c => runner'[t][k] = runner[t][k]
        BY <2>1, <3>4
      <3>6. k = c => row.phase \in Up
        BY <2>1, <3>4 DEF Working
      <3> QED
        BY <3>1, <3>2, <3>3, <3>5, <3>6 DEF Calms
    <2> QED
      BY <2>2, <2>3 DEF Calm
  <1> QED
    BY <1>1, <1>2

(* What a harness does, and how its process ends.                          *)
LEMMA HarnessOwners ==
    ASSUME Inv1, Inv2, Timely, NEW t \in TurnIds, NEW c \in DOMAIN runner[t], Harness(t, c)
    PROVE  Inv2'
  <1>1. /\ TablesFit /\ c \in 1 .. Len(runner[t])
        /\ turn' = turn /\ attempt' = attempt /\ holder' = holder
    BY Lengths DEF Inv1, Harness
  <1>2. PICK row \in RunnerRow : runner' = WithPlace(runner, t, c, row) /\ Calms(runner[t][c], row)
    BY HarnessWrites
  <1>3. RunnerPut(t, c, row)
    BY <1>1, <1>2, RunnerWrite
  <1>4. \A u \in TurnIds : Calm(u)
    BY <1>1, <1>2, <1>3, CalmWrite
  <1>5. Leases /\ \A u \in TurnIds : turn[u].status = "running" => turn'[u].status = "running"
    BY <1>1, TurnsAlone
  <1> QED
    BY <1>1, <1>4, <1>5, OutsideStep

-----------------------------------------------------------------------------
(* Steps of a holder on its runner.                                        *)

(* When the recorded runner works no more, none does.                      *)
LEMMA DiesNow ==
    ASSUME NEW t, WatchedTurn(t), Calm(t), NEW c, c \notin Working(t)',
           attempt[t][Len(attempt[t])].runner # None =>
                attempt[t][Len(attempt[t])].runner.at = c
    PROVE  Dead(t)'
  BY DEF Calm, WatchedTurn, Recorded, Dead

(* A runner's phase is written.                                            *)
LEMMA PhaseCalm ==
    ASSUME TablesFit, NEW t \in TurnIds, NEW c \in 1 .. Len(runner[t]), NEW p \in Phases,
           p \in Up => runner[t][c].phase \in Up,
           runner' = [runner EXCEPT ![t][c].phase = p]
    PROVE  /\ \A u \in TurnIds : Calm(u)
           /\ p \notin Up => c \notin Working(t)'
  <1> DEFINE row == [runner[t][c] EXCEPT !.phase = p]
  <1>1. /\ row \in RunnerRow /\ row.phase = p /\ row.out = runner[t][c].out
        /\ row.left = runner[t][c].left
    <2>1. PICK r \in RunnerRow : r = runner[t][c]
      BY Lengths
    <2>2. [r EXCEPT !.phase = p] \in RunnerRow
      BY <2>1 DEF RunnerRow
    <2>3. /\ [r EXCEPT !.phase = p].phase = p /\ [r EXCEPT !.phase = p].out = r.out
          /\ [r EXCEPT !.phase = p].left = r.left
      BY <2>1 DEF RunnerRow
    <2> QED
      BY <2>1, <2>2, <2>3
  <1>2. runner' = WithPlace(runner, t, c, row)
    BY DEF WithPlace
  <1> HIDE DEF row
  <1>3. RunnerPut(t, c, row)
    BY <1>1, <1>2, RunnerWrite
  <1>4. Calms(runner[t][c], row)
    BY <1>1 DEF Calms
  <1>5. \A u \in TurnIds : Calm(u)
    BY <1>1, <1>3, <1>4, CalmWrite
  <1>6. runner'[t][c].phase = p
    BY <1>1, <1>3 DEF RunnerPut
  <1> QED
    BY <1>5, <1>6 DEF Working

(* A runner is killed, or its signal is lost.                              *)
LEMMA KilledCalm ==
    ASSUME TablesFit, NEW t \in TurnIds, NEW c \in 1 .. Len(runner[t]), runner' \in Killed(t, c)
    PROVE  (\A u \in TurnIds : Calm(u)) /\ c \notin Working(t)'
  <1>1. PICK row \in RunnerRow :
            /\ RunnerPut(t, c, row)
            /\ \/ row = [runner[t][c] EXCEPT !.phase = "gone"]
               \/ row = [runner[t][c] EXCEPT !.left = TRUE]
    BY KilledKeeps
  <1>2. /\ row.out = runner[t][c].out
        /\ \/ row.phase = "gone" /\ row.left = runner[t][c].left
           \/ row.left /\ row.phase = runner[t][c].phase
    <2>1. runner[t][c] \in RunnerRow
      BY Lengths
    <2> QED
      BY <1>1, <2>1 DEF RunnerRow
  <1>3. Calms(runner[t][c], row)
    BY <1>2 DEF Calms, Up
  <1>4. \A u \in TurnIds : Calm(u)
    BY <1>1, <1>3, CalmWrite
  <1>5. runner'[t][c] = row
    BY <1>1 DEF RunnerPut
  <1> QED
    BY <1>2, <1>4, <1>5 DEF Working, Up

(* The runners of t are left to themselves.                                *)
LEMMA AbandonedCalm ==
    ASSUME TablesFit, NEW t \in TurnIds, runner' = Abandoned(t)
    PROVE  (\A u \in TurnIds : Calm(u)) /\ Dead(t)'
  <1>1. /\ \A u \in TurnIds : (u # t => runner'[u] = runner[u]) /\ Len(runner'[u]) = Len(runner[u])
        /\ \A c \in 1 .. Len(runner[t]) :
                runner'[t][c] = [runner[t][c] EXCEPT
                    !.left = runner[t][c].left \/ runner[t][c].phase \in {"up", "told", "began"}]
    BY AbandonedKeeps
  <1>2. ASSUME NEW c \in 1 .. Len(runner[t])
        PROVE  runner'[t][c].phase \in Up => runner'[t][c].left
    <2>1. runner[t][c] \in RunnerRow
      BY Lengths
    <2>2. PICK l : l = (runner[t][c].left \/ runner[t][c].phase \in {"up", "told", "began"})
      OBVIOUS
    <2>3. runner'[t][c] = [runner[t][c] EXCEPT !.left = l]
      BY <1>1, <2>2
    <2>4. runner'[t][c].phase = runner[t][c].phase /\ runner'[t][c].left = l
      BY <2>1, <2>3 DEF RunnerRow
    <2> QED
      BY <2>2, <2>4 DEF Up
  <1>3. Working(t)' = {}
    BY <1>1, <1>2 DEF Working
  <1>4. Calm(t)
    BY <1>3 DEF Calm
  <1>5. \A u \in TurnIds : u # t => Calm(u)
    BY <1>1, LeftAlone
  <1> QED
    BY <1>3, <1>4, <1>5 DEF Dead

(* The start of a runner is sent, if only by a holder that lost its turn.  *)
LEMMA StartOwners ==
    ASSUME Inv1, Inv2, Timely, NEW h \in Holders, Start(h)
    PROVE  Inv2'
  <1> DEFINE v == [holder[h] EXCEPT !.pc = "pump"]
             c == holder[h].chan
             p == IF runner[holder[h].turn][c].phase = "up" THEN "told"
                  ELSE runner[holder[h].turn][c].phase
  <1>1. /\ holder[h].pc = "start" /\ holder[h] \in HolderRow /\ TablesFit
        /\ turn' = turn /\ attempt' = attempt
        /\ holder' = [holder EXCEPT ![h] = v]
        /\ holder[h].turn \in TurnIds /\ c \in 1 .. Len(runner[holder[h].turn])
        /\ runner[holder[h].turn][c] \in RunnerRow
    BY InPlace DEF Start
  <1>2. runner' = [runner EXCEPT ![holder[h].turn][c].phase = p]
    BY Zenon DEF Start
  <1>3. PICK t \in TurnIds : t = holder[h].turn
    BY <1>1
  <1>4. p \in Phases /\ (p \in Up => runner[t][c].phase \in Up)
    <2>1. runner[t][c].phase \in Phases
      BY <1>1, <1>3 DEF RunnerRow
    <2> QED
      BY <1>3, <2>1 DEF Phases, Up
  <1>5. v \in HolderRow /\ v.turn = t /\ v.pc = "pump" /\ v.n = holder[h].n /\ v.mem = holder[h].mem
    BY <1>1, <1>3 DEF HolderRow, Places
  <1> HIDE DEF p, v, c
  <1>6. \A u \in TurnIds : Calm(u)
    BY <1>1, <1>2, <1>3, <1>4, PhaseCalm
  <1>7. CASE Owns(h)
    <2>1. Relies(h)
      BY <1>7 DEF Inv2, OwnerFits
    <2>2. /\ holder[h].n = Len(attempt[t]) /\ turn[t].status = "running"
          /\ attempt[t][holder[h].n].runner = holder[h].mem
      BY <1>1, <1>3, <2>1 DEF Relies
    <2>3. v.pc \notin Resting
      BY <1>5 DEF Resting
    <2> QED
      BY <1>1, <1>3, <1>5, <1>6, <2>2, <2>3, GoesOnFits
  <1>8. CASE ~Owns(h)
    <2>1. holder'[h] = v /\ \A g \in Holders : g # h => holder'[g] = holder[g]
      BY <1>1, <1>5, HolderKeeps
    <2>2. ~Owns(h)'
      BY <1>1, <1>3, <1>5, <1>8, <2>1 DEF Owns
    <2>3. \A g \in Holders : holder'[g] = holder[g] \/ OwnerFits(g)'
      BY <2>1, <2>2 DEF OwnerFits
    <2>4. Leases /\ \A u \in TurnIds : turn[u].status = "running" => turn'[u].status = "running"
      BY <1>1, TurnsAlone
    <2> QED
      BY <1>1, <1>6, <2>3, <2>4, OutsideStep
  <1> QED
    BY <1>7, <1>8

(* What the pump of an owner has.                                          *)
LEMMA Pumping ==
    ASSUME Inv1, Inv2, Timely, NEW h \in Holders, holder[h].pc \in {"pump", "refused"}, May(h)
    PROVE  LET t == holder[h].turn
               c == holder[h].chan
           IN  /\ t \in TurnIds /\ Owns(h) /\ WatchedTurn(t) /\ TablesFit /\ holder[h] \in HolderRow
               /\ c \in 1 .. Len(runner[t]) /\ runner[t][c] \in RunnerRow
               /\ turn[t].status = "running"
               /\ holder[h].n = Len(attempt[t]) /\ holder[h].n \in 1 .. Len(attempt[t])
               /\ attempt[t][Len(attempt[t])].runner = holder[h].mem
               /\ holder[h].mem \in RunnerStates /\ holder[h].mem.at = c
  <1>1. Relies(h) /\ Owns(h) /\ WatchedTurn(holder[h].turn)
    BY OwnerHas
  <1> QED
    BY <1>1, InPlace DEF Relies

(* A deaf harness is killed.                                               *)
LEMMA KillOwners ==
    ASSUME Inv1, Inv2, Timely, NEW h \in Holders, Kill(h)
    PROVE  Inv2'
  <1> DEFINE v == [holder[h] EXCEPT !.pc = "killed", !.outcome = "interrupted"]
             c == holder[h].chan
  <1>1. /\ holder[h].pc = "pump" /\ May(h) /\ turn' = turn /\ attempt' = attempt
        /\ runner' \in Killed(holder[h].turn, c)
        /\ holder' = [holder EXCEPT ![h].pc = "killed", ![h].outcome = "interrupted"]
    BY DEF Kill
  <1>2. PICK t \in TurnIds : t = holder[h].turn
    BY <1>1, Pumping
  <1>3. /\ WatchedTurn(t) /\ TablesFit /\ holder[h] \in HolderRow
        /\ c \in 1 .. Len(runner[t])
        /\ holder[h].n = Len(attempt[t])
        /\ attempt[t][Len(attempt[t])].runner.at = c
    BY <1>1, <1>2, Pumping
  <1>5. holder' = [holder EXCEPT ![h] = v]
    BY <1>1
  <1>6. v \in HolderRow /\ v.turn = t /\ v.n = holder[h].n /\ v.pc = "killed"
    BY <1>2, <1>3 DEF HolderRow, Places, Outcomes
  <1> HIDE DEF v, c
  <1>7. (\A u \in TurnIds : Calm(u)) /\ c \notin Working(t)'
    BY <1>1, <1>2, <1>3, KilledCalm
  <1>8. Dead(t)'
    BY <1>3, <1>7, DiesNow
  <1> QED
    BY <1>1, <1>2, <1>3, <1>5, <1>6, <1>7, <1>8, GoesOnFits

(* The runner exited.                                                      *)
LEMMA ExitedOwners ==
    ASSUME Inv1, Inv2, Timely, NEW h \in Holders, Exited(h)
    PROVE  Inv2'
  <1> DEFINE v == [holder[h] EXCEPT !.pc = "lose"]
             c == holder[h].chan
  <1>1. /\ holder[h].pc = "pump" /\ May(h) /\ turn' = turn /\ attempt' = attempt /\ runner' = runner
        /\ runner[holder[h].turn][c].phase = "exited"
        /\ holder' = [holder EXCEPT ![h] = v]
    BY DEF Exited
  <1>2. PICK t \in TurnIds : t = holder[h].turn
    BY <1>1, Pumping
  <1>3. /\ WatchedTurn(t) /\ TablesFit /\ holder[h] \in HolderRow
        /\ holder[h].n = Len(attempt[t])
        /\ attempt[t][Len(attempt[t])].runner.at = c
    BY <1>1, <1>2, Pumping
  <1>4. v \in HolderRow /\ v.turn = t /\ v.n = holder[h].n /\ v.pc = "lose"
    BY <1>2, <1>3 DEF HolderRow, Places
  <1> HIDE DEF v
  <1>5. \A u \in TurnIds : Calm(u) /\ (Dead(u) => Dead(u)')
    BY <1>1, RunnersAlone
  <1>6. Dead(t)
    <2>1. c \notin Working(t)
      BY <1>1, <1>2 DEF Working, Up
    <2> QED
      BY <1>3, <2>1, RecordedDead
  <1>7. Dead(t)'
    BY <1>5, <1>6
  <1> QED
    BY <1>1, <1>2, <1>3, <1>4, <1>5, <1>7, GoesOnFits

(* A step threw.                                                           *)
LEMMA FailUnexpectedlyOwners ==
    ASSUME Inv1, Inv2, Timely, NEW h \in Holders, FailUnexpectedly(h)
    PROVE  Inv2'
  <1>1. Owns(h) /\ holder[h].pc # "idle" /\ turn' = turn /\ attempt' = attempt
    BY DEF FailUnexpectedly, Owns
  <1>2. PICK t \in TurnIds : t = holder[h].turn
    BY <1>1, Driven
  <1>3. PICK n : n = Len(attempt[t])
    OBVIOUS
  <1> DEFINE found == holder[h].pc = "attach" /\ attempt[t][n].runner # None
             v == [holder[h] EXCEPT !.pc = "settle", !.n = n, !.outcome = "failed"]
  <1>4. PICK c : c = IF found THEN attempt[t][n].runner.at ELSE holder[h].chan
    OBVIOUS
  <1>5. /\ \/ c # 0 /\ runner' = [runner EXCEPT ![t][c].phase = "gone"]
           \/ runner' = Abandoned(t)
        /\ holder' = [holder EXCEPT ![h] = v]
    BY <1>2, <1>3, <1>4 DEF FailUnexpectedly
  <1>6. /\ WatchedTurn(t) /\ TablesFit /\ holder[h] \in HolderRow /\ Relies(h)
        /\ holder[h].pc # "idle"
    BY <1>1, <1>2 DEF Inv1, Inv2, OwnerFits, TablesFit, Owns
  <1>7. n \in Nat /\ Len(runner[t]) \in Nat
    BY <1>3, <1>6, Lengths
  <1>8. v \in HolderRow /\ v.turn = t /\ v.pc = "settle"
    BY <1>2, <1>6, <1>7 DEF HolderRow, Places, Outcomes
  <1> HIDE DEF v
  <1>9. CASE runner' = Abandoned(t)
    <2>1. (\A u \in TurnIds : Calm(u)) /\ Dead(t)'
      BY <1>6, <1>9, AbandonedCalm
    <2> QED
      BY <1>1, <1>2, <1>5, <1>8, <2>1, GoesOnFits
  <1>10. CASE c # 0 /\ runner' = [runner EXCEPT ![t][c].phase = "gone"]
    <2>1. c \in 1 .. Len(runner[t])
      <3>1. CASE found
        <4>1. holder[h].n \in 1 .. Len(attempt[t])
          BY <1>2, <1>6, <3>1, InPlace
        <4>2. n \in 1 .. Len(attempt[t])
          BY <1>3, <1>7, <4>1
        <4> QED
          BY <1>4, <3>1, <4>2 DEF Inv1, AttemptsFit
      <3>2. CASE ~found
        <4>1. holder[h].chan \in 0 .. Len(runner[t])
          BY <1>2, <1>6, InPlace
        <4> QED
          BY <1>4, <1>7, <1>10, <3>2, <4>1
      <3> QED
        BY <3>1, <3>2
    <2>2. "gone" \in Phases /\ "gone" \notin Up
      BY DEF Phases, Up
    <2>3. (\A u \in TurnIds : Calm(u)) /\ c \notin Working(t)'
      BY <1>6, <1>10, <2>1, <2>2, PhaseCalm
    <2>4. ASSUME found PROVE Dead(t)'
      BY <1>3, <1>4, <1>6, <2>3, <2>4, DiesNow
    <2>5. ASSUME holder[h].pc = "attach", ~found PROVE Dead(t)'
      <3>1. Dead(t)
        BY <1>3, <1>6, <2>5, RecordedDead
      <3> QED
        BY <2>3, <3>1, StaysDead
    <2>6. ASSUME holder[h].pc \in {"start", "pump", "refused"} PROVE Dead(t)'
      <3>1. holder[h].n = n /\ attempt[t][holder[h].n].runner = holder[h].mem
        BY <1>2, <1>3, <1>6, <2>6 DEF Relies
      <3>2. holder[h].mem.at = c
        BY <1>4, <1>6, <2>6, InPlace
      <3> QED
        BY <1>3, <1>6, <2>3, <3>1, <3>2, DiesNow
    <2>7. ASSUME holder[h].pc \in Resting PROVE Dead(t)'
      <3>1. Dead(t)
        BY <1>2, <1>6, <2>7 DEF Relies
      <3> QED
        BY <2>3, <3>1, StaysDead
    <2>8. holder[h].pc # "load"
      BY <1>4, <1>6, <1>10, InPlace
    <2>9. Dead(t)'
      <3>1. holder[h].pc \in Places
        BY <1>6 DEF HolderRow
      <3> QED
        BY <1>6, <2>4, <2>5, <2>6, <2>7, <2>8, <3>1 DEF Places, Resting
    <2> QED
      BY <1>1, <1>2, <1>5, <1>8, <2>3, <2>9, GoesOnFits
  <1> QED
    BY <1>5, <1>9, <1>10

(* A turn taken over: its runner is found again, or given up.              *)
LEMMA AttachOwners ==
    ASSUME Inv1, Inv2, Timely, NEW h \in Holders, Attach(h)
    PROVE  Inv2'
  <1>1. /\ holder[h].pc = "attach" /\ May(h) /\ turn' = turn /\ attempt' = attempt
        /\ holder[h] \in HolderRow /\ holder \in [Holders -> HolderRow] /\ TablesFit /\ AttemptsFit
    BY InPlace DEF Attach, TablesFit, Inv1
  <1>2. PICK t \in TurnIds : t = holder[h].turn
    BY <1>1, OwnerHas
  <1>3. PICK n : n = holder[h].n
    OBVIOUS
  <1>4. PICK mem : mem = attempt[t][n].runner
    OBVIOUS
  <1>5. /\ WatchedTurn(t) /\ n = Len(attempt[t]) /\ n \in 1 .. Len(attempt[t])
        /\ turn[t].status = "running" /\ attempt[t][n] \in AttemptRow
    <2>1. Relies(h) /\ WatchedTurn(t)
      BY <1>1, <1>2, OwnerHas
    <2>2. n \in 1 .. Len(attempt[t]) /\ attempt[t][n] \in AttemptRow
      BY <1>1, <1>2, <1>3, InPlace
    <2> QED
      BY <1>1, <1>2, <1>3, <2>1, <2>2 DEF Relies
  <1>6. /\ mem \in RunnerStates \cup {None}
        /\ mem # None => mem \in RunnerStates /\ mem.at \in 1 .. Len(runner[t])
                         /\ runner[t][mem.at] \in RunnerRow
    <2>1. mem \in RunnerStates \cup {None}
      BY <1>4, <1>5 DEF AttemptRow
    <2>2. mem # None => mem.at \in 1 .. Len(runner[t])
      BY <1>1, <1>4, <1>5 DEF AttemptsFit
    <2> QED
      BY <1>1, <2>1, <2>2, Lengths
  <1> DEFINE r == runner[t][mem.at]
             open == {m \in Messages : <<"steer", m>> \in command[t]}
             inbox == r.inbox \cup (open \ mem.consumed)
             goes(pc) == [holder[h] EXCEPT !.pc = pc, !.mem = mem]
             on == [holder[h] EXCEPT !.pc = "pump", !.mem = mem, !.chan = mem.at]
  <1>7. /\ goes("again") \in HolderRow /\ goes("again").turn = t /\ goes("again").n = n
        /\ goes("again").pc = "again"
        /\ goes("lose") \in HolderRow /\ goes("lose").turn = t /\ goes("lose").n = n
        /\ goes("lose").pc = "lose"
    BY <1>1, <1>2, <1>3, <1>6 DEF HolderRow, Places
  <1>8. CASE /\ mem = None \/ (mem # None /\ r.phase = "gone")
             /\ holder' = [holder EXCEPT ![h] = goes("again")] \/ holder' = [holder EXCEPT ![h] = goes("lose")]
             /\ runner' = runner
    <2>1. mem = None \/ mem.at \notin Working(t)
      BY <1>8 DEF Working, Up
    <2>2. Dead(t)
      BY <1>4, <1>5, <2>1, RecordedDead
    <2>3. \A u \in TurnIds : Calm(u) /\ (Dead(u) => Dead(u)')
      BY <1>8, RunnersAlone
    <2>4. Dead(t)'
      BY <2>2, <2>3
    <2>5. \E v \in HolderRow : /\ holder' = [holder EXCEPT ![h] = v] /\ v.turn = t /\ v.n = n
                               /\ v.pc \in {"again", "lose"}
      BY <1>7, <1>8
    <2>6. {"again", "lose"} \cap {"attach", "start", "pump", "refused"} = {}
      OBVIOUS
    <2> QED
      BY <1>1, <1>2, <1>5, <2>3, <2>4, <2>5, <2>6, GoesOnFits
  <1>9. CASE /\ mem # None
             /\ runner' \in Killed(t, mem.at)
             /\ holder' = [holder EXCEPT ![h] = goes("again")]
    <2>2. PICK c : c = mem.at
      OBVIOUS
    <2>3. c \in 1 .. Len(runner[t]) /\ runner' \in Killed(t, c)
      BY <1>6, <1>9, <2>2
    <2>4. (\A u \in TurnIds : Calm(u)) /\ c \notin Working(t)'
      BY <1>1, <2>3, KilledCalm
    <2>5. Dead(t)'
      BY <1>4, <1>5, <2>2, <2>4, DiesNow
    <2> DEFINE v == goes("again")
    <2>6. v \in HolderRow /\ v.turn = t /\ v.n = n /\ v.pc = "again" /\ holder' = [holder EXCEPT ![h] = v]
      BY <1>7, <1>9
    <2> HIDE DEF v
    <2> QED
      BY <1>1, <1>2, <1>5, <2>4, <2>5, <2>6, GoesOnFits
  <1>10. CASE /\ mem # None
              /\ runner' = [runner EXCEPT ![t][mem.at].inbox = inbox]
              /\ holder' = [holder EXCEPT ![h] = on]
    <2> DEFINE row == [r EXCEPT !.inbox = inbox]
    <2>1. inbox \in SUBSET Messages
      BY <1>6, <1>10 DEF RunnerRow
    <2>2. runner' = WithPlace(runner, t, mem.at, row)
      BY <1>10 DEF WithPlace
    <2> HIDE DEF inbox
    <2>3. row \in RunnerRow /\ row.phase = r.phase /\ row.out = r.out /\ row.left = r.left
      BY <1>6, <1>10, <2>1 DEF RunnerRow
    <2> HIDE DEF row
    <2>4. Calms(r, row)
      BY <2>3 DEF Calms
    <2>5. PICK c \in 1 .. Len(runner[t]) : c = mem.at
      BY <1>6, <1>10
    <2>6. RunnerPut(t, c, row)
      BY <1>1, <2>2, <2>3, <2>5, RunnerWrite
    <2>7. \A u \in TurnIds : Calm(u)
      BY <1>1, <2>3, <2>4, <2>5, <2>6, CalmWrite
    <2>8. /\ on \in HolderRow /\ on.turn = t /\ on.pc = "pump" /\ on.n = n /\ on.mem = mem
          /\ on.pc \notin Resting
      <3>1. mem.at \in Nat
        BY <1>6, <1>10 DEF RunnerStates
      <3> QED
        BY <1>1, <1>2, <1>3, <1>6, <1>10, <3>1 DEF HolderRow, Places, Resting
    <2> DEFINE v == on
    <2>9. /\ holder' = [holder EXCEPT ![h] = v] /\ v \in HolderRow /\ v.turn = t /\ v.pc = "pump"
          /\ v.n = Len(attempt[t]) /\ v.mem = attempt[t][v.n].runner /\ v.pc \notin Resting
      BY <1>4, <1>5, <1>10, <2>8
    <2> HIDE DEF v
    <2> QED
      BY <1>1, <1>2, <1>5, <2>7, <2>9, GoesOnFits
  <1> QED
    <2>1. t = holder[h].turn /\ n = holder[h].n /\ mem = attempt[holder[h].turn][holder[h].n].runner
      BY <1>2, <1>3, <1>4
    <2>2. \/ /\ mem = None \/ (mem # None /\ r.phase = "gone")
             /\ \/ holder' = [holder EXCEPT ![h].pc = "again", ![h].mem = mem]
                \/ holder' = [holder EXCEPT ![h].pc = "lose", ![h].mem = mem]
             /\ runner' = runner
          \/ /\ mem # None
             /\ runner' \in Killed(t, mem.at)
             /\ holder' = [holder EXCEPT ![h].pc = "again", ![h].mem = mem]
          \/ /\ mem # None
             /\ runner' = [runner EXCEPT ![t][mem.at].inbox = @ \cup (open \ mem.consumed)]
             /\ holder' = [[holder EXCEPT ![h].pc = "pump", ![h].mem = mem] EXCEPT ![h].chan = mem.at]
      BY <2>1 DEF Attach
    <2>3. /\ [holder EXCEPT ![h].pc = "again", ![h].mem = mem] = [holder EXCEPT ![h] = goes("again")]
          /\ [holder EXCEPT ![h].pc = "lose", ![h].mem = mem] = [holder EXCEPT ![h] = goes("lose")]
          /\ [[holder EXCEPT ![h].pc = "pump", ![h].mem = mem] EXCEPT ![h].chan = mem.at]
                = [holder EXCEPT ![h] = on]
      BY <1>1
    <2>4. [runner EXCEPT ![t][mem.at].inbox = @ \cup (open \ mem.consumed)]
            = [runner EXCEPT ![t][mem.at].inbox = inbox]
      OBVIOUS
    <2> HIDE DEF goes, on, r, open, inbox
    <2> QED
      BY <1>8, <1>9, <1>10, <2>2, <2>3, <2>4

-----------------------------------------------------------------------------
(* Steps of the owner on the attempts of its turn.                         *)

(* What a step leaves of the other turns, and what a row of the owner of t *)
(* says after it.                                                          *)
OthersAlone(t) == \A u \in TurnIds : u # t =>
    /\ attempt'[u] = attempt[u] /\ runner'[u] = runner[u]
    /\ turn[u].status = "running" => turn'[u].status = "running"
Fitting(t, v) ==
    /\ v.turn = t
    /\ v.pc \notin {"load", "attempt", "settle"} => v.n = Len(attempt'[t])
    /\ v.pc \in Resting => Dead(t)'
    /\ v.pc \in {"attach", "start", "pump", "refused"} => turn'[t].status = "running"
    /\ v.pc \in {"start", "pump", "refused"} => attempt'[t][v.n].runner = v.mem

(* The owner of t writes what belongs to t, and goes on.                   *)
LEMMA OwnerWrites ==
    ASSUME Inv1, Inv2, Timely, NEW h \in Holders, holder[h].pc # "idle", May(h), Leases,
           NEW t \in TurnIds, t = holder[h].turn, OthersAlone(t), WatchedTurn(t)',
           NEW v \in HolderRow, holder' = [holder EXCEPT ![h] = v], Fitting(t, v)
    PROVE  Inv2'
  <1>1. holder'[h] = v /\ \A g \in Holders : g # h => holder'[g] = holder[g]
    BY HolderKeeps DEF Inv1
  <1>2. OwnerFits(h)'
    BY <1>1, ReliesOn DEF Fitting
  <1>3. Owns(h)
    BY OwnerHas
  <1> QED
    BY <1>1, <1>2, <1>3, OwnerStep DEF OthersAlone

(* The owner of a turn that rests leaves it resting.                       *)
LEMMA OwnerRests ==
    ASSUME Inv1, Inv2, Timely, NEW h \in Holders, holder[h].pc \in Resting, May(h), Leases,
           NEW t \in TurnIds, t = holder[h].turn, OthersAlone(t), runner' = runner,
           NEW v \in HolderRow, holder' = [holder EXCEPT ![h] = v], v.turn = t, v.pc \in Resting,
           v.pc \notin {"load", "attempt", "settle"} => v.n = Len(attempt'[t])
    PROVE  Inv2'
  <1>1. holder[h].pc # "idle"
    BY DEF Resting
  <1>2. Dead(t)
    BY <1>1, OwnerHas DEF Relies
  <1>3. Dead(t)'
    BY <1>2, RunnersAlone
  <1>4. WatchedTurn(t)'
    BY <1>3, DeadWatched
  <1>5. Fitting(t, v)
    BY <1>3 DEF Resting, Fitting
  <1> QED
    BY <1>1, <1>4, <1>5, OwnerWrites

(* Putting a turn where it belongs gives no lease.                         *)
LEMMA PutsOwned ==
    ASSUME Inv1, Inv2, Timely, NEW h \in Holders, holder[h].pc \in Writers, May(h),
           NEW t \in TurnIds, t = holder[h].turn, NEW s \in Active, NEW k \in Nat,
           \/ turn' = PutActive(t, s)
           \/ turn' = [PutActive(t, s) EXCEPT ![t].tries = k]
    PROVE  /\ Leases
           /\ turn'[t].status = s
           /\ \A u \in TurnIds : u # t => (turn[u].status = "running" => turn'[u].status = "running")
  <1>1. holder[h].pc # "idle"
    BY DEF Writers
  <1>2. turn[t].status \notin Settled
    BY <1>1, OwnerHas, Driven DEF Active, Settled
  <1>3. /\ turn[t].status \notin Settled => turn'[t].status = s
        /\ \A u \in TurnIds : u # t => turn'[u] = turn[u]
        /\ turn'[t].live = turn[t].live
        /\ turn'[t].token = turn[t].token
    BY PutActiveKeeps
  <1> QED
    BY <1>2, <1>3 DEF Leases

(* A new attempt.                                                          *)
LEMMA BeginAttemptOwners ==
    ASSUME Inv1, Inv2, Timely, NEW h \in Holders, BeginAttempt(h)
    PROVE  Inv2'
  <1>1. /\ holder[h].pc = "attempt" /\ May(h) /\ runner' = runner
        /\ holder[h] \in HolderRow /\ TablesFit
    BY InPlace DEF BeginAttempt
  <1>2. PICK t \in TurnIds : t = holder[h].turn
    BY <1>1, OwnerHas
  <1> DEFINE n == Len(attempt[t])
  <1>3. n \in Nat /\ Dead(t)
    BY <1>1, <1>2, OwnerHas DEF Relies, Resting
  <1>4. holder[h].pc \in Writers /\ holder[h].pc \in Resting /\ "prepare" \in Resting
    BY <1>1 DEF Writers, Resting
  <1>5. CASE /\ turn' = turn /\ attempt' = attempt
             /\ holder' = [holder EXCEPT ![h].pc = "prepare", ![h].n = n]
    <2> DEFINE v == [holder[h] EXCEPT !.pc = "prepare", !.n = n]
    <2>1. holder' = [holder EXCEPT ![h] = v]
      BY <1>5
    <2>2. v \in HolderRow /\ v.pc = "prepare" /\ v.n = n /\ v.turn = t
      BY <1>1, <1>2, <1>3 DEF HolderRow, Places
    <2>3. Leases /\ \A u \in TurnIds : turn[u].status = "running" => turn'[u].status = "running"
      BY <1>5, TurnsAlone
    <2>4. v.n = Len(attempt'[t])
      BY <1>5, <2>2
    <2>5. OthersAlone(t)
      BY <1>1, <1>5 DEF OthersAlone
    <2> HIDE DEF v, n
    <2> QED
      BY <1>1, <1>2, <1>4, <2>1, <2>2, <2>3, <2>4, <2>5, OwnerRests
  <1>6. CASE /\ attempt' = [attempt EXCEPT ![t] = Append(@, NewAttempt)]
             /\ turn' = [PutActive(t, "preparing") EXCEPT ![t].tries = turn[t].tries + 1]
             /\ holder' = [holder EXCEPT ![h].pc = "prepare", ![h].n = n + 1, ![h].inflight = FALSE]
    <2> DEFINE v == [holder[h] EXCEPT !.pc = "prepare", !.n = n + 1, !.inflight = FALSE]
               k == turn[t].tries + 1
    <2>1. k \in Nat /\ "preparing" \in Active
      BY Rows, Fields DEF Active
    <2>2. turn' = [PutActive(t, "preparing") EXCEPT ![t].tries = k]
      BY <1>6
    <2> HIDE DEF k
    <2>3. /\ Leases
          /\ \A u \in TurnIds : u # t => (turn[u].status = "running" => turn'[u].status = "running")
      BY <1>1, <1>2, <1>4, <2>1, <2>2, PutsOwned
    <2>4. Len(attempt'[t]) = n + 1 /\ \A u \in TurnIds : u # t => attempt'[u] = attempt[u]
      <3>1. attempt \in [TurnIds -> Seq(AttemptRow)] /\ attempt[t] \in Seq(AttemptRow)
        BY <1>1 DEF TablesFit
      <3> QED
        BY <1>6, <3>1
    <2>5. holder' = [holder EXCEPT ![h] = v]
      BY <1>6
    <2>6. v \in HolderRow /\ v.pc = "prepare" /\ v.n = n + 1 /\ v.turn = t
      <3>1. n + 1 \in Nat
        BY <1>3
      <3> DEFINE k1 == n + 1
      <3> HIDE DEF k1
      <3> QED
        BY <1>1, <1>2, <3>1 DEF HolderRow, Places, k1
    <2>7. v.n = Len(attempt'[t])
      BY <2>4, <2>6
    <2>8. OthersAlone(t)
      BY <1>1, <2>3, <2>4 DEF OthersAlone
    <2> HIDE DEF v, n
    <2> QED
      BY <1>1, <1>2, <1>4, <2>3, <2>5, <2>6, <2>7, <2>8, OwnerRests
  <1> QED
    BY <1>2, <1>5, <1>6 DEF BeginAttempt

(* A runner is up, and recorded.                                           *)
LEMMA LaunchOwners ==
    ASSUME Inv1, Inv2, Timely, NEW h \in Holders, Launch(h)
    PROVE  Inv2'
  <1>1. /\ holder[h].pc = "launch" /\ May(h)
        /\ holder[h] \in HolderRow /\ TablesFit
        /\ holder[h].mem \in RunnerStates
    BY InPlace DEF Launch
  <1>2. PICK t \in TurnIds : t = holder[h].turn
    BY <1>1, OwnerHas
  <1>3. PICK n : n = holder[h].n
    OBVIOUS
  <1>4. /\ Dead(t) /\ n = Len(attempt[t]) /\ n \in 1 .. Len(attempt[t]) /\ attempt[t][n] \in AttemptRow
    <2>1. Relies(h)
      BY <1>1, OwnerHas
    <2>2. n \in 1 .. Len(attempt[t]) /\ attempt[t][n] \in AttemptRow
      BY <1>1, <1>2, <1>3, InPlace
    <2> QED
      BY <1>1, <1>2, <1>3, <2>1, <2>2 DEF Relies, Resting
  <1>5. Len(runner[t]) \in Nat
    BY <1>1, Lengths
  <1>6. PICK c : c = Len(runner[t]) + 1 /\ c \in Nat
    BY <1>5
  <1>7. PICK mem : mem = [holder[h].mem EXCEPT !.at = c]
    OBVIOUS
  <1>8. mem \in RunnerStates /\ mem.at = c /\ mem # None
    <2>1. mem \in RunnerStates /\ mem.at = c
      BY <1>1, <1>6, <1>7 DEF RunnerStates
    <2> QED
      BY <2>1, NoneAssumption
  <1> DEFINE row == [attempt[t][n] EXCEPT !.status = "running", !.runner = mem]
             v == [holder[h] EXCEPT !.pc = "start", !.mem = mem, !.chan = mem.at, !.inflight = FALSE]
  <1>9. /\ runner' = WithAppended(runner, t, NewRunner)
        /\ attempt' = WithPlace(attempt, t, n, row)
        /\ turn' = PutActive(t, "running")
        /\ holder' = [holder EXCEPT ![h] = v]
    <2>1. mem = [holder[h].mem EXCEPT !.at = Len(runner[holder[h].turn]) + 1]
      BY <1>2, <1>6, <1>7
    <2>2. attempt' = WithPlace(attempt, t, n, row)
      <3>1. attempt' = [attempt EXCEPT ![holder[h].turn][holder[h].n] =
                            [@ EXCEPT !.status = "running", !.runner = mem]]
        BY <2>1, Zenon DEF Launch
      <3> QED
        BY <1>2, <1>3, <3>1 DEF WithPlace
    <2>3. runner' = WithAppended(runner, t, NewRunner)
      <3>1. runner' = [runner EXCEPT ![holder[h].turn] = Append(@, NewRunner)]
        BY Zenon DEF Launch
      <3> QED
        BY <1>2, <3>1 DEF WithAppended
    <2>4. turn' = PutActive(t, "running")
      BY <1>2, Zenon DEF Launch
    <2>5. holder' = [holder EXCEPT ![h] = v]
      <3>1. holder' = [holder EXCEPT ![h].pc = "start", ![h].mem = mem, ![h].chan = mem.at,
                                     ![h].inflight = FALSE]
        BY <2>1, Zenon DEF Launch
      <3> QED
        BY <1>1, <3>1 DEF TablesFit
    <2> QED
      BY <2>2, <2>3, <2>4, <2>5
  <1>10. row \in AttemptRow /\ row.runner = mem
    BY <1>4, <1>8 DEF AttemptRow, AttemptStatuses
  <1>11. v \in HolderRow /\ v.pc = "start" /\ v.n = n /\ v.turn = t /\ v.mem = mem /\ v.pc \notin Resting
    BY <1>1, <1>2, <1>3, <1>6, <1>8 DEF HolderRow, Places, Resting
  <1> HIDE DEF row, v
  <1>12. AttemptPut(t, n, row)
    BY <1>1, <1>4, <1>9, <1>10, AttemptWrite
  <1>13. NewRunner \in RunnerRow /\ NewRunner.out = <<>>
    <2>1. <<>> \in Seq(Frames)
      BY EmptySeq
    <2> QED
      BY <2>1 DEF NewRunner, RunnerRow, Phases
  <1>14. PICK new : new = NewRunner
    OBVIOUS
  <1>15. RunnerNew(t, new)
    BY <1>1, <1>9, <1>13, <1>14, RunnerAdded
  <1>16. /\ Leases /\ turn'[t].status = "running"
         /\ \A u \in TurnIds : u # t => (turn[u].status = "running" => turn'[u].status = "running")
    <2>1. "running" \in Active /\ holder[h].pc \in Writers /\ 0 \in Nat
      BY <1>1 DEF Active, Writers
    <2> QED
      BY <1>1, <1>2, <1>9, <2>1, PutsOwned
  <1>17. Len(attempt'[t]) = n /\ attempt'[t][n].runner = mem /\ \A u \in TurnIds : u # t => attempt'[u] = attempt[u]
    BY <1>4, <1>10, <1>12 DEF AttemptPut
  <1>18. /\ Len(runner'[t]) = c /\ runner'[t][c] = new
         /\ \A i \in 1 .. Len(runner[t]) : runner'[t][i] = runner[t][i]
         /\ \A u \in TurnIds : u # t => runner'[u] = runner[u]
    BY <1>6, <1>15 DEF RunnerNew
  <1>19. Working(t)' \subseteq {c}
    <2>1. \A i \in 1 .. c : i = c \/ i \in 1 .. Len(runner[t])
      BY <1>5, <1>6
    <2> QED
      BY <1>4, <1>18, <2>1 DEF Working, Dead
  <1>20. WatchedTurn(t)'
    <2>1. Recorded(t)'
      BY <1>8, <1>16, <1>17, <1>19 DEF Recorded
    <2>2. GoesOnTalking(t)'
      <3>1. Len(runner'[t][c].out) = 0
        BY <1>13, <1>14, <1>18
      <3> QED
        BY <1>19, <3>1 DEF GoesOnTalking
    <2> QED
      BY <2>1, <2>2 DEF WatchedTurn
  <1>21. Fitting(t, v)
    BY <1>11, <1>16, <1>17 DEF Fitting
  <1>22. OthersAlone(t)
    BY <1>16, <1>17, <1>18 DEF OthersAlone
  <1>23. holder[h].pc # "idle" /\ May(h) /\ Leases /\ v \in HolderRow
    BY <1>1, <1>11, <1>16
  <1>24. holder' = [holder EXCEPT ![h] = v]
    BY <1>9
  <1> QED
    BY <1>2, <1>20, <1>21, <1>22, <1>23, <1>24, OwnerWrites

(* The runner of an attempt is forgotten: it gets another.                 *)
LEMMA PrepareAgainOwners ==
    ASSUME Inv1, Inv2, Timely, NEW h \in Holders, PrepareAgain(h)
    PROVE  Inv2'
  <1>1. /\ holder[h].pc = "again" /\ May(h) /\ runner' = runner
        /\ holder[h] \in HolderRow /\ TablesFit
    BY InPlace DEF PrepareAgain
  <1>2. PICK t \in TurnIds : t = holder[h].turn
    BY <1>1, OwnerHas
  <1>3. PICK n : n = holder[h].n
    OBVIOUS
  <1>4. n \in 1 .. Len(attempt[t]) /\ attempt[t][n] \in AttemptRow
    BY <1>1, <1>2, <1>3, InPlace
  <1> DEFINE row == [attempt[t][n] EXCEPT !.status = "preparing", !.runner = None]
             v == [holder[h] EXCEPT !.pc = "attempt", !.mem = None, !.chan = 0, !.inflight = FALSE]
  <1>5. /\ attempt' = WithPlace(attempt, t, n, row)
        /\ turn' = PutActive(t, "preparing")
        /\ holder' = [holder EXCEPT ![h] = v]
    BY <1>1, <1>2, <1>3 DEF PrepareAgain, WithPlace
  <1>6. row \in AttemptRow
    BY <1>4 DEF AttemptRow, AttemptStatuses
  <1>7. v \in HolderRow /\ v.pc = "attempt" /\ v.turn = t /\ v.pc \in Resting
    BY <1>1, <1>2 DEF HolderRow, Places, Resting
  <1> HIDE DEF row, v
  <1>8. AttemptPut(t, n, row)
    BY <1>1, <1>4, <1>5, <1>6, AttemptWrite
  <1>9. /\ Leases
        /\ \A u \in TurnIds : u # t => (turn[u].status = "running" => turn'[u].status = "running")
    <2>1. "preparing" \in Active /\ holder[h].pc \in Writers /\ 0 \in Nat
      BY <1>1 DEF Active, Writers
    <2> QED
      BY <1>1, <1>2, <1>5, <2>1, PutsOwned
  <1>10. OthersAlone(t)
    BY <1>1, <1>8, <1>9 DEF OthersAlone, AttemptPut
  <1>11. holder[h].pc \in Resting
    BY <1>1 DEF Resting
  <1> QED
    BY <1>1, <1>2, <1>5, <1>7, <1>9, <1>10, <1>11, OwnerRests

(* Commands go to the runner that works.                                   *)
LEMMA SendCommandsOwners ==
    ASSUME Inv1, Inv2, Timely, NEW h \in Holders, SendCommands(h)
    PROVE  Inv2'
  <1>1. /\ holder[h].pc = "pump" /\ May(h) /\ turn' = turn /\ holder' = holder
        /\ holder[h].pc # "idle"
    BY DEF SendCommands
  <1>2. PICK t \in TurnIds : t = holder[h].turn
    BY <1>1, OwnerHas
  <1>3. PICK c : c = holder[h].chan
    OBVIOUS
  <1>4. PICK n : n = holder[h].n
    OBVIOUS
  <1>5. /\ Owns(h) /\ WatchedTurn(t) /\ TablesFit /\ holder[h] \in HolderRow
        /\ c \in 1 .. Len(runner[t]) /\ runner[t][c] \in RunnerRow
        /\ turn[t].status = "running"
        /\ n = Len(attempt[t]) /\ n \in 1 .. Len(attempt[t]) /\ attempt[t][n] \in AttemptRow
        /\ attempt[t][n].runner = holder[h].mem
    BY <1>1, <1>2, <1>3, <1>4, Pumping, InPlace
  <1>6. PICK x, y : runner' = WithPlace(runner, t, c, [runner[t][c] EXCEPT
                       !.inbox = @ \cup x, !.halt = @ \/ y]) /\ x \subseteq Messages /\ y \in BOOLEAN
    <2> DEFINE r == runner[t][c]
               open == command[t] \ {z \in command[t] : Moot(h, z)}
               x == {m \in Messages : <<"steer", m>> \in open} \ r.seen
               y == (\E z \in open : z[1] = "restart") \/ <<"interrupt">> \in open
    <2>1. runner' = [runner EXCEPT ![t][c] = [r EXCEPT !.inbox = @ \cup x, !.halt = @ \/ y]]
      BY <1>2, <1>3, Zenon DEF SendCommands
    <2>2. x \subseteq Messages /\ y \in BOOLEAN
      OBVIOUS
    <2> HIDE DEF x, y
    <2>3. runner' = WithPlace(runner, t, c, [r EXCEPT !.inbox = @ \cup x, !.halt = @ \/ y])
      BY <2>1, Zenon DEF WithPlace
    <2> QED
      BY <2>2, <2>3
  <1>7. PICK z \in BOOLEAN : attempt' = WithPlace(attempt, t, n, [attempt[t][n] EXCEPT !.asked = z])
    <2> DEFINE open == command[t] \ {z \in command[t] : Moot(h, z)}
               asks == \E z \in open : z[1] = "restart"
               z == attempt[t][n].asked \/ asks
    <2>1. attempt' = [attempt EXCEPT ![t][n].asked = @ \/ asks]
      BY <1>2, <1>4, Zenon DEF SendCommands
    <2>2. attempt' = WithPlace(attempt, t, n, [attempt[t][n] EXCEPT !.asked = z])
      <3> HIDE DEF asks
      <3> QED
        BY <2>1 DEF WithPlace
    <2>3. z \in BOOLEAN
      OBVIOUS
    <2> HIDE DEF z
    <2> QED
      BY <2>2, <2>3
  <1> DEFINE row == [runner[t][c] EXCEPT !.inbox = @ \cup x, !.halt = @ \/ y]
             arow == [attempt[t][n] EXCEPT !.asked = z]
  <1>8. row \in RunnerRow /\ Calms(runner[t][c], row)
    <2>1. runner[t][c].inbox \cup x \in SUBSET Messages /\ (runner[t][c].halt \/ y) \in BOOLEAN
      BY <1>5, <1>6 DEF RunnerRow
    <2>2. row \in RunnerRow
      BY <1>5, <2>1 DEF RunnerRow
    <2>3. /\ row.phase = runner[t][c].phase /\ row.out = runner[t][c].out
          /\ row.left = runner[t][c].left
      BY <1>5 DEF RunnerRow
    <2> QED
      BY <2>2, <2>3 DEF Calms
  <1>9. arow \in AttemptRow /\ arow.runner = attempt[t][n].runner
    BY <1>5 DEF AttemptRow
  <1>10. runner' = WithPlace(runner, t, c, row) /\ attempt' = WithPlace(attempt, t, n, arow)
    BY <1>6, <1>7
  <1> HIDE DEF row, arow
  <1>11. RunnerPut(t, c, row)
    BY <1>5, <1>8, <1>10, RunnerWrite
  <1>12. AttemptPut(t, n, arow)
    BY <1>5, <1>9, <1>10, AttemptWrite
  <1>13. Calm(t)
    BY <1>5, <1>8, <1>11, CalmWrite
  <1>14. /\ Len(attempt'[t]) = Len(attempt[t])
         /\ attempt'[t][Len(attempt[t])].runner = attempt[t][Len(attempt[t])].runner
    BY <1>5, <1>9, <1>12 DEF AttemptPut
  <1>15. WatchedTurn(t)'
    BY <1>1, <1>5, <1>13, <1>14, StaysWatched
  <1>16. OthersAlone(t)
    BY <1>1, <1>11, <1>12 DEF OthersAlone, AttemptPut, RunnerPut
  <1>17. PICK v \in HolderRow : v = holder[h]
    BY <1>5
  <1>18. Fitting(t, v)
    <2>1. v.pc \notin Resting
      BY <1>1, <1>17 DEF Resting
    <2>2. attempt'[t][n].runner = v.mem /\ n = Len(attempt'[t]) /\ n = v.n /\ turn'[t].status = "running"
      BY <1>1, <1>4, <1>5, <1>14, <1>17
    <2> QED
      BY <1>2, <1>17, <2>1, <2>2 DEF Fitting
  <1>19. Leases
    BY <1>1, TurnsAlone
  <1>20. holder' = [holder EXCEPT ![h] = v]
    BY <1>1, <1>5, <1>17 DEF TablesFit
  <1> QED
    BY <1>1, <1>2, <1>15, <1>16, <1>18, <1>19, <1>20, OwnerWrites

(* The next thing the runner said is recorded.                             *)
LEMMA ApplyOwners ==
    ASSUME Inv1, Inv2, Timely, NEW h \in Holders, Apply(h)
    PROVE  Inv2'
  <1>1. /\ holder[h].pc = "pump" /\ May(h) /\ turn' = turn /\ runner' = runner
        /\ holder[h].pc # "idle"
    BY DEF Apply
  <1>2. PICK t \in TurnIds : t = holder[h].turn
    BY <1>1, OwnerHas
  <1>3. PICK c : c = holder[h].chan
    OBVIOUS
  <1>4. PICK n : n = holder[h].n
    OBVIOUS
  <1>5. PICK mem : mem = holder[h].mem
    OBVIOUS
  <1>6. /\ WatchedTurn(t) /\ TablesFit /\ holder[h] \in HolderRow
        /\ c \in 1 .. Len(runner[t]) /\ runner[t][c] \in RunnerRow
        /\ turn[t].status = "running"
        /\ n = Len(attempt[t]) /\ n \in 1 .. Len(attempt[t]) /\ attempt[t][n] \in AttemptRow
        /\ attempt[t][n].runner = mem
        /\ mem \in RunnerStates /\ mem.at = c
    BY <1>1, <1>2, <1>3, <1>4, <1>5, Pumping, InPlace
  <1>7. PICK k \in Nat : k = mem.cursor
    BY <1>6 DEF RunnerStates
  <1>8. PICK f \in Frames : f = runner[t][c].out[k + 1] /\ k + 1 \in 1 .. Len(runner[t][c].out)
    <2> DEFINE s == runner[t][c].out
    <2>1. k < Len(s)
      BY <1>2, <1>3, <1>5, <1>7 DEF Apply
    <2>2. s \in Seq(Frames)
      BY <1>6 DEF RunnerRow
    <2> HIDE DEF s
    <2>3. Len(s) \in Nat
      BY <2>2, LenProperties
    <2>4. k + 1 \in 1 .. Len(s)
      BY <2>1, <2>3
    <2>5. s[k + 1] \in Frames
      BY <2>2, <2>4, ElementOfSeq
    <2> QED
      BY <2>4, <2>5 DEF s
  <1>9. PICK now \in RunnerStates : now = AfterFrame(mem, f) /\ now.at = mem.at
    BY <1>6, AfterFrameFits
  <1>10. PICK row \in AttemptRow : attempt' = WithPlace(attempt, t, n, row) /\ row.runner = now
    <2> DEFINE y == [attempt[t][n] EXCEPT
                       !.runner = AfterFrame(mem, f),
                       !.status = IF f[1] # "end" THEN @
                                  ELSE IF f[2] = "transient" THEN "failed" ELSE f[2]]
    <2>1. attempt' = [attempt EXCEPT ![t][n] = y]
      BY <1>2, <1>3, <1>4, <1>5, <1>7, <1>8, Zenon DEF Apply, AfterFrame
    <2> DEFINE st == IF f[1] # "end" THEN attempt[t][n].status
                     ELSE IF f[2] = "transient" THEN "failed" ELSE f[2]
    <2>2. st \in AttemptStatuses
      <3>1. attempt[t][n].status \in AttemptStatuses
        BY <1>6 DEF AttemptRow
      <3>2. f[1] = "end" => f[2] \in Outcomes
        BY FrameSays
      <3> QED
        BY <3>1, <3>2 DEF Outcomes, AttemptStatuses
    <2>3. y = [attempt[t][n] EXCEPT !.runner = now, !.status = st]
      BY <1>6, <1>9 DEF AttemptRow
    <2> HIDE DEF st
    <2>4. y \in AttemptRow /\ y.runner = now
      BY <1>6, <2>2, <2>3 DEF AttemptRow
    <2> HIDE DEF y
    <2>5. attempt' = WithPlace(attempt, t, n, y)
      BY <2>1, Zenon DEF WithPlace
    <2> QED
      BY <2>4, <2>5
  <1>11. PICK v \in HolderRow :
           /\ holder' = [holder EXCEPT ![h] = v] /\ v.turn = t /\ v.n = n /\ v.mem = now
           /\ v.pc = CASE f[1] = "end" -> "ended" [] f[1] = "refused" -> "refused" [] OTHER -> "pump"
    <2> DEFINE y == [holder[h] EXCEPT
                       !.mem = AfterFrame(mem, f), !.inflight = FALSE,
                       !.pc = CASE f[1] = "end" -> "ended"
                                [] f[1] = "refused" -> "refused"
                                [] OTHER -> @,
                       !.outcome = IF f[1] \in {"end", "refused"} THEN f[2] ELSE @]
    <2>1. holder' = [holder EXCEPT ![h] = y]
      BY <1>2, <1>3, <1>5, <1>7, <1>8, Zenon DEF Apply, AfterFrame
    <2> DEFINE pc == CASE f[1] = "end" -> "ended" [] f[1] = "refused" -> "refused" [] OTHER -> "pump"
               o == IF f[1] \in {"end", "refused"} THEN f[2] ELSE holder[h].outcome
    <2>2. pc \in Places /\ o \in Outcomes \cup Messages \cup {None}
      <3>1. holder[h].outcome \in Outcomes \cup Messages \cup {None}
        BY <1>6 DEF HolderRow
      <3>2. \/ f[1] = "began" /\ f[2] \in BOOLEAN
            \/ f[1] \in {"ack", "refused", "took"} /\ f[2] \in Messages
            \/ f[1] = "end" /\ f[2] \in Outcomes
        BY FrameSays
      <3> QED
        BY <3>1, <3>2 DEF Places
    <2>3. y = [holder[h] EXCEPT !.mem = now, !.inflight = FALSE, !.pc = pc, !.outcome = o]
      <3> DEFINE x == holder[h]
      <3>1. x \in HolderRow /\ x.pc = "pump"
        BY <1>1, <1>6
      <3> HIDE DEF o
      <3>2. o = IF f[1] \in {"end", "refused"} THEN f[2] ELSE x.outcome
        BY DEF o
      <3> HIDE DEF x
      <3>3. [x EXCEPT !.mem = AfterFrame(mem, f), !.inflight = FALSE,
                      !.pc = CASE f[1] = "end" -> "ended"
                                [] f[1] = "refused" -> "refused"
                                [] OTHER -> @,
                      !.outcome = IF f[1] \in {"end", "refused"} THEN f[2] ELSE @]
            = [x EXCEPT !.mem = now, !.inflight = FALSE, !.pc = pc, !.outcome = o]
        BY <1>9, <3>1, <3>2 DEF HolderRow
      <3> QED
        BY <3>3 DEF x
    <2>4. pc = CASE f[1] = "end" -> "ended" [] f[1] = "refused" -> "refused" [] OTHER -> "pump"
      OBVIOUS
    <2> HIDE DEF pc, o
    <2>5. y \in HolderRow /\ y.turn = t /\ y.n = n /\ y.mem = now /\ y.pc = pc
      BY <1>2, <1>4, <1>6, <2>2, <2>3 DEF HolderRow
    <2> HIDE DEF y
    <2> QED
      BY <2>1, <2>4, <2>5
  <1>12. AttemptPut(t, n, row)
    BY <1>6, <1>10, AttemptWrite
  <1>13. Len(attempt'[t]) = n /\ attempt'[t][n].runner = now
    BY <1>6, <1>10, <1>12 DEF AttemptPut
  <1>14. OthersAlone(t)
    BY <1>1, <1>12 DEF OthersAlone, AttemptPut
  <1>15. Calm(t) /\ (Dead(t) => Dead(t)')
    BY <1>1, RunnersAlone
  <1>16. mem # None /\ now # None
    BY <1>6, NoneAssumption
  <1>17. WatchedTurn(t)'
    <2>1. attempt[t][Len(attempt[t])].runner = mem /\ attempt'[t][Len(attempt[t])].runner = now
      BY <1>6, <1>13
    <2>2. now.at = mem.at
      BY <1>9
    <2> QED
      BY <1>1, <1>6, <1>13, <1>15, <1>16, <2>1, <2>2, StaysWatched
  <1>18. f[1] = "end" => Dead(t)'
    <2>1. f[1] = "end" => c \notin Working(t)
      BY <1>6, <1>8 DEF WatchedTurn, GoesOnTalking
    <2>2. f[1] = "end" => Dead(t)
      <3>1. attempt[t][Len(attempt[t])].runner = mem
        BY <1>6
      <3> QED
        BY <1>6, <2>1, <3>1, RecordedDead
    <2> QED
      BY <1>15, <2>2
  <1>19. Fitting(t, v)
    <2>1. f[1] = "end" \/ v.pc \in {"refused", "pump"}
      BY <1>11
    <2>2. f[1] # "end" => v.pc \notin Resting
      BY <2>1 DEF Resting
    <2> QED
      BY <1>1, <1>6, <1>11, <1>13, <1>18, <2>1, <2>2 DEF Fitting
  <1>20. Leases
    BY <1>1, TurnsAlone
  <1> QED
    BY <1>1, <1>2, <1>11, <1>14, <1>17, <1>19, <1>20, OwnerWrites

(* A refused message is to be in the next attempt.                         *)
LEMMA RestartWithOwners ==
    ASSUME Inv1, Inv2, Timely, NEW h \in Holders, RestartWith(h)
    PROVE  Inv2'
  <1>1. /\ holder[h].pc = "refused" /\ May(h) /\ turn' = turn /\ runner' = runner
        /\ holder[h].pc # "idle"
    BY DEF RestartWith
  <1>2. PICK t \in TurnIds : t = holder[h].turn
    BY <1>1, OwnerHas
  <1>3. PICK n : n = holder[h].n
    OBVIOUS
  <1>4. PICK mem : mem = holder[h].mem
    OBVIOUS
  <1>5. /\ WatchedTurn(t) /\ TablesFit /\ holder[h] \in HolderRow
        /\ turn[t].status = "running"
        /\ n = Len(attempt[t]) /\ n \in 1 .. Len(attempt[t]) /\ attempt[t][n] \in AttemptRow
        /\ attempt[t][n].runner = mem
        /\ mem \in RunnerStates /\ holder[h].outcome \in Messages
    BY <1>1, <1>2, <1>3, <1>4, Pumping, InPlace
  <1>6. PICK now \in RunnerStates : now = [mem EXCEPT !.restartWith = @ \cup {holder[h].outcome}]
                                    /\ now.at = mem.at
    <2> DEFINE x == mem.restartWith \cup {holder[h].outcome}
               y == [mem EXCEPT !.restartWith = x]
    <2>1. x \in SUBSET Messages
      BY <1>5 DEF RunnerStates
    <2>2. y = [mem EXCEPT !.restartWith = @ \cup {holder[h].outcome}]
      OBVIOUS
    <2> HIDE DEF x
    <2>3. y \in RunnerStates /\ y.at = mem.at
      BY <1>5, <2>1 DEF RunnerStates
    <2> HIDE DEF y
    <2> QED
      BY <2>2, <2>3
  <1> DEFINE row == [attempt[t][n] EXCEPT !.runner = now]
             v == [holder[h] EXCEPT !.pc = "pump", !.mem = now, !.outcome = None, !.inflight = FALSE]
  <1>7. attempt' = WithPlace(attempt, t, n, row) /\ holder' = [holder EXCEPT ![h] = v]
    <2>1. /\ attempt' = [attempt EXCEPT ![t][n].runner = now]
          /\ holder' = [holder EXCEPT ![h] =
                [@ EXCEPT !.pc = "pump", !.mem = now, !.outcome = None, !.inflight = FALSE]]
      BY <1>2, <1>3, <1>4, <1>6, Zenon DEF RestartWith
    <2> QED
      BY <2>1 DEF WithPlace
  <1>8. row \in AttemptRow /\ row.runner = now
    BY <1>5 DEF AttemptRow
  <1>9. v \in HolderRow /\ v.pc = "pump" /\ v.n = n /\ v.turn = t /\ v.mem = now
    BY <1>2, <1>3, <1>5 DEF HolderRow, Places
  <1> HIDE DEF row, v
  <1>10. AttemptPut(t, n, row)
    BY <1>5, <1>7, <1>8, AttemptWrite
  <1>11. Len(attempt'[t]) = n /\ attempt'[t][n].runner = now
    BY <1>5, <1>8, <1>10 DEF AttemptPut
  <1>12. OthersAlone(t)
    BY <1>1, <1>10 DEF OthersAlone, AttemptPut
  <1>13. Calm(t)
    BY <1>1, RunnersAlone
  <1>14. now # None
    BY NoneAssumption
  <1>15. WatchedTurn(t)'
    <2>1. attempt[t][Len(attempt[t])].runner = mem /\ attempt'[t][Len(attempt[t])].runner = now
      BY <1>5, <1>11
    <2>2. now.at = mem.at
      BY <1>6
    <2> QED
      BY <1>1, <1>5, <1>11, <1>13, <1>14, <2>1, <2>2, StaysWatched
  <1>16. Fitting(t, v)
    BY <1>1, <1>5, <1>9, <1>11 DEF Fitting, Resting
  <1>17. Leases
    BY <1>1, TurnsAlone
  <1> QED
    BY <1>1, <1>2, <1>7, <1>9, <1>12, <1>15, <1>16, <1>17, OwnerWrites

(* The owner of a turn at rest puts it where it belongs.                   *)
LEMMA PutsToRest ==
    ASSUME Inv1, Inv2, Timely, NEW h \in Holders, holder[h].pc \in {"ended", "killed"}, May(h),
           NEW t \in TurnIds, t = holder[h].turn, NEW s \in Active, turn' = PutActive(t, s),
           runner' = runner, \A u \in TurnIds : u # t => attempt'[u] = attempt[u],
           NEW v \in HolderRow, holder' = [holder EXCEPT ![h] = v], v.turn = t, v.pc \in Resting,
           v.pc \notin {"load", "attempt", "settle"} => v.n = Len(attempt'[t])
    PROVE  Inv2'
  <1>1. holder[h].pc \in Writers /\ holder[h].pc \in Resting /\ 0 \in Nat
    BY DEF Writers, Resting
  <1>2. /\ Leases
        /\ \A u \in TurnIds : u # t => (turn[u].status = "running" => turn'[u].status = "running")
    BY <1>1, PutsOwned
  <1>3. OthersAlone(t)
    BY <1>2 DEF OthersAlone
  <1> QED
    BY <1>1, <1>2, <1>3, OwnerRests

(* An attempt that is to start again gives way to the next.                *)
LEMMA RestartOwners ==
    ASSUME Inv1, Inv2, Timely, NEW h \in Holders, Restart(h)
    PROVE  Inv2'
  <1>1. /\ holder[h].pc \in {"ended", "killed"} /\ May(h) /\ runner' = runner /\ holder[h].pc = "ended"
        /\ holder[h] \in HolderRow /\ TablesFit
    BY InPlace DEF Restart, Restarts
  <1>2. PICK t \in TurnIds : t = holder[h].turn
    BY <1>1, OwnerHas
  <1>3. PICK n : n = holder[h].n
    OBVIOUS
  <1>4. n \in 1 .. Len(attempt[t]) /\ attempt[t][n] \in AttemptRow
    BY <1>1, <1>2, <1>3, InPlace
  <1> DEFINE row == [attempt[t][n] EXCEPT !.status = "superseded"]
             v == [Idle EXCEPT !.pc = "attempt", !.turn = t]
  <1>5. /\ attempt' = WithPlace(attempt, t, n, row)
        /\ turn' = PutActive(t, "preparing")
        /\ holder' = [holder EXCEPT ![h] = v]
    <2>1. /\ attempt' = [attempt EXCEPT ![t][n].status = "superseded"]
          /\ turn' = PutActive(t, "preparing")
          /\ holder' = [holder EXCEPT ![h] = v]
      BY <1>2, <1>3, Zenon DEF Restart
    <2> QED
      BY <2>1 DEF WithPlace
  <1>6. row \in AttemptRow
    BY <1>4 DEF AttemptRow, AttemptStatuses
  <1>7. v \in HolderRow /\ v.pc = "attempt" /\ v.turn = t
    <2>1. "attempt" \in Places
      BY DEF Places
    <2> QED
      BY <2>1, IdleRow
  <1> HIDE DEF row, v
  <1>8. AttemptPut(t, n, row)
    BY <1>1, <1>4, <1>5, <1>6, AttemptWrite
  <1>9. \A u \in TurnIds : u # t => attempt'[u] = attempt[u]
    BY <1>8 DEF AttemptPut
  <1>10. "preparing" \in Active /\ v.pc \in Resting /\ v.pc \in {"load", "attempt", "settle"}
    BY <1>7 DEF Active, Resting
  <1> QED
    BY <1>1, <1>2, <1>5, <1>7, <1>9, <1>10, PutsToRest

(* A passing failure is tried once more.                                   *)
LEMMA RetryFailureOwners ==
    ASSUME Inv1, Inv2, Timely, NEW h \in Holders, RetryFailure(h)
    PROVE  Inv2'
  <1>1. /\ holder[h].pc \in {"ended", "killed"} /\ May(h) /\ runner' = runner /\ attempt' = attempt
        /\ holder[h].pc = "ended" /\ holder[h] \in HolderRow
        /\ holder' = [holder EXCEPT ![h].pc = "waits", ![h].inflight = FALSE]
        /\ turn' = PutActive(holder[h].turn, "preparing")
    BY InPlace DEF RetryFailure
  <1>2. PICK t \in TurnIds : t = holder[h].turn /\ holder[h].n = Len(attempt[t])
    BY <1>1, OwnerHas DEF Relies
  <1> DEFINE v == [holder[h] EXCEPT !.pc = "waits", !.inflight = FALSE]
  <1>3. holder' = [holder EXCEPT ![h] = v]
    BY <1>1
  <1>4. v \in HolderRow /\ v.pc = "waits" /\ v.turn = t /\ v.n = Len(attempt'[t])
    BY <1>1, <1>2 DEF HolderRow, Places
  <1>5. "preparing" \in Active /\ v.pc \in Resting /\ \A u \in TurnIds : attempt'[u] = attempt[u]
    BY <1>1, <1>4 DEF Active, Resting
  <1> HIDE DEF v
  <1> QED
    BY <1>1, <1>2, <1>3, <1>4, <1>5, PutsToRest

(* A turn saves what it did.                                               *)
LEMMA FinalizeOwners ==
    ASSUME Inv1, Inv2, Timely, NEW h \in Holders, Finalize(h)
    PROVE  Inv2'
  <1>1. /\ holder[h].pc \in {"ended", "killed"} /\ May(h) /\ runner' = runner /\ attempt' = attempt
        /\ holder[h].pc # "idle" /\ holder[h] \in HolderRow
        /\ holder' = [holder EXCEPT ![h].pc = "settle", ![h].inflight = FALSE]
        /\ turn' = PutActive(holder[h].turn, "finalizing")
    BY InPlace DEF Finalize
  <1>2. PICK t \in TurnIds : t = holder[h].turn
    BY <1>1, OwnerHas
  <1> DEFINE v == [holder[h] EXCEPT !.pc = "settle", !.inflight = FALSE]
  <1>3. holder' = [holder EXCEPT ![h] = v]
    BY <1>1
  <1>4. v \in HolderRow /\ v.pc = "settle" /\ v.turn = t
    BY <1>1, <1>2 DEF HolderRow, Places
  <1>5. /\ "finalizing" \in Active /\ v.pc \in Resting /\ v.pc \in {"load", "attempt", "settle"}
        /\ \A u \in TurnIds : attempt'[u] = attempt[u]
    BY <1>1, <1>4 DEF Active, Resting
  <1> HIDE DEF v
  <1> QED
    BY <1>1, <1>2, <1>3, <1>4, <1>5, PutsToRest

-----------------------------------------------------------------------------
(* How turns end.                                                          *)

(* The owner of a turn at rest closes it, and has nothing left to do.      *)
LEMMA OwnerCloses ==
    ASSUME Inv1, Inv2, Timely, NEW h \in Holders, holder[h].pc \in Resting, May(h), Leases,
           NEW t \in TurnIds, t = holder[h].turn, OthersAlone(t), runner' = runner,
           holder' = [holder EXCEPT ![h] = Idle]
    PROVE  Inv2'
  <1>1. holder[h].pc # "idle"
    BY DEF Resting
  <1>2. Dead(t) /\ Owns(h)
    BY <1>1, OwnerHas DEF Relies
  <1>3. Dead(t)'
    BY <1>2, RunnersAlone
  <1>4. WatchedTurn(t)'
    BY <1>3, DeadWatched
  <1>5. holder'[h] = Idle /\ \A g \in Holders : g # h => holder'[g] = holder[g]
    BY IdleRow, HolderKeeps DEF Inv1
  <1>6. OwnerFits(h)'
    BY <1>5, IdleRow, IdleFits
  <1> QED
    BY <1>2, <1>4, <1>5, <1>6, OwnerStep DEF OthersAlone

(* Turns of their own for what nobody read give no lease.                  *)
LEMMA RequeueOwned ==
    ASSUME Inv1, NEW t \in TurnIds, NEW row, Closed(t, row), NEW S,
           Closes(S, WithRow(turn, t, row)), ClosedOnly(t, row),
           turn' = RequeueSteers(WithRow(turn, t, row), S)
    PROVE  /\ Leases
           /\ \A u \in TurnIds : u # t => (turn[u].status = "running" => turn'[u].status = "running")
  <1> DEFINE T == WithRow(turn, t, row)
  <1>1. /\ ItemsFit /\ sent \in Seq(Messages) /\ TurnsFit(T)
        /\ \A u \in TurnIds : T[u] = IF u = t THEN row ELSE turn[u]
        /\ \A u \in TurnIds : T[u].status = "none" <=> turn[u].status = "none"
    BY DEF Inv1, TablesFit, Closes, ClosedOnly
  <1>2. ~row.live
    BY DEF Closed
  <1> DEFINE U == RequeueSteers(T, S)
  <1> HIDE DEF T
  <1>3. /\ \A m \in Moved(S) : T[Own(m)].status = "none" /\ ~U[Own(m)].live
        /\ \A u \in TurnIds : (\A m \in Moved(S) : u # Own(m)) => U[u] = T[u]
    BY <1>1, RequeueKeeps
  <1>4. turn' = U
    BY DEF T
  <1> HIDE DEF U
  <1>5. \A u \in TurnIds : turn'[u].live => turn[u].live /\ turn'[u].token = turn[u].token
    BY <1>1, <1>2, <1>3, <1>4
  <1>6. \A u \in TurnIds : u # t => (turn[u].status = "running" => turn'[u].status = "running")
    BY <1>1, <1>3, <1>4
  <1> QED
    BY <1>5, <1>6 DEF Leases

(* A turn settles.                                                         *)
LEMMA SettleOwners ==
    ASSUME Inv1, Inv2, Timely, NEW h \in Holders, Settle(h)
    PROVE  Inv2'
  <1>1. /\ holder[h].pc \in {"settle", "refuse"} /\ May(h) /\ runner' = runner /\ holder[h].pc # "idle"
        /\ holder' = [holder EXCEPT ![h] = Idle]
    BY DEF Settle
  <1>2. PICK t \in TurnIds : t = holder[h].turn
    BY <1>1, OwnerHas
  <1>3. turn[t] \in TurnRow /\ holder[h].outcome \in Outcomes
    BY <1>1, <1>2, InPlace, Driven
  <1>4. PICK o : o = holder[h].outcome
    OBVIOUS
  <1>5. PICK status : status = SettledStatus(t, o)
    OBVIOUS
  <1>6. status \in Over \cup {"queued"} /\ (turn[t].stop => status \in Over)
    BY <1>3, <1>4, <1>5 DEF SettledStatus, Outcomes, Over
  <1>7. PICK due \in BOOLEAN : due = (o # "transient")
    OBVIOUS
  <1>8. PICK ends : ends = IF status = "queued" THEN {} ELSE {t}
    OBVIOUS
  <1> DEFINE row == [turn[t] EXCEPT !.status = status, !.stop = FALSE, !.due = due,
                                    !.token = None, !.live = FALSE]
  <1>9. turn' = RequeueSteers(WithRow(turn, t, row), ends)
    <2>1. turn' = RequeueSteers([turn EXCEPT ![t] =
                [@ EXCEPT !.status = status, !.stop = FALSE, !.due = o # "transient",
                          !.token = None, !.live = FALSE]], ends)
      BY <1>2, <1>4, <1>5, <1>8, Zenon DEF Settle
    <2> QED
      BY <1>7, <2>1, Zenon DEF WithRow
  <1>10. Closed(t, row) /\ row.status = status
    <2>1. status \in Statuses /\ None \in Holders \cup {None}
      BY <1>6 DEF Over, Statuses, Settled
    <2>2. row \in TurnRow /\ row.status = status /\ ~row.stop /\ ~row.live
      BY <1>3, <2>1 DEF TurnRow
    <2> HIDE DEF row
    <2> QED
      BY <1>6, <2>2 DEF Closed
  <1> HIDE DEF row
  <1>11. row.status = "queued" \/ t \in ends
    BY <1>8, <1>10
  <1>12. Closes(ends, WithRow(turn, t, row)) /\ ClosedOnly(t, row)
    BY <1>1, <1>2, <1>10, <1>11, ClosedCloses
  <1>13. /\ Leases
         /\ \A u \in TurnIds : u # t => (turn[u].status = "running" => turn'[u].status = "running")
    BY <1>9, <1>10, <1>12, RequeueOwned
  <1>14. \A u \in TurnIds : u # t => attempt'[u] = attempt[u]
    <2>1. attempt' = attempt \/ \E s : attempt' = [attempt EXCEPT ![t] = s]
      <3>1. \/ attempt' = attempt
            \/ attempt' = [attempt EXCEPT ![t] = Append(@, [NewAttempt EXCEPT !.status = "failed"])]
            \/ attempt' = [attempt EXCEPT ![t][holder[h].n].status =
                              IF @ \notin {"preparing", "running"} THEN @
                              ELSE IF o = "transient" THEN "failed" ELSE o]
        BY <1>2, <1>4, Zenon DEF Settle
      <3> QED
        BY <3>1
    <2>2. attempt \in [TurnIds -> Seq(AttemptRow)]
      BY DEF Inv1, TablesFit
    <2> QED
      BY <2>1, <2>2
  <1>15. OthersAlone(t) /\ holder[h].pc \in Resting
    BY <1>1, <1>13, <1>14 DEF OthersAlone, Resting
  <1> QED
    BY <1>1, <1>2, <1>13, <1>15, OwnerCloses

(* A turn is lost.                                                         *)
LEMMA LoseOwners ==
    ASSUME Inv1, Inv2, Timely, NEW h \in Holders, Lose(h)
    PROVE  Inv2'
  <1>1. /\ holder[h].pc = "lose" /\ May(h) /\ runner' = runner /\ holder[h].pc # "idle"
        /\ holder' = [holder EXCEPT ![h] = Idle]
    BY DEF Lose
  <1>2. PICK t \in TurnIds : t = holder[h].turn
    BY <1>1, OwnerHas
  <1>3. turn[t] \in TurnRow /\ Continuation(t) \in TurnIds
    BY <1>1, <1>2, Driven DEF Lose
  <1>4. PICK next \in TurnIds : next = Continuation(t)
    BY <1>3
  <1> DEFINE row == [turn[t] EXCEPT !.status = "interrupted", !.stop = FALSE,
                                    !.token = None, !.live = FALSE]
             T == WithRow(turn, t, row)
             new == NewTurn(turn[t].ord + 1, 0)
  <1>5. \/ turn' = [T EXCEPT ![next] = new] /\ turn[next].status = "none"
        \/ turn' = RequeueSteers(T, {t})
    <2>1. \E able \in BOOLEAN :
          LET closed == [turn EXCEPT ![t] = [@ EXCEPT !.status = "interrupted", !.stop = FALSE,
                                                      !.token = None, !.live = FALSE]]
              continues == /\ able /\ holder[h].mem # None
                           /\ holder[h].mem.harness \in session.named
                           /\ Unread(t) = {} /\ ~turn[t].stop
                           /\ \A u \in TurnIds : turn[u].ord <= turn[t].ord
                           /\ turn[next].status = "none"
          IN  turn' = IF continues THEN [closed EXCEPT ![next] = new]
                      ELSE RequeueSteers(closed, {t})
      BY <1>2, <1>4, Zenon DEF Lose
    <2> QED
      BY <2>1, Zenon DEF WithRow
  <1>6. Closed(t, row)
    <2>1. "interrupted" \in Statuses /\ None \in Holders \cup {None}
      BY DEF Statuses, Settled
    <2>2. row \in TurnRow /\ row.status = "interrupted" /\ ~row.stop /\ ~row.live
      BY <1>3, <2>1 DEF TurnRow
    <2> HIDE DEF row
    <2> QED
      BY <2>2 DEF Closed, Over
  <1>7. PICK S : S = {t}
    OBVIOUS
  <1> HIDE DEF row
  <1>8. Closes(S, T) /\ ClosedOnly(t, row)
    <2>1. row.status = "queued" \/ t \in S
      BY <1>7
    <2> QED
      BY <1>1, <1>2, <1>6, <2>1, ClosedCloses
  <1>9. /\ Leases
        /\ \A u \in TurnIds : u # t => (turn[u].status = "running" => turn'[u].status = "running")
    <2>1. CASE turn' = RequeueSteers(T, S)
      BY <1>6, <1>8, <2>1, RequeueOwned
    <2>2. CASE turn' = [T EXCEPT ![next] = new] /\ turn[next].status = "none"
      <3>1. TurnsFit(T) /\ \A u \in TurnIds : T[u] = IF u = t THEN row ELSE turn[u]
        BY <1>8 DEF Closes, ClosedOnly
      <3>2. ~new.live /\ ~row.live
        BY <1>6 DEF NewTurn, Absent, Closed
      <3>3. T \in [TurnIds -> TurnRow]
        BY <3>1 DEF TurnsFit
      <3> HIDE DEF T, new
      <3>4. \A u \in TurnIds : turn'[u] = IF u = next THEN new ELSE T[u]
        BY <2>2, <3>3
      <3>5. \A u \in TurnIds : turn'[u].live => turn[u].live /\ turn'[u].token = turn[u].token
        BY <3>1, <3>2, <3>4
      <3>6. \A u \in TurnIds : u # t => (turn[u].status = "running" => turn'[u].status = "running")
        BY <2>2, <3>1, <3>4
      <3> QED
        BY <3>5, <3>6 DEF Leases
    <2> QED
      BY <1>5, <1>7, <2>1, <2>2
  <1>10. \A u \in TurnIds : u # t => attempt'[u] = attempt[u]
    <2>1. attempt' = [attempt EXCEPT ![t][holder[h].n].status = "lost"]
      BY <1>2, Zenon DEF Lose
    <2>2. attempt \in [TurnIds -> Seq(AttemptRow)]
      BY DEF Inv1, TablesFit
    <2> QED
      BY <2>1, <2>2
  <1>11. OthersAlone(t) /\ holder[h].pc \in Resting
    BY <1>1, <1>9, <1>10 DEF OthersAlone, Resting
  <1> QED
    BY <1>1, <1>2, <1>9, <1>11, OwnerCloses

(* A turn gets a new owner, who relies on nothing yet.                     *)
LEMMA ClaimOwners ==
    ASSUME Inv1, Inv2, Timely, NEW h \in Holders, Claim(h)
    PROVE  Inv2'
  <1>1. /\ holder[h].pc = "idle" /\ attempt' = attempt /\ runner' = runner /\ TablesFit
    BY DEF Claim, Inv1
  <1>2. PICK t \in Claimable :
           /\ turn' = [turn EXCEPT
                ![t].status = IF @ = "queued" THEN "preparing" ELSE @,
                ![t].stop = IF turn[t].status = "queued" THEN FALSE ELSE @,
                ![t].token = h, ![t].live = TRUE]
           /\ holder' = [holder EXCEPT ![h] = [Idle EXCEPT !.pc = "load", !.turn = t]]
    BY DEF Claim
  <1>3. /\ t \in TurnIds
        /\ \/ turn[t].status \in Active /\ ~turn[t].live
           \/ turn[t].status = "queued" /\ ActiveTurns = {}
    BY <1>2 DEF Claimable, ActiveTurns, Ready
  <1>4. turn \in [TurnIds -> TurnRow] /\ RowFits(turn[t])
    BY <1>3, Rows DEF Inv1, TurnsFit
  <1>5. /\ \A u \in TurnIds : u # t => turn'[u] = turn[u]
        /\ turn[t].status = "running" => turn'[t].status = "running"
        /\ turn'[t].token = h
    BY <1>2, <1>3, <1>4, SMTT(60) DEF TurnRow
  <1>6. ~turn[t].live
    BY <1>3, <1>4 DEF RowFits, Active
  <1> DEFINE v == [Idle EXCEPT !.pc = "load", !.turn = t]
  <1>7. v \in HolderRow /\ v.pc = "load" /\ v.turn = t /\ holder' = [holder EXCEPT ![h] = v]
    <2>1. "load" \in Places
      BY DEF Places
    <2> QED
      BY <1>2, <1>3, <2>1, IdleRow
  <1> HIDE DEF v
  <1>8. holder'[h] = v /\ \A g \in Holders : g # h => holder'[g] = holder[g]
    BY <1>1, <1>7, HolderKeeps
  <1>9. ASSUME NEW u \in TurnIds PROVE WatchedTurn(u)'
    <2>1. WatchedTurn(u) /\ Calm(u)
      BY <1>1, LeftAlone DEF Inv2
    <2>2. turn[u].status = "running" => turn'[u].status = "running"
      BY <1>5
    <2>3. attempt'[u] = attempt[u]
      BY <1>1
    <2> QED
      BY <2>1, <2>2, <2>3, StaysWatched
  <1>10. OwnerFits(h)'
    BY <1>7, <1>8 DEF OwnerFits, Relies, Resting
  <1>11. ASSUME NEW g \in Holders, g # h PROVE OwnerFits(g)'
    <2> SUFFICES ASSUME Owns(g)' PROVE Relies(g)'
      BY DEF OwnerFits
    <2>1. /\ holder'[g] = holder[g] /\ holder[g].pc # "idle"
          /\ turn'[holder[g].turn].token = g /\ turn'[holder[g].turn].live
      BY <1>8, <1>11 DEF Owns
    <2>2. holder[g].turn \in TurnIds
      BY <2>1, Driven
    <2>3. holder[g].turn # t
      BY <1>5, <1>11, <2>1
    <2>4. Owns(g) /\ turn'[holder[g].turn] = turn[holder[g].turn]
      BY <1>5, <2>1, <2>2, <2>3 DEF Owns
    <2>5. Relies(g)
      BY <2>4 DEF Inv2, OwnerFits
    <2> QED
      BY <1>1, <2>1, <2>4, <2>5 DEF Relies, Dead, Working
  <1> QED
    BY <1>9, <1>10, <1>11 DEF Inv2

-----------------------------------------------------------------------------
(* The second layer holds.                                                 *)

(* What went wrong did.                                                    *)
LEMMA FaultsStay == [Next]_vars => faults \subseteq faults'
  <1> SUFFICES ASSUME [Next]_vars PROVE faults \subseteq faults'
    OBVIOUS
  <1>1. CASE People
    BY <1>1, Zenon DEF People, Send, Interrupt, CancelQueued, Hold, Unhold, SendNow, Retry, SteerNow, SwitchHarness
  <1>2. ASSUME NEW t \in TurnIds, Lapse(t) \/ FallsDue(t) PROVE faults' = faults
    BY <1>2 DEF Lapse, FallsDue
  <1>3. ASSUME NEW h \in Holders, Drive(h) PROVE faults' = faults
    <2>1. CASE Claim(h) \/ Leave(h) \/ Load(h) \/ BeginAttempt(h) \/ Prepare(h)
      BY <2>1, Zenon DEF Claim, Leave, Load, BeginAttempt, Prepare
    <2>2. CASE Launch(h) \/ Start(h) \/ Disconnected(h) \/ Attach(h) \/ PrepareAgain(h)
      BY <2>2, Zenon DEF Launch, Start, Disconnected, Attach, PrepareAgain
    <2>3. CASE SendCommands(h) \/ Apply(h) \/ RestartWith(h) \/ Restart(h)
      BY <2>3, Zenon DEF SendCommands, Apply, RestartWith, Restart
    <2>4. CASE RetryFailure(h) \/ RetryFailureDue(h) \/ Exited(h) \/ Finalize(h)
      BY <2>4, Zenon DEF RetryFailure, RetryFailureDue, Exited, Finalize
    <2>5. CASE Settle(h) \/ Lose(h)
      BY <2>5, Zenon DEF Settle, Lose
    <2> QED
      BY <1>3, <2>1, <2>2, <2>3, <2>4, <2>5 DEF Drive
  <1>4. ASSUME NEW h \in Holders, GoesWrong(h) PROVE \E k : faults' = faults \cup {k}
    <2>1. CASE Crash(h) \/ Stall(h) \/ Stop(h) \/ Refuse(h)
      BY <2>1, Zenon DEF Crash, Stall, Stop, Refuse, Fault
    <2>2. CASE Kill(h) \/ FailUnexpectedly(h) \/ FinalizeFails(h)
      BY <2>2, Zenon DEF Kill, FailUnexpectedly, FinalizeFails, Fault
    <2> QED
      BY <1>4, <2>1, <2>2 DEF GoesWrong
  <1>5. ASSUME NEW t \in TurnIds, NEW c \in DOMAIN runner[t], Harness(t, c)
        PROVE  faults' = faults \/ \E k : faults' = faults \cup {k}
    <2>1. CASE HarnessAcks(t, c)
      BY <2>1, Zenon DEF HarnessAcks, Fault
    <2>2. ASSUME NEW how, HarnessEnds(t, c, how)
          PROVE  faults' = faults \/ \E k : faults' = faults \cup {k}
      BY <2>2, Zenon DEF HarnessEnds, Fault
    <2>3. CASE RunnerStops(t, c)
      BY <2>3, Zenon DEF RunnerStops, Fault
    <2>4. CASE HarnessBegins(t, c)
      BY <2>4, Zenon DEF HarnessBegins, Fault
    <2> QED
      BY <1>5, <2>1, <2>2, <2>3, <2>4 DEF Harness
  <1>6. CASE UNCHANGED vars
    BY <1>6 DEF vars
  <1> QED
    BY <1>1, <1>2, <1>3, <1>4, <1>5, <1>6 DEF Next

(* At the start nobody owns a turn, and no runner is up.                   *)
LEMMA InitOwners == Init => Inv2
  <1> SUFFICES ASSUME Init PROVE Inv2
    OBVIOUS
  <1>1. ASSUME NEW t \in TurnIds PROVE WatchedTurn(t)
    <2>1. runner[t] = <<>> /\ Len(runner[t]) = 0
      BY EmptySeq DEF Init
    <2>2. Working(t) = {}
      BY <2>1 DEF Working
    <2> QED
      BY <2>2 DEF WatchedTurn, Recorded, GoesOnTalking
  <1>2. ASSUME NEW h \in Holders PROVE OwnerFits(h)
    BY IdleRow DEF Init, OwnerFits, Owns
  <1> QED
    BY <1>1, <1>2 DEF Inv2

(* A transaction that stalls is what the layer leaves out.                 *)
LEMMA StallNotTimely ==
    ASSUME NEW h \in Holders, Stall(h)
    PROVE  ~Timely'
  BY DEF Stall, Fault, Timely

(* Every step keeps the second layer.                                      *)
LEMMA NextOwners == SessionFits /\ Inv1 /\ Inv2 /\ [Next]_vars => Inv2'
  <1> SUFFICES ASSUME SessionFits, Inv1, Inv2, [Next]_vars, Timely' PROVE Inv2'
    BY DEF Inv2
  <1>1. Timely
    BY FaultsStay DEF Timely
  <1>2. CASE People
    BY <1>1, <1>2, PeopleOwners
  <1>3. ASSUME NEW t \in TurnIds, Lapse(t) \/ FallsDue(t) PROVE Inv2'
    BY <1>1, <1>3, WaitingOwners
  <1>4. ASSUME NEW h \in Holders, Drive(h) PROVE Inv2'
    <2>1. CASE Claim(h) \/ Leave(h) \/ Load(h) \/ BeginAttempt(h) \/ Prepare(h)
      BY <1>1, <2>1, ClaimOwners, LeavingOwners, LoadOwners, BeginAttemptOwners, PrepareOwners
    <2>2. CASE Launch(h) \/ Start(h) \/ Disconnected(h) \/ Attach(h) \/ PrepareAgain(h)
      BY <1>1, <2>2, LaunchOwners, StartOwners, LeavingOwners, AttachOwners, PrepareAgainOwners
    <2>3. CASE SendCommands(h) \/ Apply(h) \/ RestartWith(h) \/ Restart(h)
      BY <1>1, <2>3, SendCommandsOwners, ApplyOwners, RestartWithOwners, RestartOwners
    <2>4. CASE RetryFailure(h) \/ RetryFailureDue(h) \/ Exited(h) \/ Finalize(h)
      BY <1>1, <2>4, RetryFailureOwners, RetryFailureDueOwners, ExitedOwners, FinalizeOwners
    <2>5. CASE Settle(h) \/ Lose(h)
      BY <1>1, <2>5, SettleOwners, LoseOwners
    <2> QED
      BY <1>4, <2>1, <2>2, <2>3, <2>4, <2>5 DEF Drive
  <1>5. ASSUME NEW h \in Holders, GoesWrong(h) PROVE Inv2'
    <2>1. CASE Crash(h) \/ Stop(h) \/ Refuse(h) \/ Kill(h)
      BY <1>1, <2>1, LeavingOwners, StopOwners, PrepareOwners, KillOwners
    <2>2. CASE FailUnexpectedly(h) \/ FinalizeFails(h)
      BY <1>1, <2>2, FailUnexpectedlyOwners, FinalizeFailsOwners
    <2>3. ~Stall(h)
      BY StallNotTimely
    <2> QED
      BY <1>5, <2>1, <2>2, <2>3 DEF GoesWrong
  <1>6. ASSUME NEW t \in TurnIds, NEW c \in DOMAIN runner[t], Harness(t, c) PROVE Inv2'
    BY <1>1, <1>6, HarnessOwners
  <1>7. CASE UNCHANGED vars
    <2>1. attempt' = attempt /\ runner' = runner /\ turn' = turn /\ holder' = holder
      BY <1>7 DEF vars
    <2>2. Leases
      BY <2>1, TurnsAlone
    <2> QED
      BY <1>1, <2>1, <2>2, QuietStep
  <1> QED
    BY <1>2, <1>3, <1>4, <1>5, <1>6, <1>7 DEF Next

(* The second layer holds: every owner has what it relies on, wherever a   *)
(* step may throw, and every runner that may work and was not left to      *)
(* itself is recorded by a turn that runs.                                 *)
THEOREM OwnersFit == Spec => [](Inv2)
  <1>1. Init => SessionFits /\ Inv1 /\ Inv2
    BY InitFits, InitOwners
  <1>2. SessionFits /\ Inv1 /\ Inv2 /\ [Next]_vars => SessionFits' /\ Inv1' /\ Inv2'
    BY NextKeeps, NextSession, NextOwners
  <1> QED
    BY <1>1, <1>2, PTL DEF Spec

(* No harness works unwatched: one that was started and has not ended is   *)
(* the runner that the last attempt of a running turn records, through     *)
(* crashes, lapsed leases, takeovers, restarts (attach, prepareAgain) and  *)
(* errors at any place (failUnexpectedly), unless its kill was lost or its *)
(* turn failed before it was found again.                                  *)
THEOREM HarnessAccountedHolds == Spec => []HarnessAccounted
  <1>1. Inv1 /\ Inv2 => HarnessAccounted
    <2> SUFFICES ASSUME Inv1, Inv2, Timely, NEW t \in TurnIds, NEW c \in DOMAIN runner[t],
                        runner[t][c].phase \in {"told", "began"}, ~runner[t][c].left
                 PROVE  /\ turn[t].status = "running"
                        /\ Last(attempt[t]).runner # None
                        /\ Last(attempt[t]).runner.at = c
      BY DEF HarnessAccounted
    <2>1. TablesFit
      BY DEF Inv1
    <2>2. c \in Working(t)
      BY <2>1, Lengths DEF Working, Up
    <2> QED
      BY <2>2 DEF Inv2, WatchedTurn, Recorded, Last
  <1> QED
    BY <1>1, Invariance, OwnersFit, PTL
=============================================================================
