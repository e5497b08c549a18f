--------------------------- MODULE AgentTurnsProofs ---------------------------
(***************************************************************************)
(* Proofs about the turns of an agent session, for any messages, holders,  *)
(* limits and kinds of faults.                                             *)
(*                                                                         *)
(* The invariant has layers, each proved on top of the one before.  Inv1   *)
(* is about the tables: what a turn's row may look like, that one turn     *)
(* works, that a holder in each place has what its next step needs, and    *)
(* that a turn that ended left nothing unread.  It holds even when a       *)
(* transaction stalls.  The layers above it are about behaviours in which  *)
(* none did: AgentOwnersProofs.                                            *)
(***************************************************************************)
EXTENDS AgentTurns, FiniteSetTheorems, SequenceTheorems, WellFoundedInduction, TLAPS

-----------------------------------------------------------------------------
(* Rows.                                                                   *)

TurnRow == [status : Statuses, ord : Nat, prio : {0, 1}, tries : Nat, due : BOOLEAN,
            fresh : BOOLEAN, stop : BOOLEAN, token : Holders \cup {None}, live : BOOLEAN]

AttemptStatuses == {"preparing", "running", "superseded", "lost", "completed", "failed", "interrupted"}
AttemptRow == [status : AttemptStatuses, runner : RunnerStates \cup {None}, asked : BOOLEAN]

Frames == ({"began"} \X BOOLEAN) \cup ({"ack", "refused", "took"} \X Messages) \cup ({"end"} \X Outcomes)
RunnerRow == [phase : Phases, inbox : SUBSET Messages, seen : SUBSET Messages,
              refused : SUBSET Messages, taken : SUBSET Messages, halt : BOOLEAN,
              out : Seq(Frames), left : BOOLEAN]

Places == {"idle", "load", "attempt", "prepare", "launch", "start", "attach", "again", "pump",
           "refused", "ended", "waits", "killed", "settle", "refuse", "lose"}
HolderRow == [pc : Places, turn : TurnIds \cup {None}, n : Nat, chan : Nat,
              mem : RunnerStates \cup {None}, outcome : Outcomes \cup Messages \cup {None},
              inflight : BOOLEAN]

-----------------------------------------------------------------------------
(* The first layer of the invariant.                                       *)

TablesFit ==
    /\ item \in [Messages -> TurnIds \cup {None}]
    /\ sent \in Seq(Messages)
    /\ attempt \in [TurnIds -> Seq(AttemptRow)]
    /\ command \in [TurnIds -> SUBSET Commands]
    /\ holder \in [Holders -> HolderRow]
    /\ runner \in [TurnIds -> Seq(RunnerRow)]
    /\ acts \in 0 .. MaxActs
    /\ faults \subseteq Faults

(* The session's harness, and those whose thread it has.                    *)
SessionFits == session \in [harness : Harnesses, named : SUBSET Harnesses]

(* A turn's row: a lease and a stop are of a turn that works.              *)
RowFits(row) == row.live \/ row.stop => row.status \in Active

(* A table of turns: one works at a time.                                  *)
TurnsFit(T) ==
    /\ T \in [TurnIds -> TurnRow]
    /\ \E n \in Nat : \A t \in TurnIds : T[t].ord <= n
    /\ \A t \in TurnIds : RowFits(T[t])
    /\ \A t, u \in TurnIds : T[t].status \in Active /\ T[u].status \in Active => t = u

(* A message with a turn of its own is in it.                              *)
ItemsFit ==
    /\ \A m \in Messages : item[m] = Own(m) <=> turn[Own(m)].status # "none"
    /\ \A i \in 1 .. Len(sent) : item[sent[i]] # None

(* A turn that runs has an attempt, and attempts record runners there are. *)
AttemptsFit == \A t \in TurnIds :
    /\ turn[t].status = "running" => Len(attempt[t]) > 0
    /\ \A i \in 1 .. Len(attempt[t]) :
        attempt[t][i].runner # None => attempt[t][i].runner.at \in 1 .. Len(runner[t])

(* What a holder has in each place.                                        *)
HolderFits(h) ==
    LET v == holder[h]
        t == v.turn
    IN  v.pc # "idle" =>
        /\ t \in TurnIds /\ turn[t].status # "none"
        /\ v.pc \in {"ended", "killed", "settle", "refuse"} => v.outcome \in Outcomes
        /\ v.pc = "refused" => v.outcome \in Messages
        /\ v.pc \in {"launch", "start", "pump", "refused", "ended"} => v.mem \in RunnerStates
        /\ v.n \in 0 .. Len(attempt[t])
        /\ v.chan \in 0 .. Len(runner[t])
        /\ v.pc \notin {"load", "attempt", "settle"} => v.n # 0
        /\ v.pc \in {"start", "pump", "refused", "ended"} =>
                v.mem.at \in 1 .. Len(runner[t]) /\ v.chan = v.mem.at
        /\ v.pc \in {"load", "attempt", "prepare"} => v.chan = 0
        /\ v.inflight => "stall" \in faults

(* A turn that ended by itself left no message unread.                     *)
Over == {"completed", "failed", "interrupted"}
NoneLeft == Timely => \A t \in TurnIds : turn[t].status \in Over => Unread(t) = {}

Inv1 ==
    /\ TablesFit
    /\ TurnsFit(turn)
    /\ ItemsFit
    /\ AttemptsFit
    /\ \A h \in Holders : HolderFits(h)
    /\ NoneLeft

(* What a step does to the turns: none disappears, a stop stands, and what *)
(* has settled does not work again.                                        *)
Onward(T, U) == \A t \in TurnIds :
    /\ T[t].status # "none" => U[t].status # "none"
    /\ T[t].stop => U[t].stop \/ U[t].status \in Settled
    /\ T[t].status \in Settled => U[t].status \notin Active

(* An outcome stays, unless a person asks to have it again.                *)
Stays == Timely => \A t \in TurnIds : turn[t].status \in Settled =>
    \/ turn'[t].status = turn[t].status
    \/ turn'[t].status = "queued" /\ acts' # acts

Step1 == Onward(turn, turn') /\ Stays

-----------------------------------------------------------------------------
(* Tables of turns.                                                        *)

(* The names of turns.                                                     *)
LEMMA Names ==
    /\ \A m \in Messages : Own(m) \in TurnIds /\ Own(m) # None
    /\ \A m, x \in Messages : Own(m) = Own(x) => m = x
    /\ \A t \in TurnIds : t \in Messages \X Nat /\ Continuation(t)[2] # 0
    /\ \A m \in Messages : Own(m)[1] = m /\ Own(m)[2] = 0
  <1>1. MaxFaults \in Nat
    BY BoundsAssumption
  <1> QED
    BY <1>1, NoneAssumption DEF TurnIds, Own, Continuation

(* One row changes.                                                        *)
WithRow(T, t, row) == [T EXCEPT ![t] = row]
Alone(T, t, row) ==
    row.status \in Active => \A u \in TurnIds : T[u].status \in Active => u = t

(* A table with one row written.                                           *)
LEMMA RowKeeps ==
    ASSUME NEW T, TurnsFit(T), NEW t \in TurnIds, NEW row, row \in TurnRow, RowFits(row),
           Alone(T, t, row)
    PROVE  /\ TurnsFit(WithRow(T, t, row))
           /\ \A u \in TurnIds : WithRow(T, t, row)[u] = IF u = t THEN row ELSE T[u]
  <1> DEFINE U == WithRow(T, t, row)
  <1>1. U \in [TurnIds -> TurnRow] /\ \A u \in TurnIds : U[u] = IF u = t THEN row ELSE T[u]
    BY DEF TurnsFit, WithRow
  <1> HIDE DEF U
  <1>2. row.ord \in Nat /\ \A u \in TurnIds : T[u].ord \in Nat
    BY DEF TurnRow, TurnsFit
  <1>3. \E n \in Nat : \A u \in TurnIds : U[u].ord <= n
    <2>1. PICK n \in Nat : \A u \in TurnIds : T[u].ord <= n
      BY DEF TurnsFit
    <2> DEFINE k == n + row.ord
    <2>2. k \in Nat /\ \A u \in TurnIds : U[u].ord <= k
      BY <1>1, <1>2, <2>1
    <2> HIDE DEF k
    <2> QED
      BY <2>2
  <1>4. \A u \in TurnIds : RowFits(U[u])
    BY <1>1 DEF TurnsFit
  <1>5. \A u, w \in TurnIds : U[u].status \in Active /\ U[w].status \in Active => u = w
    BY <1>1 DEF TurnsFit, Alone
  <1>6. TurnsFit(U)
    BY <1>1, <1>3, <1>4, <1>5 DEF TurnsFit
  <1> QED
    BY <1>1, <1>6 DEF U

(* The fields of a row.                                                    *)
LEMMA Fields ==
    ASSUME NEW row \in TurnRow
    PROVE  /\ row.status \in Statuses /\ row.ord \in Nat /\ row.prio \in {0, 1} /\ row.tries \in Nat
           /\ row.due \in BOOLEAN /\ row.fresh \in BOOLEAN /\ row.stop \in BOOLEAN
           /\ row.token \in Holders \cup {None} /\ row.live \in BOOLEAN
  BY DEF TurnRow

(* A new turn waits in the queue.                                          *)
LEMMA NewTurnRow ==
    ASSUME NEW n \in Nat, NEW p \in {0, 1}
    PROVE  LET row == NewTurn(n, p)
           IN  /\ row \in TurnRow /\ RowFits(row) /\ row.status = "queued" /\ row.ord = n
               /\ ~row.stop /\ ~row.live /\ row.token = None
  BY DEF NewTurn, Absent, TurnRow, RowFits, Statuses

(* What stopping the turn that works writes.                               *)
LEMMA StopActiveKeeps ==
    ASSUME NEW T, TurnsFit(T)
    PROVE  /\ TurnsFit(StopActive(T))
           /\ \A t \in TurnIds :
                /\ StopActive(T)[t].status = T[t].status
                /\ StopActive(T)[t].ord = T[t].ord
                /\ StopActive(T)[t].live = T[t].live
                /\ StopActive(T)[t].token = T[t].token
                /\ StopActive(T)[t].prio = T[t].prio
                /\ T[t].stop => StopActive(T)[t].stop
  <1> DEFINE U == StopActive(T)
  <1>1. ASSUME NEW t \in TurnIds
        PROVE  /\ U[t] \in TurnRow /\ RowFits(U[t]) /\ U[t].status = T[t].status
               /\ U[t].ord = T[t].ord /\ U[t].live = T[t].live /\ U[t].token = T[t].token
               /\ U[t].prio = T[t].prio
               /\ T[t].stop => U[t].stop
    <2>1. T[t] \in TurnRow /\ RowFits(T[t])
      BY DEF TurnsFit
    <2>2. U[t] = IF T[t].status \in Active THEN [T[t] EXCEPT !.stop = TRUE] ELSE T[t]
      BY DEF StopActive
    <2> QED
      BY <2>1, <2>2 DEF TurnRow, RowFits
  <1>2. U \in [TurnIds -> TurnRow]
    <2>1. U = [t \in TurnIds |-> U[t]]
      BY DEF StopActive
    <2> HIDE DEF U
    <2> QED
      BY <1>1, <2>1
  <1> HIDE DEF U
  <1>3. TurnsFit(U)
    BY <1>1, <1>2 DEF TurnsFit
  <1> QED
    BY <1>1, <1>3 DEF U

(* A bounded set of naturals has a greatest element.                       *)
LEMMA Greatest ==
    ASSUME NEW S, S \subseteq Nat, S # {}, NEW b \in Nat, \A s \in S : s <= b
    PROVE  Max(S) \in S /\ \A s \in S : s <= Max(S)
  <1> DEFINE R == {p \in Nat \X Nat : p[1] < p[2]}
             B == {n \in Nat : \A s \in S : s <= n}
  <1>1. IsWellFoundedOn(R, Nat)
    BY NatLessThanWellFounded DEF OpToRel
  <1>2. PICK n \in B : \A m \in B : <<m, n>> \notin R
    <2>1. b \in B /\ B \subseteq Nat
      OBVIOUS
    <2> HIDE DEF R, B
    <2> QED
      BY <1>1, <2>1, WFMin
  <1>3. n \in S
    <2> SUFFICES ASSUME n \notin S PROVE FALSE
      OBVIOUS
    <2>1. \A s \in S : s <= n /\ s # n /\ s \in Nat
      BY <1>2
    <2>2. n > 0
      <3>1. PICK s \in S : TRUE
        OBVIOUS
      <3>2. n \in Nat /\ s \in Nat /\ s <= n /\ s # n
        BY <1>2, <2>1
      <3> QED
        BY <3>2
    <2>3. n - 1 \in B
      BY <2>1, <2>2
    <2>4. <<n - 1, n>> \in R
      BY <2>2
    <2> QED
      BY <1>2, <2>3, <2>4
  <1>4. \E x \in S : \A y \in S : x >= y
    BY <1>2, <1>3
  <1>5. Max(S) \in S /\ \A y \in S : Max(S) >= y
    BY <1>4 DEF Max
  <1> QED
    BY <1>5

(* The last ordinal of a table.                                            *)
LEMMA Ordinals ==
    ASSUME NEW T, TurnsFit(T)
    PROVE  LastOrdinal(T) \in Nat /\ \A t \in TurnIds : T[t].ord <= LastOrdinal(T)
  <1> DEFINE S == {0} \cup {T[t].ord : t \in TurnIds}
  <1>1. \A t \in TurnIds : T[t].ord \in Nat
    BY Fields DEF TurnsFit
  <1>2. PICK b \in Nat : \A t \in TurnIds : T[t].ord <= b
    BY DEF TurnsFit
  <1>3. S \subseteq Nat /\ S # {} /\ \A s \in S : s <= b
    BY <1>1, <1>2
  <1> HIDE DEF S
  <1>4. Max(S) \in S /\ \A s \in S : s <= Max(S)
    BY <1>3, Greatest
  <1>5. Max(S) \in Nat /\ \A t \in TurnIds : T[t].ord <= Max(S)
    <2>1. \A t \in TurnIds : T[t].ord \in S
      BY DEF S
    <2> QED
      BY <1>3, <1>4, <2>1
  <1> QED
    BY <1>5 DEF S, LastOrdinal

(* Messages that leave turns of S for turns of their own.                  *)
Moved(S) == {m \in Messages : \E t \in S : m \in Unread(t)}

(* A message that joined a turn has none of its own yet.                   *)
LEMMA MovedAbsent ==
    ASSUME ItemsFit, NEW S, NEW m \in Moved(S)
    PROVE  m \in Messages /\ turn[Own(m)].status = "none" /\ item[m] # Own(m) /\ item[m] \in S
  BY DEF ItemsFit, Moved, Unread, SteeredItems

(* What requeueSteers writes.                                              *)
LEMMA RequeueKeeps ==
    ASSUME ItemsFit, sent \in Seq(Messages), NEW T, TurnsFit(T), NEW S,
           \A t \in TurnIds : turn[t].status = "none" => T[t].status = "none"
    PROVE  LET U == RequeueSteers(T, S)
           IN  /\ TurnsFit(U)
               /\ \A m \in Moved(S) : /\ T[Own(m)].status = "none"
                                      /\ U[Own(m)].status = "queued"
                                      /\ ~U[Own(m)].stop /\ ~U[Own(m)].live
               /\ \A t \in TurnIds : (\A m \in Moved(S) : t # Own(m)) => U[t] = T[t]
  <1> DEFINE U == RequeueSteers(T, S)
             place(m) == Cardinality({i \in DOMAIN sent : /\ sent[i] \in Moved(S)
                                                          /\ \A k \in 1 .. i - 1 : sent[k] # m})
             last == LastOrdinal(T)
  <1>1. U = [t \in TurnIds |-> IF \E m \in Moved(S) : t = Own(m)
                               THEN NewTurn(last + place(t[1]), 0) ELSE T[t]]
    BY DEF RequeueSteers, Moved
  <1>2. Moved(S) \subseteq Messages
    BY DEF Moved
  <1>3. \A x : place(x) \in Nat /\ place(x) <= Len(sent)
    <2>1. Len(sent) \in Nat /\ DOMAIN sent = 1 .. Len(sent)
      BY LenProperties
    <2>2. ASSUME NEW x PROVE place(x) \in Nat /\ place(x) <= Len(sent)
      <3> DEFINE P == {i \in DOMAIN sent : /\ sent[i] \in Moved(S)
                                           /\ \A k \in 1 .. i - 1 : sent[k] # x}
      <3>1. P \subseteq 1 .. Len(sent)
        BY <2>1
      <3> HIDE DEF P
      <3>2. IsFiniteSet(1 .. Len(sent)) /\ Cardinality(1 .. Len(sent)) = Len(sent)
        BY <2>1, FS_Interval
      <3>3. Cardinality(P) \in Nat /\ Cardinality(P) <= Len(sent)
        BY <3>1, <3>2, FS_Subset, FS_CardinalityType
      <3> QED
        BY <3>3 DEF P
    <2> QED
      BY <2>2
  <1>4. last \in Nat /\ Len(sent) \in Nat /\ \A t \in TurnIds : T[t].ord <= last
    BY Ordinals
  <1> HIDE DEF place, last
  <1>5. \A x : last + place(x) \in Nat /\ last + place(x) <= last + Len(sent)
    BY <1>3, <1>4
  <1>6. ASSUME NEW t \in TurnIds, NEW m \in Moved(S), t = Own(m)
        PROVE  /\ U[t] \in TurnRow /\ RowFits(U[t]) /\ U[t].status = "queued"
               /\ ~U[t].stop /\ ~U[t].live /\ U[t].ord <= last + Len(sent)
    <2>1. U[t] = NewTurn(last + place(t[1]), 0)
      BY <1>1, <1>6
    <2> QED
      BY <1>5, <2>1, NewTurnRow
  <1>7. \A t \in TurnIds : (\A m \in Moved(S) : t # Own(m)) => U[t] = T[t]
    BY <1>1
  <1>8. \A m \in Moved(S) : T[Own(m)].status = "none" /\ Own(m) \in TurnIds
    BY MovedAbsent, Names
  <1>9. DOMAIN U = TurnIds /\ U = [t \in TurnIds |-> U[t]]
    BY <1>1
  <1> HIDE DEF U
  <1>10. \A t \in TurnIds : U[t] \in TurnRow /\ RowFits(U[t]) /\ U[t].ord <= last + Len(sent)
    <2>1. \A t \in TurnIds : T[t] \in TurnRow /\ RowFits(T[t]) /\ T[t].ord <= last + Len(sent)
      BY <1>4, Fields DEF TurnsFit
    <2> QED
      BY <1>6, <1>7, <2>1
  <1>11. U \in [TurnIds -> TurnRow]
    BY <1>9, <1>10
  <1>12. \A t, u \in TurnIds : U[t].status \in Active /\ U[u].status \in Active => t = u
    <2>1. \A t \in TurnIds : U[t].status \in Active => U[t] = T[t]
      BY <1>6, <1>7 DEF Active
    <2> QED
      BY <2>1 DEF TurnsFit
  <1>13. last + Len(sent) \in Nat
    BY <1>4
  <1>14. TurnsFit(U)
    BY <1>10, <1>11, <1>12, <1>13 DEF TurnsFit
  <1> QED
    BY <1>6, <1>7, <1>8, <1>14 DEF U

-----------------------------------------------------------------------------
(* Sequences in tables, and holders.                                       *)

WithPlace(A, t, n, row) == [A EXCEPT ![t] = [A[t] EXCEPT ![n] = row]]
WithAppended(A, t, row) == [A EXCEPT ![t] = Append(A[t], row)]

(* The fields of a holder.                                                 *)
LEMMA HolderFields ==
    ASSUME NEW v \in HolderRow
    PROVE  /\ v.pc \in Places /\ v.turn \in TurnIds \cup {None} /\ v.n \in Nat /\ v.chan \in Nat
           /\ v.mem \in RunnerStates \cup {None} /\ v.outcome \in Outcomes \cup Messages \cup {None}
           /\ v.inflight \in BOOLEAN
  BY DEF HolderRow

(* A holder with nothing to do, and one that begins with a turn.           *)
LEMMA IdleRow ==
    /\ Idle \in HolderRow /\ Idle.pc = "idle"
    /\ \A p \in Places, t \in TurnIds :
         LET v == [Idle EXCEPT !.pc = p, !.turn = t]
         IN  /\ v \in HolderRow /\ v.pc = p /\ v.turn = t /\ v.n = 0 /\ v.mem = None
             /\ v.outcome = None /\ v.inflight = FALSE /\ v.chan = 0
  BY ZenonT(60) DEF Idle, HolderRow, Places

(* One holder changes.                                                     *)
LEMMA HolderKeeps ==
    ASSUME TablesFit, NEW h \in Holders, NEW v \in HolderRow, holder' = [holder EXCEPT ![h] = v]
    PROVE  /\ holder' \in [Holders -> HolderRow]
           /\ holder'[h] = v /\ \A g \in Holders : g # h => holder'[g] = holder[g]
  BY DEF TablesFit

(* A row of an attempt is written.                                          *)
AttemptPut(t, n, row) ==
    /\ attempt' \in [TurnIds -> Seq(AttemptRow)]
    /\ \A u \in TurnIds : (u # t => attempt'[u] = attempt[u]) /\ Len(attempt'[u]) = Len(attempt[u])
    /\ attempt'[t][n] = row
    /\ \A i \in 1 .. Len(attempt[t]) : i # n => attempt'[t][i] = attempt[t][i]

(* What writing a row of an attempt leaves.                                *)
LEMMA AttemptWrite ==
    ASSUME TablesFit, NEW t \in TurnIds, NEW n \in 1 .. Len(attempt[t]), NEW row, row \in AttemptRow,
           attempt' = WithPlace(attempt, t, n, row)
    PROVE  AttemptPut(t, n, row)
  <1> DEFINE s == [attempt[t] EXCEPT ![n] = row]
  <1>1. attempt \in [TurnIds -> Seq(AttemptRow)] /\ attempt[t] \in Seq(AttemptRow)
    BY DEF TablesFit
  <1>2. /\ s \in Seq(AttemptRow) /\ Len(s) = Len(attempt[t])
        /\ \A i \in 1 .. Len(attempt[t]) : s[i] = IF i = n THEN row ELSE attempt[t][i]
    BY <1>1, ExceptSeq
  <1>3. attempt' = [attempt EXCEPT ![t] = s]
    BY DEF WithPlace
  <1> HIDE DEF s
  <1> QED
    BY <1>1, <1>2, <1>3 DEF AttemptPut

(* A row of a runner is written.                                            *)
RunnerPut(t, c, row) ==
    /\ runner' \in [TurnIds -> Seq(RunnerRow)]
    /\ \A u \in TurnIds : (u # t => runner'[u] = runner[u]) /\ Len(runner'[u]) = Len(runner[u])
    /\ runner'[t][c] = row
    /\ \A i \in 1 .. Len(runner[t]) : i # c => runner'[t][i] = runner[t][i]

(* What writing a row of a runner leaves.                                  *)
LEMMA RunnerWrite ==
    ASSUME TablesFit, NEW t \in TurnIds, NEW c \in 1 .. Len(runner[t]), NEW row, row \in RunnerRow,
           runner' = WithPlace(runner, t, c, row)
    PROVE  RunnerPut(t, c, row)
  <1> DEFINE s == [runner[t] EXCEPT ![c] = row]
  <1>1. runner \in [TurnIds -> Seq(RunnerRow)] /\ runner[t] \in Seq(RunnerRow)
    BY DEF TablesFit
  <1>2. /\ s \in Seq(RunnerRow) /\ Len(s) = Len(runner[t])
        /\ \A i \in 1 .. Len(runner[t]) : s[i] = IF i = c THEN row ELSE runner[t][i]
    BY <1>1, ExceptSeq
  <1>3. runner' = [runner EXCEPT ![t] = s]
    BY DEF WithPlace
  <1> HIDE DEF s
  <1> QED
    BY <1>1, <1>2, <1>3 DEF RunnerPut

(* An attempt is added.                                                     *)
AttemptNew(t, row) ==
    /\ attempt' \in [TurnIds -> Seq(AttemptRow)]
    /\ \A u \in TurnIds : (u # t => attempt'[u] = attempt[u]) /\ Len(attempt'[u]) >= Len(attempt[u])
    /\ Len(attempt'[t]) = Len(attempt[t]) + 1 /\ attempt'[t][Len(attempt[t]) + 1] = row
    /\ \A i \in 1 .. Len(attempt[t]) : attempt'[t][i] = attempt[t][i]

(* What adding an attempt leaves.                                          *)
LEMMA AttemptAdded ==
    ASSUME TablesFit, NEW t \in TurnIds, NEW row, row \in AttemptRow,
           attempt' = WithAppended(attempt, t, row)
    PROVE  AttemptNew(t, row)
  <1> DEFINE s == Append(attempt[t], row)
  <1>1. attempt \in [TurnIds -> Seq(AttemptRow)] /\ attempt[t] \in Seq(AttemptRow)
    BY DEF TablesFit
  <1>2. /\ s \in Seq(AttemptRow) /\ Len(s) = Len(attempt[t]) + 1 /\ s[Len(attempt[t]) + 1] = row
        /\ \A i \in 1 .. Len(attempt[t]) : s[i] = attempt[t][i]
    BY <1>1, AppendProperties
  <1>3. attempt' = [attempt EXCEPT ![t] = s]
    BY DEF WithAppended
  <1>4. \A u \in TurnIds : Len(attempt[u]) \in Nat
    BY <1>1, LenProperties
  <1> HIDE DEF s
  <1> QED
    BY <1>1, <1>2, <1>3, <1>4 DEF AttemptNew

(* A runner is added.                                                       *)
RunnerNew(t, row) ==
    /\ runner' \in [TurnIds -> Seq(RunnerRow)]
    /\ \A u \in TurnIds : (u # t => runner'[u] = runner[u]) /\ Len(runner'[u]) >= Len(runner[u])
    /\ Len(runner'[t]) = Len(runner[t]) + 1 /\ runner'[t][Len(runner[t]) + 1] = row
    /\ \A i \in 1 .. Len(runner[t]) : runner'[t][i] = runner[t][i]

(* What adding a runner leaves.                                            *)
LEMMA RunnerAdded ==
    ASSUME TablesFit, NEW t \in TurnIds, NEW row, row \in RunnerRow,
           runner' = WithAppended(runner, t, row)
    PROVE  RunnerNew(t, row)
  <1> DEFINE s == Append(runner[t], row)
  <1>1. runner \in [TurnIds -> Seq(RunnerRow)] /\ runner[t] \in Seq(RunnerRow)
    BY DEF TablesFit
  <1>2. /\ s \in Seq(RunnerRow) /\ Len(s) = Len(runner[t]) + 1 /\ s[Len(runner[t]) + 1] = row
        /\ \A i \in 1 .. Len(runner[t]) : s[i] = runner[t][i]
    BY <1>1, AppendProperties
  <1>3. runner' = [runner EXCEPT ![t] = s]
    BY DEF WithAppended
  <1>4. \A u \in TurnIds : Len(runner[u]) \in Nat
    BY <1>1, LenProperties
  <1> HIDE DEF s
  <1> QED
    BY <1>1, <1>2, <1>3, <1>4 DEF RunnerNew

-----------------------------------------------------------------------------
(* What the parts of the invariant need of a step.                         *)

(* The tables' sequences have lengths.                                     *)
LEMMA Lengths ==
    ASSUME TablesFit
    PROVE  /\ \A t \in TurnIds : Len(attempt[t]) \in Nat /\ DOMAIN attempt[t] = 1 .. Len(attempt[t])
           /\ \A t \in TurnIds : Len(runner[t]) \in Nat /\ DOMAIN runner[t] = 1 .. Len(runner[t])
           /\ \A t \in TurnIds : \A i \in 1 .. Len(attempt[t]) : attempt[t][i] \in AttemptRow
           /\ \A t \in TurnIds : \A c \in 1 .. Len(runner[t]) : runner[t][c] \in RunnerRow
  <1>1. \A t \in TurnIds : attempt[t] \in Seq(AttemptRow) /\ runner[t] \in Seq(RunnerRow)
    BY DEF TablesFit
  <1> QED
    BY <1>1, LenProperties, ElementOfSeq

(* Attempts and runners are only added, and what went wrong did.           *)
Grows ==
    /\ \A t \in TurnIds : /\ Len(attempt'[t]) >= Len(attempt[t])
                          /\ Len(runner'[t]) >= Len(runner[t])
    /\ faults \subseteq faults'

(* A holder that the step leaves alone.                                    *)
LEMMA OthersFit ==
    ASSUME TablesFit, TablesFit', Grows, Onward(turn, turn'),
           NEW h \in Holders, HolderFits(h), holder'[h] = holder[h]
    PROVE  HolderFits(h)'
  <1>1. \A t \in TurnIds : /\ Len(attempt[t]) \in Nat /\ Len(attempt'[t]) \in Nat
                           /\ Len(runner[t]) \in Nat /\ Len(runner'[t]) \in Nat
    <2>1. \A t \in TurnIds : Len(attempt[t]) \in Nat /\ Len(runner[t]) \in Nat
      BY Lengths
    <2>2. \A t \in TurnIds : Len(attempt'[t]) \in Nat /\ Len(runner'[t]) \in Nat
      <3>1. \A t \in TurnIds : attempt'[t] \in Seq(AttemptRow) /\ runner'[t] \in Seq(RunnerRow)
        BY DEF TablesFit
      <3> QED
        BY <3>1, LenProperties
    <2> QED
      BY <2>1, <2>2
  <1> DEFINE v == holder[h]
             t == v.turn
  <1> HIDE DEF v
  <1>2. holder[h] = v /\ holder'[h] = v
    BY DEF v
  <1>3. CASE v.pc = "idle"
    BY <1>2, <1>3 DEF HolderFits
  <1>4. CASE v.pc # "idle"
    <2>1. /\ t \in TurnIds /\ turn[t].status # "none"
          /\ v.n \in 0 .. Len(attempt[t])
          /\ v.chan \in 0 .. Len(runner[t])
          /\ v.pc \in {"start", "pump", "refused", "ended"} =>
                v.mem.at \in 1 .. Len(runner[t]) /\ v.chan = v.mem.at
          /\ v.inflight => "stall" \in faults
      BY <1>2, <1>4 DEF HolderFits
    <2>2. /\ v.pc \in {"ended", "killed", "settle", "refuse"} => v.outcome \in Outcomes
          /\ v.pc = "refused" => v.outcome \in Messages
          /\ v.pc \in {"launch", "start", "pump", "refused", "ended"} => v.mem \in RunnerStates
          /\ v.pc \notin {"load", "attempt", "settle"} => v.n # 0
          /\ v.pc \in {"load", "attempt", "prepare"} => v.chan = 0
      BY <1>2, <1>4 DEF HolderFits
    <2>3. turn'[t].status # "none" /\ v.n \in 0 .. Len(attempt'[t]) /\ v.chan \in 0 .. Len(runner'[t])
      BY <1>1, <2>1 DEF Grows, Onward
    <2>4. v.pc \in {"start", "pump", "refused", "ended"} =>
                v.mem.at \in 1 .. Len(runner'[t]) /\ v.chan = v.mem.at
      BY <1>1, <2>1 DEF Grows
    <2>5. v.inflight => "stall" \in faults'
      BY <2>1 DEF Grows
    <2> QED
      BY <1>2, <2>1, <2>2, <2>3, <2>4, <2>5 DEF HolderFits
  <1> QED
    BY <1>3, <1>4

(* Attempts that are there keep their runners, or get ones there are.      *)
LEMMA AttemptsKeep ==
    ASSUME TablesFit, TablesFit', AttemptsFit, Grows,
           \A t \in TurnIds : turn'[t].status = "running" =>
                turn[t].status = "running" \/ Len(attempt'[t]) > 0,
           \A t \in TurnIds : \A i \in 1 .. Len(attempt'[t]) :
                \/ i \in 1 .. Len(attempt[t]) /\ attempt'[t][i].runner = attempt[t][i].runner
                \/ attempt'[t][i].runner = None
                \/ attempt'[t][i].runner.at \in 1 .. Len(runner'[t])
    PROVE  AttemptsFit'
  <1>1. \A t \in TurnIds : /\ Len(attempt[t]) \in Nat /\ Len(attempt'[t]) \in Nat
                           /\ Len(runner[t]) \in Nat /\ Len(runner'[t]) \in Nat
    <2>1. \A t \in TurnIds : Len(attempt[t]) \in Nat /\ Len(runner[t]) \in Nat
      BY Lengths
    <2>2. \A t \in TurnIds : Len(attempt'[t]) \in Nat /\ Len(runner'[t]) \in Nat
      <3>1. \A t \in TurnIds : attempt'[t] \in Seq(AttemptRow) /\ runner'[t] \in Seq(RunnerRow)
        BY DEF TablesFit
      <3> QED
        BY <3>1, LenProperties
    <2> QED
      BY <2>1, <2>2
  <1>2. ASSUME NEW t \in TurnIds, turn'[t].status = "running" PROVE Len(attempt'[t]) > 0
    BY <1>1, <1>2 DEF AttemptsFit, Grows
  <1>3. ASSUME NEW t \in TurnIds, NEW i \in 1 .. Len(attempt'[t]), attempt'[t][i].runner # None
        PROVE  attempt'[t][i].runner.at \in 1 .. Len(runner'[t])
    <2>1. CASE i \in 1 .. Len(attempt[t]) /\ attempt'[t][i].runner = attempt[t][i].runner
      <3> DEFINE at == attempt[t][i].runner.at
      <3>1. at \in 1 .. Len(runner[t]) /\ attempt'[t][i].runner.at = at
        BY <1>3, <2>1 DEF AttemptsFit
      <3> HIDE DEF at
      <3> QED
        BY <1>1, <3>1 DEF Grows
    <2> QED
      BY <1>3, <2>1
  <1> QED
    BY <1>2, <1>3 DEF AttemptsFit

(* Items of their own stay where they are.                                 *)
LEMMA ItemsKeep ==
    ASSUME ItemsFit, item' = item, sent' = sent,
           \A m \in Messages : turn'[Own(m)].status = "none" <=> turn[Own(m)].status = "none"
    PROVE  ItemsFit'
  BY DEF ItemsFit

(* What has been read stays read.                                          *)
LEMMA UnreadShrinks ==
    ASSUME NEW t \in TurnIds, attempt'[t] = attempt[t],
           \A m \in Messages : item'[m] = t /\ t # Own(m) => item[m] = t
    PROVE  Unread(t)' \subseteq Unread(t)
  BY DEF Unread, SteeredItems, ConsumedBy

(* Nothing is left unread when only a turn that works goes on.             *)
LEMMA NoneLeftKeeps ==
    ASSUME NoneLeft, faults \subseteq faults', item' = item, NEW t,
           \A u \in TurnIds : u # t => attempt'[u] = attempt[u],
           \A u \in TurnIds : turn'[u].status \in Over => turn[u].status \in Over,
           (Timely /\ t \in TurnIds /\ attempt'[t] # attempt[t]) => turn'[t].status \notin Over
    PROVE  NoneLeft'
  <1> SUFFICES ASSUME Timely', NEW u \in TurnIds, turn'[u].status \in Over
               PROVE  Unread(u)' = {}
    BY DEF NoneLeft
  <1>1. Timely
    BY DEF Timely
  <1>2. attempt'[u] = attempt[u] /\ Unread(u) = {}
    BY <1>1 DEF NoneLeft
  <1> QED
    BY <1>2, UnreadShrinks

(* Who drives a turn.                                                      *)
LEMMA Driven ==
    ASSUME Inv1, NEW h \in Holders, holder[h].pc # "idle"
    PROVE  /\ holder[h] \in HolderRow /\ holder[h].turn \in TurnIds
           /\ turn[holder[h].turn] \in TurnRow /\ RowFits(turn[holder[h].turn])
           /\ turn[holder[h].turn].status # "none"
           /\ Owns(h) => turn[holder[h].turn].status \in Active
           /\ Timely /\ May(h) => Owns(h)
  <1>1. HolderFits(h) /\ holder[h] \in HolderRow
    BY DEF Inv1, TablesFit
  <1>2. holder[h].turn \in TurnIds /\ turn[holder[h].turn].status # "none"
    BY <1>1 DEF HolderFits
  <1>3. turn[holder[h].turn] \in TurnRow /\ RowFits(turn[holder[h].turn])
    BY <1>2 DEF Inv1, TurnsFit
  <1>4. Owns(h) => turn[holder[h].turn].status \in Active
    BY <1>3 DEF Owns, RowFits
  <1>5. Timely /\ May(h) => Owns(h)
    BY <1>1 DEF HolderFits, Timely, May
  <1> QED
    BY <1>1, <1>2, <1>3, <1>4, <1>5

-----------------------------------------------------------------------------
(* Kinds of steps.                                                         *)

(* A step that adds no turn, and writes at most what t and one holder have.*)
LEMMA Together ==
    ASSUME Inv1, TablesFit', TurnsFit(turn)', Onward(turn, turn'), Grows, NEW t,
           item' = item, sent' = sent,
           \A u \in TurnIds : turn'[u].status = "none" <=> turn[u].status = "none",
           \A u \in TurnIds : turn'[u].status = "running" =>
                turn[u].status = "running" \/ Len(attempt'[u]) > 0,
           \A u \in TurnIds : u # t => attempt'[u] = attempt[u],
           \A u \in TurnIds : turn'[u].status \in Over => turn[u].status \in Over,
           (Timely /\ t \in TurnIds /\ attempt'[t] # attempt[t]) => turn'[t].status \notin Over,
           t \in TurnIds => \A i \in 1 .. Len(attempt'[t]) :
                \/ i \in 1 .. Len(attempt[t]) /\ attempt'[t][i].runner = attempt[t][i].runner
                \/ attempt'[t][i].runner = None
                \/ attempt'[t][i].runner.at \in 1 .. Len(runner'[t]),
           \A h \in Holders : holder'[h] = holder[h] \/ HolderFits(h)'
    PROVE  Inv1'
  <1>1. TablesFit /\ ItemsFit /\ AttemptsFit /\ NoneLeft /\ \A h \in Holders : HolderFits(h)
    BY DEF Inv1
  <1>2. ItemsFit'
    <2>1. \A m \in Messages : turn'[Own(m)].status = "none" <=> turn[Own(m)].status = "none"
      BY Names
    <2> QED
      BY <1>1, <2>1, ItemsKeep
  <1>3. AttemptsFit'
    <2>1. \A u \in TurnIds : \A i \in 1 .. Len(attempt'[u]) :
                \/ i \in 1 .. Len(attempt[u]) /\ attempt'[u][i].runner = attempt[u][i].runner
                \/ attempt'[u][i].runner = None
                \/ attempt'[u][i].runner.at \in 1 .. Len(runner'[u])
      OBVIOUS
    <2> QED
      BY <1>1, <2>1, AttemptsKeep
  <1>4. \A h \in Holders : HolderFits(h)'
    BY <1>1, OthersFit
  <1>5. faults \subseteq faults'
    BY DEF Grows
  <1>6. NoneLeft'
    BY <1>1, <1>5, NoneLeftKeeps
  <1> QED
    BY <1>2, <1>3, <1>4, <1>6 DEF Inv1

(* A step of one holder that leaves turns, messages and attempts alone.    *)
LEMMA HolderStep ==
    ASSUME Inv1, NEW h \in Holders, NEW v \in HolderRow, holder' = [holder EXCEPT ![h] = v],
           turn' = turn, item' = item, sent' = sent, attempt' = attempt, command' = command,
           runner' \in [TurnIds -> Seq(RunnerRow)],
           \A t \in TurnIds : Len(runner'[t]) = Len(runner[t]),
           acts' = acts, faults \subseteq faults', faults' \subseteq Faults,
           HolderFits(h)'
    PROVE  Inv1' /\ Step1
  <1>1. TablesFit /\ TurnsFit(turn)
    BY DEF Inv1
  <1>2. \A g \in Holders : g # h => holder'[g] = holder[g]
    BY <1>1, HolderKeeps
  <1>3. TablesFit'
    BY <1>1, HolderKeeps DEF TablesFit
  <1>4. Onward(turn, turn')
    BY DEF Onward, Settled, Active
  <1>5. Grows
    BY <1>1, Lengths DEF Grows
  <1>6. TurnsFit(turn)'
    BY <1>1 DEF TurnsFit, RowFits
  <1>7. \A t \in TurnIds : \A i \in 1 .. Len(attempt'[t]) :
            i \in 1 .. Len(attempt[t]) /\ attempt'[t][i].runner = attempt[t][i].runner
    OBVIOUS
  <1>8. Inv1'
    <2> DEFINE t == None
    <2>1. t \notin TurnIds \/ t \in TurnIds
      OBVIOUS
    <2> HIDE DEF t
    <2> QED
      BY <1>2, <1>3, <1>4, <1>5, <1>6, <1>7, Together
  <1> QED
    BY <1>4, <1>8 DEF Step1, Stays

(* A row of a turn changes, and perhaps a holder; no attempt does.         *)
RowGoes(old, row) ==
    /\ row \in TurnRow /\ RowFits(row)
    /\ row.status # "none" /\ old.status # "none"
    /\ row.status = "running" => old.status = "running"
    /\ row.status \in Over => old.status \in Over
    /\ old.stop => row.stop \/ row.status \in Settled
    /\ old.status \in Settled => row.status \notin Active
    /\ Timely /\ old.status \in Settled =>
          row.status = old.status \/ (row.status = "queued" /\ acts' # acts)

(* A step on the row of one turn, by a person or by time.                  *)
LEMMA RowStep ==
    ASSUME Inv1, NEW t \in TurnIds, NEW row, RowGoes(turn[t], row),
           Alone(turn, t, row),
           turn' = [turn EXCEPT ![t] = row],
           item' = item, sent' = sent, attempt' = attempt, runner' = runner,
           command' \in [TurnIds -> SUBSET Commands], acts' \in 0 .. MaxActs,
           faults \subseteq faults', faults' \subseteq Faults,
           holder' \in [Holders -> HolderRow],
           \A h \in Holders : holder'[h] = holder[h] \/ HolderFits(h)'
    PROVE  Inv1' /\ Step1
  <1>1. TablesFit /\ TurnsFit(turn) /\ row \in TurnRow /\ RowFits(row)
    BY DEF Inv1, RowGoes
  <1>2. TablesFit'
    BY <1>1 DEF TablesFit
  <1>3. turn' = WithRow(turn, t, row)
    BY DEF WithRow
  <1>4. TurnsFit(turn') /\ \A u \in TurnIds : turn'[u] = IF u = t THEN row ELSE turn[u]
    <2>1. TurnsFit(WithRow(turn, t, row))
      BY <1>1, RowKeeps
    <2>2. \A u \in TurnIds : WithRow(turn, t, row)[u] = IF u = t THEN row ELSE turn[u]
      BY <1>1, RowKeeps
    <2> QED
      BY <1>3, <2>1, <2>2
  <1>5. TurnsFit(turn)' /\ \A u \in TurnIds : turn'[u] = IF u = t THEN row ELSE turn[u]
    BY <1>4 DEF TurnsFit, RowFits
  <1>6. Onward(turn, turn')
    <2>1. \A u \in TurnIds : turn[u].status \in Settled => turn[u].status \notin Active
      BY DEF Settled, Active
    <2> QED
      BY <1>5, <2>1 DEF Onward, RowGoes
  <1>7. Grows
    BY <1>1, Lengths DEF Grows
  <1>8. \A u \in TurnIds : /\ turn'[u].status = "none" <=> turn[u].status = "none"
                           /\ turn'[u].status = "running" => turn[u].status = "running"
                           /\ turn'[u].status \in Over => turn[u].status \in Over
    BY <1>5 DEF RowGoes
  <1>9. Inv1'
    <2>1. \A u \in TurnIds : attempt'[u] = attempt[u]
      OBVIOUS
    <2>2. \A i \in 1 .. Len(attempt'[t]) :
            i \in 1 .. Len(attempt[t]) /\ attempt'[t][i].runner = attempt[t][i].runner
      OBVIOUS
    <2> QED
      BY <1>1, <1>2, <1>5, <1>6, <1>7, <1>8, <2>1, <2>2, Together
  <1>10. Stays
    BY <1>5 DEF Stays, RowGoes
  <1> QED
    BY <1>6, <1>9, <1>10 DEF Step1

(* What the engine's writes do to the turns.                               *)
Drives(t) ==
    /\ TurnsFit(turn')
    /\ Onward(turn, turn')
    /\ \A u \in TurnIds :
         /\ turn[u].status \in Settled \/ turn'[u].status \in Settled =>
               turn'[u].status = turn[u].status
         /\ turn'[u].status = "none" <=> turn[u].status = "none"
         /\ turn'[u].status = "running" => turn[u].status = "running" \/ u = t

(* Nothing is one of them.                                                 *)
LEMMA DrivesNothing ==
    ASSUME Inv1, turn' = turn, NEW t
    PROVE  Drives(t)
  <1>1. TurnsFit(turn')
    BY DEF Inv1
  <1> QED
    BY <1>1 DEF Drives, Onward, Settled, Active

(* A step of the holder of t on its attempts, runners and commands.        *)
LEMMA EngineStep ==
    ASSUME Inv1, NEW h \in Holders, holder[h].pc # "idle", May(h),
           NEW t \in TurnIds, t = holder[h].turn, Drives(t),
           item' = item, sent' = sent, acts' = acts, faults' = faults,
           attempt' \in [TurnIds -> Seq(AttemptRow)],
           runner' \in [TurnIds -> Seq(RunnerRow)],
           command' \in [TurnIds -> SUBSET Commands],
           \A u \in TurnIds : u # t => attempt'[u] = attempt[u],
           \A u \in TurnIds : Len(runner'[u]) >= Len(runner[u]),
           Len(attempt'[t]) >= Len(attempt[t]),
           turn'[t].status = "running" => turn[t].status = "running" \/ Len(attempt'[t]) > 0,
           \A i \in 1 .. Len(attempt'[t]) :
                \/ i \in 1 .. Len(attempt[t]) /\ attempt'[t][i].runner = attempt[t][i].runner
                \/ attempt'[t][i].runner = None
                \/ attempt'[t][i].runner.at \in 1 .. Len(runner'[t]),
           NEW v \in HolderRow, holder' = [holder EXCEPT ![h] = v], HolderFits(h)'
    PROVE  Inv1' /\ Step1
  <1>1. TablesFit /\ faults \subseteq Faults
    BY DEF Inv1, TablesFit
  <1>2. \A g \in Holders : g # h => holder'[g] = holder[g]
    BY <1>1, HolderKeeps
  <1>3. TablesFit'
    BY <1>1, HolderKeeps DEF TablesFit
  <1>4. TurnsFit(turn)' /\ Onward(turn, turn')
    BY DEF Drives, TurnsFit, RowFits
  <1>5. Grows
    <2>1. \A u \in TurnIds : Len(attempt[u]) \in Nat
      BY <1>1, Lengths
    <2>2. ASSUME NEW u \in TurnIds PROVE Len(attempt'[u]) >= Len(attempt[u])
      <3>1. CASE u = t
        BY <3>1
      <3>2. CASE u # t
        <4>1. attempt'[u] = attempt[u]
          BY <3>2
        <4> QED
          BY <2>1, <4>1, SMTT(60)
      <3> QED
        BY <3>1, <3>2
    <2> QED
      BY <2>2 DEF Grows
  <1>6. \A u \in TurnIds : /\ turn'[u].status = "none" <=> turn[u].status = "none"
                           /\ turn'[u].status \in Over => turn[u].status \in Over
                           /\ turn'[u].status = "running" => turn[u].status = "running" \/ u = t
    BY DEF Drives, Over, Settled
  <1>7. Timely => turn'[t].status \notin Over
    <2>1. Timely => turn[t].status \in Active
      BY Driven
    <2> QED
      BY <2>1 DEF Drives, Active, Settled, Over
  <1>8. \A u \in TurnIds : turn'[u].status = "running" =>
            turn[u].status = "running" \/ Len(attempt'[u]) > 0
    BY <1>6
  <1>9. Inv1'
    <2>1. \A u \in TurnIds : turn'[u].status = "none" <=> turn[u].status = "none"
      BY <1>6
    <2>2. \A u \in TurnIds : turn'[u].status \in Over => turn[u].status \in Over
      BY <1>6
    <2>3. \A g \in Holders : holder'[g] = holder[g] \/ HolderFits(g)'
      BY <1>2
    <2>4. (Timely /\ t \in TurnIds /\ attempt'[t] # attempt[t]) => turn'[t].status \notin Over
      BY <1>7
    <2> QED
      BY <1>3, <1>4, <1>5, <1>8, <2>1, <2>2, <2>3, <2>4, Together
  <1>10. Stays
    BY DEF Stays, Drives
  <1> QED
    BY <1>4, <1>9, <1>10 DEF Step1

(* What PutActive writes.                                                  *)
Writers == {"attempt", "launch", "again", "ended", "killed"}

(* A turn that has settled stays; another is put to work, alone.           *)
LEMMA PutActiveKeeps ==
    ASSUME Inv1, NEW h \in Holders, holder[h].pc \in Writers, May(h),
           NEW t \in TurnIds, t = holder[h].turn, NEW s \in Active, NEW k \in Nat,
           \/ turn' = PutActive(t, s)
           \/ turn' = [PutActive(t, s) EXCEPT ![t].tries = k]
    PROVE  /\ Drives(t)
           /\ turn[t].status \notin Settled => turn'[t].status = s
           /\ \A u \in TurnIds : u # t => turn'[u] = turn[u]
           /\ turn'[t].stop = turn[t].stop /\ turn'[t].live = turn[t].live
           /\ turn'[t].token = turn[t].token
  <1> DEFINE q == IF turn[t].status \in Settled THEN turn[t].status ELSE s
             r == [turn[t] EXCEPT !.status = q]
             row == IF turn' = PutActive(t, s) THEN r ELSE [r EXCEPT !.tries = k]
  <1>1. TurnsFit(turn) /\ turn[t] \in TurnRow /\ RowFits(turn[t]) /\ turn[t].status # "none"
    BY Driven DEF Inv1, Writers
  <1>2. turn' = [turn EXCEPT ![t] = row]
    BY <1>1 DEF PutActive, TurnsFit
  <1>3. q \in Statuses /\ (turn[t].status \notin Settled => q = s)
        /\ (turn[t].status \in Settled => q = turn[t].status)
    BY <1>1 DEF Statuses, TurnRow
  <1> HIDE DEF q
  <1>4. /\ row \in TurnRow /\ row.status = q /\ row.stop = turn[t].stop
        /\ row.live = turn[t].live /\ row.token = turn[t].token
    BY <1>1, <1>3 DEF TurnRow
  <1> HIDE DEF row
  <1>5. RowFits(row)
    BY <1>1, <1>3, <1>4 DEF RowFits, Active, Settled
  <1>6. ASSUME row.status \in Active, NEW u \in TurnIds, turn[u].status \in Active
        PROVE  u = t
    <2>1. turn[t].status \notin Settled
      BY <1>3, <1>4, <1>6 DEF Active, Settled
    <2>2. ActiveTurns \ {t} = {}
      BY <2>1 DEF May, Clash, Writers
    <2> QED
      BY <1>6, <2>2 DEF ActiveTurns
  <1>11. Alone(turn, t, row)
    BY <1>6 DEF Alone
  <1>7. turn' = WithRow(turn, t, row)
    BY <1>2 DEF WithRow
  <1>8. TurnsFit(turn') /\ \A u \in TurnIds : turn'[u] = IF u = t THEN row ELSE turn[u]
    BY <1>1, <1>4, <1>5, <1>7, <1>11, RowKeeps
  <1>9. q # "none"
    BY <1>1, <1>3 DEF Active
  <1>10. Drives(t)
    <2>1. /\ turn[t].status \in Settled \/ q \in Settled => q = turn[t].status
          /\ turn[t].status \in Settled => q \notin Active
      BY <1>3 DEF Active, Settled
    <2>2. \A u \in TurnIds : turn[u].status \in Settled => turn[u].status \notin Active
      BY DEF Active, Settled
    <2>3. Onward(turn, turn')
      BY <1>4, <1>8, <1>9, <2>1, <2>2 DEF Onward
    <2> QED
      BY <1>1, <1>4, <1>8, <1>9, <2>1, <2>3 DEF Drives
  <1> QED
    BY <1>3, <1>4, <1>8, <1>10

-----------------------------------------------------------------------------
(* People and the queue: one row.                                          *)

(* What an act of a person and a fault count.                              *)
LEMMA Counts ==
    ASSUME TablesFit
    PROVE  /\ \A k : Act(k) => acts' \in 0 .. MaxActs /\ acts' # acts
           /\ \A k : Fault(k) => faults \subseteq faults' /\ faults' \subseteq Faults /\ k \in faults'
  BY BoundsAssumption DEF TablesFit, Act, Fault

(* A turn of the table.                                                    *)
LEMMA Rows ==
    ASSUME Inv1, NEW t \in TurnIds
    PROVE  turn[t] \in TurnRow /\ RowFits(turn[t])
  BY DEF Inv1, TurnsFit

(* A turn that waits goes on waiting, or is cancelled.                     *)
LEMMA WaitingGoes ==
    ASSUME Inv1, NEW t \in TurnIds, turn[t].status \in {"queued", "held"},
           NEW row, row \in TurnRow, row.status \in {"queued", "held", "cancelled"},
           row.live = turn[t].live, row.stop = turn[t].stop
    PROVE  RowGoes(turn[t], row) /\ Alone(turn, t, row)
  <1>1. RowFits(turn[t])
    BY Rows
  <1> QED
    BY <1>1 DEF RowGoes, RowFits, Alone, Active, Settled, Over

(* A turn whose lease ends.                                                *)
LEMMA UnleasedGoes ==
    ASSUME Inv1, NEW t \in TurnIds, turn[t].status # "none"
    PROVE  LET row == [turn[t] EXCEPT !.live = FALSE]
           IN  RowGoes(turn[t], row) /\ Alone(turn, t, row)
  <1> DEFINE row == [turn[t] EXCEPT !.live = FALSE]
  <1>1. turn[t] \in TurnRow /\ RowFits(turn[t])
    BY Rows
  <1>2. row \in TurnRow /\ row.status = turn[t].status /\ row.stop = turn[t].stop /\ ~row.live
    BY <1>1 DEF TurnRow
  <1> HIDE DEF row
  <1>3. RowGoes(turn[t], row)
    BY <1>1, <1>2 DEF RowGoes, RowFits, Active, Settled
  <1>4. Alone(turn, t, row)
    BY <1>2 DEF Alone, Inv1, TurnsFit
  <1> QED
    BY <1>3, <1>4 DEF row

(* Cancelling.                                                             *)
LEMMA CancelQueuedKeeps ==
    ASSUME Inv1, NEW t \in TurnIds, CancelQueued(t)
    PROVE  Inv1' /\ Step1
  <1> DEFINE row == [turn[t] EXCEPT !.status = "cancelled"]
  <1>1. TablesFit /\ turn[t] \in TurnRow /\ turn \in [TurnIds -> TurnRow]
    BY Rows DEF Inv1, TurnsFit
  <1>2. row \in TurnRow /\ row.status = "cancelled" /\ row.live = turn[t].live /\ row.stop = turn[t].stop
    BY <1>1 DEF TurnRow, Statuses, Settled
  <1>3. turn' = [turn EXCEPT ![t] = row] /\ turn[t].status \in {"queued", "held"}
    BY <1>1 DEF CancelQueued
  <1> HIDE DEF row
  <1>4. RowGoes(turn[t], row) /\ Alone(turn, t, row)
    BY <1>2, <1>3, WaitingGoes
  <1>5. /\ item' = item /\ sent' = sent /\ attempt' = attempt /\ runner' = runner
        /\ command' \in [TurnIds -> SUBSET Commands] /\ acts' \in 0 .. MaxActs
        /\ faults \subseteq faults' /\ faults' \subseteq Faults
        /\ holder' = holder /\ holder' \in [Holders -> HolderRow]
    BY <1>1, Counts DEF CancelQueued, TablesFit
  <1>6. \A h \in Holders : holder'[h] = holder[h] \/ HolderFits(h)'
    BY <1>5
  <1> QED
    BY <1>3, <1>4, <1>5, <1>6, RowStep

(* Editing.                                                                *)
LEMMA HoldKeeps ==
    ASSUME Inv1, NEW t \in TurnIds, Hold(t)
    PROVE  Inv1' /\ Step1
  <1> DEFINE row == [turn[t] EXCEPT !.status = "held", !.fresh = TRUE]
  <1>1. TablesFit /\ turn[t] \in TurnRow /\ turn \in [TurnIds -> TurnRow]
    BY Rows DEF Inv1, TurnsFit
  <1>2. row \in TurnRow /\ row.status = "held" /\ row.live = turn[t].live /\ row.stop = turn[t].stop
    BY <1>1 DEF TurnRow, Statuses
  <1>3. turn' = [turn EXCEPT ![t] = row] /\ turn[t].status \in {"queued", "held"}
    BY <1>1 DEF Hold
  <1> HIDE DEF row
  <1>4. RowGoes(turn[t], row) /\ Alone(turn, t, row)
    BY <1>2, <1>3, WaitingGoes
  <1>5. /\ item' = item /\ sent' = sent /\ attempt' = attempt /\ runner' = runner
        /\ command' \in [TurnIds -> SUBSET Commands] /\ acts' \in 0 .. MaxActs
        /\ faults \subseteq faults' /\ faults' \subseteq Faults
        /\ holder' = holder /\ holder' \in [Holders -> HolderRow]
    BY <1>1, Counts DEF Hold, TablesFit
  <1>6. \A h \in Holders : holder'[h] = holder[h] \/ HolderFits(h)'
    BY <1>5
  <1> QED
    BY <1>3, <1>4, <1>5, <1>6, RowStep

(* The edit is over.                                                       *)
LEMMA UnholdKeeps ==
    ASSUME Inv1, NEW t \in TurnIds, Unhold(t)
    PROVE  Inv1' /\ Step1
  <1> DEFINE row == [turn[t] EXCEPT !.status = "queued", !.fresh = FALSE]
  <1>1. TablesFit /\ turn[t] \in TurnRow /\ turn \in [TurnIds -> TurnRow]
    BY Rows DEF Inv1, TurnsFit
  <1>2. row \in TurnRow /\ row.status = "queued" /\ row.live = turn[t].live /\ row.stop = turn[t].stop
    BY <1>1 DEF TurnRow, Statuses
  <1>3. turn' = [turn EXCEPT ![t] = row] /\ turn[t].status \in {"queued", "held"}
    BY <1>1 DEF Unhold
  <1> HIDE DEF row
  <1>4. RowGoes(turn[t], row) /\ Alone(turn, t, row)
    BY <1>2, <1>3, WaitingGoes
  <1>5. /\ item' = item /\ sent' = sent /\ attempt' = attempt /\ runner' = runner
        /\ command' \in [TurnIds -> SUBSET Commands] /\ acts' \in 0 .. MaxActs
        /\ faults \subseteq faults' /\ faults' \subseteq Faults
        /\ holder' = holder /\ holder' \in [Holders -> HolderRow]
    BY <1>1, Counts DEF Unhold, TablesFit
  <1>6. \A h \in Holders : holder'[h] = holder[h] \/ HolderFits(h)'
    BY <1>5
  <1> QED
    BY <1>3, <1>4, <1>5, <1>6, RowStep

(* Time passes for a turn that waits.                                      *)
LEMMA FallsDueKeeps ==
    ASSUME Inv1, NEW t \in TurnIds, FallsDue(t)
    PROVE  Inv1' /\ Step1
  <1> DEFINE row == IF turn[t].status = "queued" THEN [turn[t] EXCEPT !.due = TRUE]
                    ELSE [turn[t] EXCEPT !.fresh = FALSE]
  <1>1. TablesFit /\ turn[t] \in TurnRow /\ turn \in [TurnIds -> TurnRow]
    BY Rows DEF Inv1, TurnsFit
  <1>2. /\ row \in TurnRow /\ row.status = turn[t].status
        /\ row.live = turn[t].live /\ row.stop = turn[t].stop
    BY <1>1 DEF TurnRow
  <1>3. turn' = [turn EXCEPT ![t] = row] /\ turn[t].status \in {"queued", "held"}
    BY <1>1 DEF FallsDue
  <1> HIDE DEF row
  <1>4. RowGoes(turn[t], row) /\ Alone(turn, t, row)
    BY <1>2, <1>3, WaitingGoes
  <1>5. /\ item' = item /\ sent' = sent /\ attempt' = attempt /\ runner' = runner
        /\ command' \in [TurnIds -> SUBSET Commands] /\ acts' \in 0 .. MaxActs
        /\ faults \subseteq faults' /\ faults' \subseteq Faults
        /\ holder' = holder /\ holder' \in [Holders -> HolderRow]
    BY <1>1 DEF FallsDue, TablesFit
  <1>6. \A h \in Holders : holder'[h] = holder[h] \/ HolderFits(h)'
    BY <1>5
  <1> QED
    BY <1>3, <1>4, <1>5, <1>6, RowStep

(* A person has the turn again.                                            *)
LEMMA RetryKeeps ==
    ASSUME Inv1, NEW t \in TurnIds, Retry(t)
    PROVE  Inv1' /\ Step1
  <1> DEFINE row == [turn[t] EXCEPT !.status = "queued", !.prio = 1, !.due = TRUE, !.stop = FALSE]
  <1>1. TablesFit /\ turn[t] \in TurnRow /\ turn \in [TurnIds -> TurnRow] /\ RowFits(turn[t])
    BY Rows DEF Inv1, TurnsFit
  <1>2. row \in TurnRow /\ row.status = "queued" /\ row.live = turn[t].live /\ row.stop = FALSE
    BY <1>1 DEF TurnRow, Statuses
  <1>3. turn' = [turn EXCEPT ![t] = row] /\ turn[t].status \in {"failed", "interrupted"}
    BY <1>1 DEF Retry
  <1> HIDE DEF row
  <1>4. /\ item' = item /\ sent' = sent /\ attempt' = attempt /\ runner' = runner
        /\ command' \in [TurnIds -> SUBSET Commands] /\ acts' \in 0 .. MaxActs /\ acts' # acts
        /\ faults \subseteq faults' /\ faults' \subseteq Faults
        /\ holder' = holder /\ holder' \in [Holders -> HolderRow]
    BY <1>1, Counts DEF Retry, TablesFit
  <1>5. RowGoes(turn[t], row) /\ Alone(turn, t, row)
    BY <1>1, <1>2, <1>3, <1>4 DEF RowGoes, RowFits, Alone, Active, Settled, Over
  <1>6. \A h \in Holders : holder'[h] = holder[h] \/ HolderFits(h)'
    BY <1>4
  <1> QED
    BY <1>3, <1>4, <1>5, <1>6, RowStep

(* A lease nobody renews.                                                  *)
LEMMA LapseKeeps ==
    ASSUME Inv1, NEW t \in TurnIds, Lapse(t)
    PROVE  Inv1' /\ Step1
  <1> DEFINE row == [turn[t] EXCEPT !.live = FALSE]
  <1>1. TablesFit /\ turn[t] \in TurnRow /\ turn \in [TurnIds -> TurnRow] /\ RowFits(turn[t])
    BY Rows DEF Inv1, TurnsFit
  <1>2. turn' = [turn EXCEPT ![t] = row] /\ turn[t].status # "none"
    BY <1>1 DEF Lapse, RowFits, Active
  <1>3. RowGoes(turn[t], row) /\ Alone(turn, t, row)
    BY <1>2, UnleasedGoes
  <1> HIDE DEF row
  <1>4. /\ item' = item /\ sent' = sent /\ attempt' = attempt /\ runner' = runner
        /\ command' \in [TurnIds -> SUBSET Commands] /\ acts' \in 0 .. MaxActs
        /\ faults \subseteq faults' /\ faults' \subseteq Faults
        /\ holder' = holder /\ holder' \in [Holders -> HolderRow]
    BY <1>1 DEF Lapse, TablesFit
  <1>5. \A h \in Holders : holder'[h] = holder[h] \/ HolderFits(h)'
    BY <1>4
  <1> QED
    BY <1>2, <1>3, <1>4, <1>5, RowStep

(* A turn is leased.                                                       *)
LEMMA ClaimKeeps ==
    ASSUME Inv1, NEW h \in Holders, Claim(h)
    PROVE  Inv1' /\ Step1
  <1>1. PICK t \in Claimable :
           /\ turn' = [turn EXCEPT
                ![t].status = IF @ = "queued" THEN "preparing" ELSE @,
                ![t].stop = IF turn[t].status = "queued" THEN FALSE ELSE @,
                ![t].token = h, ![t].live = TRUE]
           /\ holder' = [holder EXCEPT ![h] = [Idle EXCEPT !.pc = "load", !.turn = t]]
    BY DEF Claim
  <1>2. \/ t \in ActiveTurns
        \/ ActiveTurns = {} /\ t \in Ready
    BY DEF Claimable
  <1>3. t \in TurnIds /\ (turn[t].status \in Active \/ (ActiveTurns = {} /\ turn[t].status = "queued"))
    BY <1>2 DEF ActiveTurns, Ready
  <1> DEFINE row == [turn[t] EXCEPT !.status = IF @ = "queued" THEN "preparing" ELSE @,
                                    !.stop = IF turn[t].status = "queued" THEN FALSE ELSE @,
                                    !.token = h, !.live = TRUE]
             v == [Idle EXCEPT !.pc = "load", !.turn = t]
  <1>4. TablesFit /\ turn[t] \in TurnRow /\ turn \in [TurnIds -> TurnRow] /\ RowFits(turn[t])
    BY <1>3, Rows DEF Inv1, TurnsFit
  <1>5. /\ row \in TurnRow /\ row.status \in Active
        /\ turn[t].status \in Active => row.status = turn[t].status
        /\ turn[t].status = "queued" => row.status = "preparing"
        /\ turn[t].stop => row.stop
    BY <1>3, <1>4 DEF TurnRow, Statuses, Active, RowFits
  <1>6. turn' = [turn EXCEPT ![t] = row]
    BY <1>1, <1>3, <1>4
  <1> HIDE DEF row
  <1>7. RowGoes(turn[t], row)
    BY <1>3, <1>4, <1>5 DEF RowGoes, RowFits, Active, Settled, Over
  <1>8. Alone(turn, t, row)
    <2>1. CASE turn[t].status \in Active
      BY <1>3, <2>1 DEF Alone, Inv1, TurnsFit
    <2>2. CASE ActiveTurns = {}
      BY <2>2 DEF Alone, ActiveTurns
    <2> QED
      BY <1>3, <2>1, <2>2
  <1>9. v \in HolderRow /\ v.pc = "load" /\ v.turn = t /\ v.n = 0 /\ v.inflight = FALSE /\ v.chan = 0
    <2>1. "load" \in Places
      BY DEF Places
    <2> QED
      BY <1>3, <2>1, IdleRow
  <1>10. holder' = [holder EXCEPT ![h] = v]
    BY <1>1
  <1> HIDE DEF v
  <1>11. /\ item' = item /\ sent' = sent /\ attempt' = attempt /\ runner' = runner
         /\ command' \in [TurnIds -> SUBSET Commands] /\ acts' \in 0 .. MaxActs
         /\ faults \subseteq faults' /\ faults' \subseteq Faults
    BY <1>4 DEF Claim, TablesFit
  <1>12. holder' \in [Holders -> HolderRow] /\ holder'[h] = v
         /\ \A g \in Holders : g # h => holder'[g] = holder[g]
    BY <1>4, <1>9, <1>10, HolderKeeps
  <1>13. HolderFits(h)'
    <2>1. turn'[t] = row /\ row.status # "none"
      BY <1>3, <1>4, <1>5, <1>6 DEF Active
    <2>2. Len(attempt'[t]) \in Nat /\ Len(runner'[t]) \in Nat
      BY <1>3, <1>4, <1>11, Lengths
    <2>3. 0 \in 0 .. Len(attempt'[t]) /\ 0 \in 0 .. Len(runner'[t])
      BY <2>2
    <2> QED
      BY <1>3, <1>9, <1>12, <2>1, <2>3 DEF HolderFits
  <1>14. \A g \in Holders : holder'[g] = holder[g] \/ HolderFits(g)'
    BY <1>12, <1>13
  <1> QED
    BY <1>3, <1>6, <1>7, <1>8, <1>11, <1>12, <1>14, RowStep

-----------------------------------------------------------------------------
(* Holders that leave, stall and stop.                                     *)

(* A runner's phase changes.                                               *)
LEMMA PhaseKeeps ==
    ASSUME TablesFit, NEW t \in TurnIds, NEW c \in 1 .. Len(runner[t]), NEW p \in Phases,
           runner' = [runner EXCEPT ![t][c].phase = p]
    PROVE  /\ runner' \in [TurnIds -> Seq(RunnerRow)]
           /\ \A u \in TurnIds : (u # t => runner'[u] = runner[u]) /\ Len(runner'[u]) = Len(runner[u])
           /\ runner'[t][c] = [runner[t][c] EXCEPT !.phase = p]
           /\ \A i \in 1 .. Len(runner[t]) : i # c => runner'[t][i] = runner[t][i]
  <1> DEFINE row == [runner[t][c] EXCEPT !.phase = p]
  <1>1. row \in RunnerRow
    BY Lengths, SMTT(60) DEF RunnerRow
  <1>2. runner' = WithPlace(runner, t, c, row)
    BY DEF WithPlace
  <1> HIDE DEF row
  <1>3. /\ runner' \in [TurnIds -> Seq(RunnerRow)]
        /\ \A u \in TurnIds : (u # t => runner'[u] = runner[u]) /\ Len(runner'[u]) = Len(runner[u])
        /\ runner'[t][c] = row
        /\ \A i \in 1 .. Len(runner[t]) : i # c => runner'[t][i] = runner[t][i]
    <2>1. RunnerPut(t, c, row)
      BY <1>1, <1>2, RunnerWrite
    <2> QED
      BY <2>1 DEF RunnerPut
  <1> QED
    BY <1>3 DEF row

(* A runner is killed, or its signal is lost.                              *)
LEMMA KilledKeeps ==
    ASSUME TablesFit, NEW t \in TurnIds, NEW c \in 1 .. Len(runner[t]), runner' \in Killed(t, c)
    PROVE  \E row \in RunnerRow :
                /\ RunnerPut(t, c, row)
                /\ \/ row = [runner[t][c] EXCEPT !.phase = "gone"]
                   \/ row = [runner[t][c] EXCEPT !.left = TRUE]
  <1> DEFINE gone == [runner[t][c] EXCEPT !.phase = "gone"]
             left == [runner[t][c] EXCEPT !.left = TRUE]
  <1>1. gone \in RunnerRow /\ left \in RunnerRow
    <2> DEFINE r == runner[t][c]
    <2>1. r \in RunnerRow
      BY Lengths
    <2>2. "gone" \in Phases
      BY DEF Phases
    <2> HIDE DEF r
    <2>3. [r EXCEPT !.phase = "gone"] \in RunnerRow
      BY <2>1, <2>2 DEF RunnerRow
    <2>4. [r EXCEPT !.left = TRUE] \in RunnerRow
      BY <2>1 DEF RunnerRow
    <2> QED
      BY <2>3, <2>4 DEF r
  <1>2. runner' = WithPlace(runner, t, c, gone) \/ runner' = WithPlace(runner, t, c, left)
    <2>1. \/ runner' = [runner EXCEPT ![t][c].phase = "gone"]
          \/ runner' = [runner EXCEPT ![t][c].left = TRUE]
      BY Zenon DEF Killed
    <2> QED
      BY <2>1 DEF WithPlace
  <1>3. PICK row \in RunnerRow : (row = gone \/ row = left) /\ runner' = WithPlace(runner, t, c, row)
    <2> HIDE DEF gone, left
    <2> QED
      BY <1>1, <1>2
  <1>4. RunnerPut(t, c, row)
    BY <1>3, RunnerWrite
  <1> QED
    BY <1>3, <1>4

(* A holder gives its turn up, or dies.                                    *)
LEMMA IdleKeeps ==
    ASSUME Inv1, NEW h \in Holders, holder' = [holder EXCEPT ![h] = Idle],
           turn' = turn, item' = item, sent' = sent, attempt' = attempt, command' = command,
           runner' = runner, acts' = acts, faults \subseteq faults', faults' \subseteq Faults
    PROVE  Inv1' /\ Step1
  <1>1. TablesFit
    BY DEF Inv1
  <1>2. Idle \in HolderRow /\ Idle.pc = "idle"
    BY IdleRow
  <1>3. holder'[h] = Idle
    BY <1>1, <1>2, HolderKeeps
  <1>4. HolderFits(h)'
    BY <1>2, <1>3 DEF HolderFits
  <1>5. runner' \in [TurnIds -> Seq(RunnerRow)] /\ \A t \in TurnIds : Len(runner'[t]) = Len(runner[t])
    BY <1>1 DEF TablesFit
  <1> QED
    BY <1>2, <1>4, <1>5, HolderStep

(* A holder whose lease ended leaves.                                      *)
LEMMA LeaveKeeps ==
    ASSUME Inv1, NEW h \in Holders, Leave(h)
    PROVE  Inv1' /\ Step1
  <1>1. faults \subseteq faults' /\ faults' \subseteq Faults
    BY DEF Inv1, TablesFit, Leave
  <1> QED
    BY <1>1, IdleKeeps DEF Leave

(* A process dies.                                                         *)
LEMMA CrashKeeps ==
    ASSUME Inv1, NEW h \in Holders, Crash(h)
    PROVE  Inv1' /\ Step1
  <1>1. TablesFit
    BY DEF Inv1
  <1>2. faults \subseteq faults' /\ faults' \subseteq Faults
    BY <1>1, Counts DEF Crash
  <1> QED
    BY <1>2, IdleKeeps DEF Crash

(* A lease ends while its holder does something else, or nothing more.     *)
LEMMA UnleasedKeeps ==
    ASSUME Inv1, NEW h \in Holders, holder[h].pc # "idle", NEW v \in HolderRow,
           holder' = [holder EXCEPT ![h] = v],
           v = Idle \/ v = holder[h] \/ (v = [holder[h] EXCEPT !.inflight = TRUE] /\ "stall" \in faults'),
           turn' = [turn EXCEPT ![holder[h].turn].live = FALSE],
           item' = item, sent' = sent, attempt' = attempt, command' = command,
           runner' = runner, acts' = acts, faults \subseteq faults', faults' \subseteq Faults
    PROVE  Inv1' /\ Step1
  <1> DEFINE t == holder[h].turn
             row == [turn[t] EXCEPT !.live = FALSE]
  <1>1. TablesFit /\ t \in TurnIds /\ turn[t] \in TurnRow /\ turn[t].status # "none"
        /\ turn \in [TurnIds -> TurnRow] /\ HolderFits(h)
    BY Driven DEF Inv1, TurnsFit
  <1>2. turn' = [turn EXCEPT ![t] = row]
    OBVIOUS
  <1>3. RowGoes(turn[t], row) /\ Alone(turn, t, row)
    BY <1>1, UnleasedGoes
  <1>4. turn'[t].status # "none"
    BY <1>1, <1>2 DEF TurnRow
  <1>5. /\ holder' \in [Holders -> HolderRow] /\ holder'[h] = v
        /\ \A g \in Holders : g # h => holder'[g] = holder[g]
    BY <1>1, HolderKeeps
  <1>6. holder'[h] = holder[h] \/ HolderFits(h)'
    <2>1. CASE v = Idle
      BY <1>5, <2>1, IdleRow DEF HolderFits
    <2>2. CASE v = holder[h]
      BY <1>5, <2>2
    <2>3. CASE v = [holder[h] EXCEPT !.inflight = TRUE] /\ "stall" \in faults'
      <3>1. /\ v.pc = holder[h].pc /\ v.turn = t /\ v.n = holder[h].n /\ v.chan = holder[h].chan
            /\ v.mem = holder[h].mem /\ v.outcome = holder[h].outcome
        BY <1>1, <2>3 DEF TablesFit, HolderRow
      <3>2. /\ v.n \in 0 .. Len(attempt[t])
            /\ v.chan \in 0 .. Len(runner[t])
            /\ v.pc \in {"ended", "killed", "settle", "refuse"} => v.outcome \in Outcomes
            /\ v.pc = "refused" => v.outcome \in Messages
            /\ v.pc \in {"launch", "start", "pump", "refused", "ended"} => v.mem \in RunnerStates
            /\ v.pc \notin {"load", "attempt", "settle"} => v.n # 0
            /\ v.pc \in {"start", "pump", "refused", "ended"} =>
                  v.mem.at \in 1 .. Len(runner[t]) /\ v.chan = v.mem.at
            /\ v.pc \in {"load", "attempt", "prepare"} => v.chan = 0
        BY <1>1, <3>1 DEF HolderFits
      <3> HIDE DEF t, row
      <3> QED
        BY <1>1, <1>4, <1>5, <2>3, <3>1, <3>2 DEF HolderFits
    <2> QED
      BY <2>1, <2>2, <2>3
  <1>7. command' \in [TurnIds -> SUBSET Commands] /\ acts' \in 0 .. MaxActs
    BY <1>1 DEF TablesFit
  <1>8. \A g \in Holders : holder'[g] = holder[g] \/ HolderFits(g)'
    BY <1>5, <1>6
  <1> HIDE DEF t, row
  <1> QED
    BY <1>1, <1>2, <1>3, <1>5, <1>7, <1>8, RowStep

(* A transaction stalls until its lease is over.                           *)
LEMMA StallKeeps ==
    ASSUME Inv1, NEW h \in Holders, Stall(h)
    PROVE  Inv1' /\ Step1
  <1> DEFINE v == [holder[h] EXCEPT !.inflight = TRUE]
  <1>1. TablesFit /\ holder[h].pc # "idle" /\ holder[h] \in HolderRow
    BY DEF Stall, Writing, Inv1, TablesFit
  <1>2. faults \subseteq faults' /\ faults' \subseteq Faults /\ "stall" \in faults'
    BY <1>1, Counts DEF Stall
  <1>3. v \in HolderRow
    BY <1>1 DEF HolderRow
  <1>4. holder' = [holder EXCEPT ![h] = v] /\ turn' = [turn EXCEPT ![holder[h].turn].live = FALSE]
    BY DEF Stall
  <1>5. /\ item' = item /\ sent' = sent /\ attempt' = attempt /\ command' = command
        /\ runner' = runner /\ acts' = acts
    BY DEF Stall
  <1>6. v = Idle \/ v = holder[h] \/ (v = [holder[h] EXCEPT !.inflight = TRUE] /\ "stall" \in faults')
    BY <1>2
  <1> HIDE DEF v
  <1> QED
    BY <1>1, <1>2, <1>3, <1>4, <1>5, <1>6, UnleasedKeeps

(* A holder that writes nothing but a command.                             *)
LEMMA CommandKeeps ==
    ASSUME Inv1, command' \in [TurnIds -> SUBSET Commands], turn' = turn, item' = item,
           sent' = sent, attempt' = attempt, holder' = holder, runner' = runner,
           acts' \in 0 .. MaxActs, faults \subseteq faults', faults' \subseteq Faults
    PROVE  Inv1' /\ Step1
  <1>1. TablesFit /\ TurnsFit(turn)
    BY DEF Inv1
  <1>2. TablesFit'
    BY <1>1 DEF TablesFit
  <1>3. Onward(turn, turn')
    BY DEF Onward, Settled, Active
  <1>4. Grows
    BY <1>1, Lengths DEF Grows
  <1>5. TurnsFit(turn)'
    BY <1>1 DEF TurnsFit, RowFits
  <1>6. Inv1'
    <2> DEFINE t == None
    <2>1. \A i \in 1 .. Len(attempt'[t]) :
            i \in 1 .. Len(attempt[t]) /\ attempt'[t][i].runner = attempt[t][i].runner
      OBVIOUS
    <2> HIDE DEF t
    <2> QED
      BY <1>2, <1>3, <1>4, <1>5, <2>1, Together
  <1> QED
    BY <1>3, <1>6 DEF Step1, Stays

(* A replica stops.                                                        *)
LEMMA StopKeeps ==
    ASSUME Inv1, NEW h \in Holders, Stop(h)
    PROVE  Inv1' /\ Step1
  <1>1. TablesFit /\ holder[h].pc # "idle" /\ holder[h] \in HolderRow /\ holder[h].turn \in TurnIds
    BY Driven DEF Stop, Owns, Inv1, TablesFit
  <1>2. faults \subseteq faults' /\ faults' \subseteq Faults
    BY <1>1, Counts DEF Stop
  <1>3. item' = item /\ sent' = sent /\ attempt' = attempt /\ runner' = runner /\ acts' = acts
    BY DEF Stop
  <1>4. CASE /\ turn' = [turn EXCEPT ![holder[h].turn].live = FALSE]
             /\ holder' = [holder EXCEPT ![h] = IF @.pc = "start" THEN @ ELSE Idle]
             /\ UNCHANGED command
    <2> DEFINE v == IF holder[h].pc = "start" THEN holder[h] ELSE Idle
    <2>1. holder' = [holder EXCEPT ![h] = v]
      BY <1>4
    <2>2. v \in HolderRow /\ (v = Idle \/ v = holder[h])
      BY <1>1, IdleRow
    <2>3. turn' = [turn EXCEPT ![holder[h].turn].live = FALSE] /\ command' = command
      BY <1>4
    <2> HIDE DEF v
    <2> QED
      BY <1>1, <1>2, <1>3, <2>1, <2>2, <2>3, UnleasedKeeps
  <1>5. CASE /\ command' = [command EXCEPT ![holder[h].turn] = @ \cup {<<"interrupt">>}]
             /\ UNCHANGED <<turn, holder>>
    <2>1. command' \in [TurnIds -> SUBSET Commands]
      BY <1>1, <1>5 DEF TablesFit, Commands
    <2>2. acts' \in 0 .. MaxActs
      BY <1>1, <1>3 DEF TablesFit
    <2> QED
      BY <1>2, <1>3, <1>5, <2>1, <2>2, CommandKeeps
  <1> QED
    BY <1>4, <1>5 DEF Stop

(* A machine cannot be reached.                                            *)
LEMMA DisconnectedKeeps ==
    ASSUME Inv1, NEW h \in Holders, Disconnected(h)
    PROVE  Inv1' /\ Step1
  <1>1. holder[h].pc # "idle" /\ holder' = [holder EXCEPT ![h] = Idle] /\ Idle \in HolderRow
    BY IdleRow DEF Disconnected
  <1>2. /\ item' = item /\ sent' = sent /\ attempt' = attempt /\ command' = command
        /\ runner' = runner /\ acts' = acts /\ faults \subseteq faults' /\ faults' \subseteq Faults
    BY DEF Disconnected, Inv1, TablesFit
  <1>3. CASE turn' = [turn EXCEPT ![holder[h].turn].live = FALSE]
    BY <1>1, <1>2, <1>3, UnleasedKeeps
  <1>4. CASE turn' = turn
    BY <1>1, <1>2, <1>4, IdleKeeps
  <1> QED
    BY <1>3, <1>4 DEF Disconnected

-----------------------------------------------------------------------------
(* Steps of one holder.                                                    *)

(* What a holder in a place has.                                           *)
LEMMA InPlace ==
    ASSUME Inv1, NEW h \in Holders, holder[h].pc # "idle"
    PROVE  LET v == holder[h]
               t == v.turn
           IN  /\ TablesFit /\ v \in HolderRow /\ t \in TurnIds /\ turn[t].status # "none"
               /\ v.n \in 0 .. Len(attempt[t]) /\ v.n \in Nat
               /\ v.chan \in 0 .. Len(runner[t])
               /\ v.pc \in {"ended", "killed", "settle", "refuse"} => v.outcome \in Outcomes
               /\ v.pc = "refused" => v.outcome \in Messages
               /\ v.pc \in {"launch", "start", "pump", "refused", "ended"} => v.mem \in RunnerStates
               /\ v.pc \notin {"load", "attempt", "settle"} =>
                    v.n # 0 /\ v.n \in 1 .. Len(attempt[t]) /\ attempt[t][v.n] \in AttemptRow
               /\ v.pc \in {"start", "pump", "refused", "ended"} =>
                    /\ v.mem.at \in 1 .. Len(runner[t]) /\ v.chan = v.mem.at
                    /\ v.chan \in 1 .. Len(runner[t]) /\ runner[t][v.chan] \in RunnerRow
               /\ v.pc \in {"load", "attempt", "prepare"} => v.chan = 0
               /\ v.inflight => "stall" \in faults
  <1> DEFINE v == holder[h]
             t == v.turn
  <1>1. TablesFit /\ HolderFits(h) /\ v \in HolderRow
    BY DEF Inv1, TablesFit
  <1>2. t \in TurnIds /\ turn[t].status # "none"
    BY <1>1 DEF HolderFits
  <1>3. Len(attempt[t]) \in Nat /\ Len(runner[t]) \in Nat
    BY <1>1, <1>2, Lengths
  <1>4. v.n \in 0 .. Len(attempt[t]) /\ (v.pc \notin {"load", "attempt", "settle"} => v.n # 0)
    BY <1>1 DEF HolderFits
  <1>5. v.pc \notin {"load", "attempt", "settle"} => v.n \in 1 .. Len(attempt[t])
    BY <1>3, <1>4
  <1>6. v.n \in 1 .. Len(attempt[t]) => attempt[t][v.n] \in AttemptRow
    BY <1>1, <1>2, Lengths
  <1>7. v.chan \in 1 .. Len(runner[t]) => runner[t][v.chan] \in RunnerRow
    BY <1>1, <1>2, Lengths
  <1>8. /\ v.pc \in {"ended", "killed", "settle", "refuse"} => v.outcome \in Outcomes
        /\ v.pc = "refused" => v.outcome \in Messages
        /\ v.pc \in {"launch", "start", "pump", "refused", "ended"} => v.mem \in RunnerStates
        /\ v.pc \in {"start", "pump", "refused", "ended"} =>
              v.mem.at \in 1 .. Len(runner[t]) /\ v.chan = v.mem.at
        /\ v.pc \in {"load", "attempt", "prepare"} => v.chan = 0
        /\ v.inflight => "stall" \in faults
        /\ v.chan \in 0 .. Len(runner[t])
    BY <1>1 DEF HolderFits
  <1>9. v.n \in Nat
    BY <1>1, HolderFields
  <1> QED
    BY <1>1, <1>2, <1>4, <1>5, <1>6, <1>7, <1>8, <1>9

(* A holder goes on with its turn, and nothing else changes.               *)
LEMMA GoesOn ==
    ASSUME Inv1, NEW h \in Holders, holder[h].pc # "idle",
           NEW v \in HolderRow, holder' = [holder EXCEPT ![h] = v],
           turn' = turn, item' = item, sent' = sent, attempt' = attempt, command' = command,
           runner' \in [TurnIds -> Seq(RunnerRow)],
           \A u \in TurnIds : Len(runner'[u]) = Len(runner[u]),
           acts' = acts, faults \subseteq faults', faults' \subseteq Faults,
           v.turn = holder[h].turn, v.inflight = holder[h].inflight,
           v.n \in 0 .. Len(attempt[v.turn]),
           v.chan = holder[h].chan \/ v.chan \in 1 .. Len(runner[v.turn]),
           v.pc \in {"ended", "killed", "settle", "refuse"} => v.outcome \in Outcomes,
           v.pc = "refused" => v.outcome \in Messages,
           v.pc \in {"launch", "start", "pump", "refused", "ended"} => v.mem \in RunnerStates,
           v.pc \notin {"load", "attempt", "settle"} => v.n # 0,
           v.pc \in {"load", "attempt", "prepare"} => v.chan = 0,
           v.pc \in {"start", "pump", "refused", "ended"} =>
                v.mem.at \in 1 .. Len(runner[v.turn]) /\ v.chan = v.mem.at
    PROVE  Inv1' /\ Step1
  <1>1. TablesFit /\ v.turn \in TurnIds /\ turn[v.turn].status # "none"
        /\ (holder[h].inflight => "stall" \in faults)
        /\ holder[h].chan \in 0 .. Len(runner[v.turn])
    BY InPlace
  <1>2. holder'[h] = v
    BY <1>1, HolderKeeps
  <1>3. Len(runner'[v.turn]) = Len(runner[v.turn]) /\ v.chan \in 0 .. Len(runner'[v.turn])
    BY <1>1
  <1>4. v.inflight => "stall" \in faults'
    BY <1>1
  <1>5. v.pc \in {"start", "pump", "refused", "ended"} =>
            v.mem.at \in 1 .. Len(runner'[v.turn]) /\ v.chan = v.mem.at
    BY <1>3
  <1>6. HolderFits(h)'
    BY <1>1, <1>2, <1>3, <1>4, <1>5 DEF HolderFits
  <1> QED
    BY <1>6, HolderStep

(* A holder reads where its turn stands.                                   *)
LEMMA LoadKeeps ==
    ASSUME Inv1, NEW h \in Holders, Load(h)
    PROVE  Inv1' /\ Step1
  <1> DEFINE t == holder[h].turn
             n == Len(attempt[t])
  <1>1. /\ TablesFit /\ holder[h] \in HolderRow /\ holder[h].pc # "idle" /\ t \in TurnIds
        /\ turn' = turn /\ item' = item /\ sent' = sent /\ attempt' = attempt
        /\ command' = command /\ runner' = runner /\ acts' = acts /\ faults' = faults
        /\ holder[h].chan = 0
    BY InPlace DEF Load
  <1>2. /\ runner' \in [TurnIds -> Seq(RunnerRow)] /\ faults \subseteq faults'
        /\ faults' \subseteq Faults
    BY <1>1 DEF TablesFit
  <1>3. n \in Nat /\ n \in 0 .. n
    <2>1. n \in Nat
      BY <1>1, Lengths
    <2> QED
      BY <2>1
  <1>4. CASE turn[t].status = "preparing" /\ holder' = [holder EXCEPT ![h].pc = "attempt", ![h].n = n]
    <2> DEFINE v == [holder[h] EXCEPT !.pc = "attempt", !.n = n]
    <2>1. holder' = [holder EXCEPT ![h] = v]
      BY <1>4
    <2>2. /\ v \in HolderRow /\ v.pc = "attempt" /\ v.n = n /\ v.turn = t
          /\ v.inflight = holder[h].inflight /\ v.chan = 0
      BY <1>1, <1>3 DEF HolderRow, Places
    <2> HIDE DEF v
    <2>3. v.n \in 0 .. Len(attempt[v.turn])
      BY <1>3, <2>2
    <2> QED
      BY <1>1, <1>2, <2>1, <2>2, <2>3, GoesOn
  <1>5. CASE turn[t].status = "running" /\ holder' = [holder EXCEPT ![h].pc = "attach", ![h].n = n]
    <2> DEFINE v == [holder[h] EXCEPT !.pc = "attach", !.n = n]
    <2>1. holder' = [holder EXCEPT ![h] = v]
      BY <1>5
    <2>2. /\ v \in HolderRow /\ v.pc = "attach" /\ v.n = n /\ v.turn = t
          /\ v.inflight = holder[h].inflight /\ v.chan = holder[h].chan
      BY <1>1, <1>3 DEF HolderRow, Places
    <2> HIDE DEF v
    <2>3. v.n \in 0 .. Len(attempt[v.turn])
      BY <1>3, <2>2
    <2>4. n # 0
      BY <1>1, <1>3, <1>5 DEF Inv1, AttemptsFit
    <2> QED
      BY <1>1, <1>2, <2>1, <2>2, <2>3, <2>4, GoesOn
  <1>6. CASE /\ turn[t].status = "finalizing"
             /\ holder' = [[holder EXCEPT ![h].pc = "settle", ![h].n = n] EXCEPT
                              ![h].outcome = AttemptOutcome(attempt[t][n])]
    <2> DEFINE o == AttemptOutcome(attempt[t][n])
               v == [holder[h] EXCEPT !.pc = "settle", !.n = n, !.outcome = o]
    <2>1. holder' = [holder EXCEPT ![h] = v]
      BY <1>1, <1>6 DEF TablesFit
    <2>2. o \in Outcomes
      BY DEF AttemptOutcome, Outcomes
    <2> HIDE DEF o
    <2>3. /\ v \in HolderRow /\ v.pc = "settle" /\ v.n = n /\ v.turn = t /\ v.outcome \in Outcomes
          /\ v.inflight = holder[h].inflight /\ v.chan = holder[h].chan
      BY <1>1, <1>3, <2>2 DEF HolderRow, Places
    <2> HIDE DEF v
    <2>4. v.n \in 0 .. Len(attempt[v.turn])
      BY <1>3, <2>3
    <2> QED
      BY <1>1, <1>2, <2>1, <2>3, <2>4, GoesOn
  <1> QED
    BY <1>4, <1>5, <1>6 DEF Load

(* A workspace is prepared.                                                *)
LEMMA PrepareKeeps ==
    ASSUME SessionFits, Inv1, NEW h \in Holders, Prepare(h)
    PROVE  Inv1' /\ Step1
  <1> DEFINE t == holder[h].turn
             x == session.harness
             k == x \in session.named
             mem == RunnerState(Len(runner[t]) + 1, x, k, AttemptInput(t, holder[h].n, k))
             v == IF turn[t].stop THEN [holder[h] EXCEPT !.pc = "refuse", !.outcome = "interrupted"]
                  ELSE [holder[h] EXCEPT !.pc = "launch", !.mem = mem]
  <1>1. /\ TablesFit /\ holder[h] \in HolderRow /\ holder[h].pc # "idle" /\ t \in TurnIds
        /\ holder[h].n # 0 /\ holder[h].n \in 0 .. Len(attempt[t])
        /\ turn' = turn /\ item' = item /\ sent' = sent /\ attempt' = attempt
        /\ command' = command /\ runner' = runner /\ acts' = acts /\ faults' = faults
    BY InPlace DEF Prepare
  <1>2. /\ runner' \in [TurnIds -> Seq(RunnerRow)] /\ faults \subseteq faults'
        /\ faults' \subseteq Faults
    BY <1>1 DEF TablesFit
  <1>3. mem \in RunnerStates
    <2>1. Len(runner[t]) \in Nat
      BY <1>1, Lengths
    <2>2. AttemptInput(t, holder[h].n, k) \in SUBSET Messages
      BY DEF AttemptInput, SteeredItems
    <2>3. x \in Harnesses /\ k \in BOOLEAN
      BY DEF SessionFits
    <2> HIDE DEF x, k
    <2> QED
      BY <2>1, <2>2, <2>3 DEF RunnerState, RunnerStates
  <1>4. holder' = [holder EXCEPT ![h] = v]
    BY DEF Prepare
  <1> HIDE DEF mem
  <1>5. /\ v \in HolderRow /\ v.n = holder[h].n /\ v.turn = t /\ v.inflight = holder[h].inflight
        /\ v.chan = holder[h].chan
        /\ \/ v.pc = "refuse" /\ v.outcome = "interrupted"
           \/ v.pc = "launch" /\ v.mem = mem
    BY <1>1, <1>3 DEF HolderRow, Places, Outcomes
  <1> HIDE DEF v
  <1>6. "interrupted" \in Outcomes
    BY DEF Outcomes
  <1> QED
    BY <1>1, <1>2, <1>3, <1>4, <1>5, <1>6, GoesOn

(* A turn is refused.                                                      *)
LEMMA RefuseKeeps ==
    ASSUME Inv1, NEW h \in Holders, Refuse(h)
    PROVE  Inv1' /\ Step1
  <1> DEFINE t == holder[h].turn
             v == [holder[h] EXCEPT !.pc = "refuse", !.outcome = "failed"]
  <1>1. /\ TablesFit /\ holder[h] \in HolderRow /\ holder[h].pc # "idle" /\ t \in TurnIds
        /\ holder[h].n # 0 /\ holder[h].n \in 0 .. Len(attempt[t])
        /\ turn' = turn /\ item' = item /\ sent' = sent /\ attempt' = attempt
        /\ command' = command /\ runner' = runner /\ acts' = acts
    BY InPlace DEF Refuse
  <1>2. /\ runner' \in [TurnIds -> Seq(RunnerRow)] /\ faults \subseteq faults'
        /\ faults' \subseteq Faults
    BY <1>1, Counts DEF TablesFit, Refuse
  <1>3. holder' = [holder EXCEPT ![h] = v]
    BY DEF Refuse
  <1>4. /\ v \in HolderRow /\ v.n = holder[h].n /\ v.turn = t /\ v.inflight = holder[h].inflight
        /\ v.pc = "refuse" /\ v.outcome \in Outcomes /\ v.chan = holder[h].chan
    BY <1>1 DEF HolderRow, Places, Outcomes
  <1> HIDE DEF v
  <1> QED
    BY <1>1, <1>2, <1>3, <1>4, GoesOn

(* A turn's changes cannot be saved.                                       *)
LEMMA FinalizeFailsKeeps ==
    ASSUME Inv1, NEW h \in Holders, FinalizeFails(h)
    PROVE  Inv1' /\ Step1
  <1> DEFINE t == holder[h].turn
             v == [holder[h] EXCEPT !.outcome = "failed"]
  <1>1. /\ TablesFit /\ holder[h] \in HolderRow /\ holder[h].pc = "settle" /\ t \in TurnIds
        /\ holder[h].n \in 0 .. Len(attempt[t])
        /\ turn' = turn /\ item' = item /\ sent' = sent /\ attempt' = attempt
        /\ command' = command /\ runner' = runner /\ acts' = acts
    BY InPlace DEF FinalizeFails
  <1>2. /\ runner' \in [TurnIds -> Seq(RunnerRow)] /\ faults \subseteq faults'
        /\ faults' \subseteq Faults
    BY <1>1, Counts DEF TablesFit, FinalizeFails
  <1>3. holder' = [holder EXCEPT ![h] = v]
    BY DEF FinalizeFails
  <1>4. /\ v \in HolderRow /\ v.n = holder[h].n /\ v.turn = t /\ v.inflight = holder[h].inflight
        /\ v.pc = "settle" /\ v.outcome \in Outcomes /\ v.chan = holder[h].chan
    BY <1>1 DEF HolderRow, Outcomes
  <1> HIDE DEF v
  <1> QED
    BY <1>1, <1>2, <1>3, <1>4, GoesOn

(* A runner exited.                                                        *)
LEMMA ExitedKeeps ==
    ASSUME Inv1, NEW h \in Holders, Exited(h)
    PROVE  Inv1' /\ Step1
  <1> DEFINE t == holder[h].turn
             v == [holder[h] EXCEPT !.pc = "lose"]
  <1>1. /\ TablesFit /\ holder[h] \in HolderRow /\ holder[h].pc # "idle" /\ t \in TurnIds
        /\ holder[h].n # 0 /\ holder[h].n \in 0 .. Len(attempt[t])
        /\ turn' = turn /\ item' = item /\ sent' = sent /\ attempt' = attempt
        /\ command' = command /\ runner' = runner /\ acts' = acts /\ faults' = faults
    BY InPlace DEF Exited
  <1>2. /\ runner' \in [TurnIds -> Seq(RunnerRow)] /\ faults \subseteq faults'
        /\ faults' \subseteq Faults
    BY <1>1 DEF TablesFit
  <1>3. holder' = [holder EXCEPT ![h] = v]
    BY DEF Exited
  <1>4. /\ v \in HolderRow /\ v.n = holder[h].n /\ v.turn = t /\ v.inflight = holder[h].inflight
        /\ v.pc = "lose" /\ v.chan = holder[h].chan
    BY <1>1 DEF HolderRow, Places
  <1> HIDE DEF v
  <1> QED
    BY <1>1, <1>2, <1>3, <1>4, GoesOn

(* A runner's start is sent.                                               *)
LEMMA StartKeeps ==
    ASSUME Inv1, NEW h \in Holders, Start(h)
    PROVE  Inv1' /\ Step1
  <1> DEFINE t == holder[h].turn
             c == holder[h].chan
             p == IF runner[t][c].phase = "up" THEN "told" ELSE runner[t][c].phase
             v == [holder[h] EXCEPT !.pc = "pump"]
  <1>1. /\ TablesFit /\ holder[h] \in HolderRow /\ holder[h].pc # "idle" /\ t \in TurnIds
        /\ holder[h].n # 0 /\ holder[h].n \in 0 .. Len(attempt[t]) /\ holder[h].mem \in RunnerStates
        /\ holder[h].mem.at \in 1 .. Len(runner[t]) /\ c = holder[h].mem.at
        /\ c \in 1 .. Len(runner[t]) /\ runner[t][c] \in RunnerRow
        /\ turn' = turn /\ item' = item /\ sent' = sent /\ attempt' = attempt
        /\ command' = command /\ acts' = acts /\ faults' = faults
    BY InPlace DEF Start
  <1>2. p \in Phases
    BY <1>1 DEF RunnerRow, Phases
  <1>3. runner' = [runner EXCEPT ![t][c].phase = p]
    BY DEF Start
  <1> HIDE DEF p
  <1>4. /\ runner' \in [TurnIds -> Seq(RunnerRow)] /\ faults \subseteq faults' /\ faults' \subseteq Faults
        /\ \A u \in TurnIds : Len(runner'[u]) = Len(runner[u])
    BY <1>1, <1>2, <1>3, PhaseKeeps DEF TablesFit
  <1>5. holder' = [holder EXCEPT ![h] = v]
    BY DEF Start
  <1>6. /\ v \in HolderRow /\ v.n = holder[h].n /\ v.turn = t /\ v.inflight = holder[h].inflight
        /\ v.pc = "pump" /\ v.mem = holder[h].mem /\ v.chan = c
    BY <1>1 DEF HolderRow, Places
  <1> HIDE DEF v, c
  <1> QED
    BY <1>1, <1>4, <1>5, <1>6, GoesOn

(* A deaf harness is killed.                                               *)
LEMMA KillKeeps ==
    ASSUME Inv1, NEW h \in Holders, Kill(h)
    PROVE  Inv1' /\ Step1
  <1> DEFINE t == holder[h].turn
             c == holder[h].chan
             v == [holder[h] EXCEPT !.pc = "killed", !.outcome = "interrupted"]
  <1>1. /\ TablesFit /\ holder[h] \in HolderRow /\ holder[h].pc # "idle" /\ t \in TurnIds
        /\ holder[h].n # 0 /\ holder[h].n \in 0 .. Len(attempt[t])
        /\ c \in 1 .. Len(runner[t])
        /\ turn' = turn /\ item' = item /\ sent' = sent /\ attempt' = attempt
        /\ command' = command /\ acts' = acts
    BY InPlace DEF Kill
  <1>2. runner' \in Killed(t, c)
    BY Zenon DEF Kill
  <1>3. /\ runner' \in [TurnIds -> Seq(RunnerRow)]
        /\ \A u \in TurnIds : Len(runner'[u]) = Len(runner[u])
    <2> HIDE DEF t, c
    <2> QED
      BY <1>1, <1>2, KilledKeeps DEF RunnerPut
  <1>4. faults \subseteq faults' /\ faults' \subseteq Faults
    BY <1>1, Counts DEF Kill
  <1>5. holder' = [holder EXCEPT ![h] = v]
    BY DEF Kill
  <1>6. /\ v \in HolderRow /\ v.n = holder[h].n /\ v.turn = t /\ v.inflight = holder[h].inflight
        /\ v.pc = "killed" /\ v.outcome \in Outcomes /\ v.chan = holder[h].chan
    BY <1>1 DEF HolderRow, Places, Outcomes
  <1> HIDE DEF v
  <1> QED
    BY <1>1, <1>3, <1>4, <1>5, <1>6, GoesOn

(* Runners are left.                                                       *)
LEMMA AbandonedKeeps ==
    ASSUME TablesFit, NEW t \in TurnIds, runner' = Abandoned(t)
    PROVE  /\ runner' \in [TurnIds -> Seq(RunnerRow)]
           /\ \A u \in TurnIds : (u # t => runner'[u] = runner[u]) /\ Len(runner'[u]) = Len(runner[u])
           /\ \A c \in 1 .. Len(runner[t]) :
                runner'[t][c] = [runner[t][c] EXCEPT
                    !.left = runner[t][c].left \/ runner[t][c].phase \in {"up", "told", "began"}]
  <1> DEFINE k == Len(runner[t])
             Row(c) == [runner[t][c] EXCEPT
                    !.left = runner[t][c].left \/ runner[t][c].phase \in {"up", "told", "began"}]
             z == [c \in 1 .. k |-> Row(c)]
  <1>1. k \in Nat /\ DOMAIN runner[t] = 1 .. k /\ \A c \in 1 .. k : runner[t][c] \in RunnerRow
    BY Lengths
  <1>2. ASSUME NEW c \in 1 .. k PROVE Row(c) \in RunnerRow
    <2> DEFINE r == runner[t][c]
               b == r.left \/ r.phase \in {"up", "told", "began"}
    <2>1. r \in RunnerRow
      BY <1>1
    <2>2. b \in BOOLEAN
      BY <2>1 DEF RunnerRow
    <2>3. [r EXCEPT !.left = b] \in RunnerRow
      <3> HIDE DEF r, b
      <3> QED
        BY <2>1, <2>2 DEF RunnerRow
    <2> QED
      BY <2>3
  <1>3. runner' = [runner EXCEPT ![t] = z]
    <2>1. runner' = [runner EXCEPT ![t] = [c \in DOMAIN runner[t] |->
                        [runner[t][c] EXCEPT !.left = @ \/ runner[t][c].phase \in {"up", "told", "began"}]]]
      BY Zenon DEF Abandoned
    <2> QED
      BY <1>1, <2>1
  <1> HIDE DEF Row, k
  <1>4. z \in Seq(RunnerRow) /\ Len(z) = k /\ \A c \in 1 .. k : z[c] = Row(c)
    <2>1. z \in [1 .. k -> RunnerRow]
      BY <1>2
    <2>2. z \in Seq(RunnerRow)
      BY <1>1, <2>1, SeqDef
    <2>3. DOMAIN z = 1 .. Len(z) /\ Len(z) \in Nat
      BY <2>2, LenProperties
    <2>4. DOMAIN z = 1 .. k
      OBVIOUS
    <2> QED
      BY <1>1, <2>2, <2>3, <2>4
  <1> HIDE DEF z
  <1>5. runner \in [TurnIds -> Seq(RunnerRow)]
    BY DEF TablesFit
  <1>6. /\ runner' \in [TurnIds -> Seq(RunnerRow)] /\ runner'[t] = z
        /\ \A u \in TurnIds : u # t => runner'[u] = runner[u]
    BY <1>3, <1>4, <1>5
  <1>7. \A u \in TurnIds : Len(runner'[u]) = Len(runner[u])
    BY <1>4, <1>6 DEF k
  <1>8. \A c \in 1 .. k : runner'[t][c] = Row(c)
    BY <1>4, <1>6
  <1> QED
    BY <1>6, <1>7, <1>8 DEF k, Row

(* A step threw.                                                           *)
LEMMA FailUnexpectedlyKeeps ==
    ASSUME Inv1, NEW h \in Holders, FailUnexpectedly(h)
    PROVE  Inv1' /\ Step1
  <1> DEFINE t == holder[h].turn
             n == Len(attempt[t])
             found == holder[h].pc = "attach" /\ attempt[t][n].runner # None
             c == IF found THEN attempt[t][n].runner.at ELSE holder[h].chan
             v == [holder[h] EXCEPT !.pc = "settle", !.n = n, !.outcome = "failed"]
  <1>1. /\ holder[h].pc # "idle"
        /\ turn' = turn /\ item' = item /\ sent' = sent /\ attempt' = attempt
        /\ command' = command /\ acts' = acts
    BY DEF FailUnexpectedly, Owns
  <1>2. /\ TablesFit /\ holder[h] \in HolderRow /\ t \in TurnIds
        /\ holder[h].chan \in 0 .. Len(runner[t])
        /\ holder[h].pc = "attach" => holder[h].n \in 1 .. Len(attempt[t])
    BY <1>1, InPlace
  <1>3. n \in Nat /\ Len(runner[t]) \in Nat
    BY <1>2, Lengths
  <1>4. c = 0 \/ c \in 1 .. Len(runner[t])
    <2>1. CASE found
      <3>1. n \in 1 .. Len(attempt[t])
        BY <1>2, <1>3, <2>1
      <3> QED
        BY <1>2, <2>1, <3>1 DEF Inv1, AttemptsFit
    <2>2. CASE ~found
      BY <1>2, <1>3, <2>2
    <2> QED
      BY <2>1, <2>2
  <1>5. \/ c # 0 /\ runner' = [runner EXCEPT ![t][c].phase = "gone"]
        \/ runner' = Abandoned(t)
    BY DEF FailUnexpectedly
  <1>6. holder' = [holder EXCEPT ![h] = v]
    BY DEF FailUnexpectedly
  <1> HIDE DEF c
  <1>7. /\ runner' \in [TurnIds -> Seq(RunnerRow)]
        /\ \A u \in TurnIds : Len(runner'[u]) = Len(runner[u])
    <2>1. CASE c # 0 /\ runner' = [runner EXCEPT ![t][c].phase = "gone"]
      <3>1. "gone" \in Phases
        BY DEF Phases
      <3> QED
        BY <1>2, <1>4, <2>1, <3>1, PhaseKeeps
    <2>2. CASE runner' = Abandoned(t)
      BY <1>2, <2>2, AbandonedKeeps
    <2> QED
      BY <1>5, <2>1, <2>2
  <1>8. faults \subseteq faults' /\ faults' \subseteq Faults
    BY <1>2, Counts DEF FailUnexpectedly
  <1>9. /\ v \in HolderRow /\ v.n = n /\ v.turn = t /\ v.inflight = holder[h].inflight
        /\ v.pc = "settle" /\ v.outcome \in Outcomes /\ v.chan = holder[h].chan
    BY <1>2, <1>3 DEF HolderRow, Places, Outcomes
  <1> HIDE DEF v
  <1>10. v.n \in 0 .. Len(attempt[v.turn])
    BY <1>3, <1>9
  <1> HIDE DEF t, n, found
  <1> QED
    BY <1>1, <1>6, <1>7, <1>8, <1>9, <1>10, GoesOn DEF t

(* The pause before another attempt is over.                               *)
LEMMA RetryFailureDueKeeps ==
    ASSUME Inv1, NEW h \in Holders, RetryFailureDue(h)
    PROVE  Inv1' /\ Step1
  <1> DEFINE t == holder[h].turn
             ends == [holder[h] EXCEPT !.pc = "killed", !.outcome = "interrupted"]
             again == [Idle EXCEPT !.pc = "attempt", !.turn = t]
  <1>1. /\ TablesFit /\ holder[h] \in HolderRow /\ holder[h].pc # "idle" /\ t \in TurnIds
        /\ holder[h].n # 0 /\ holder[h].n \in 0 .. Len(attempt[t])
        /\ holder[h].chan \in 0 .. Len(runner[t])
        /\ (holder[h].inflight => "stall" \in faults) /\ turn[t].status # "none"
        /\ turn' = turn /\ item' = item /\ sent' = sent /\ attempt' = attempt
        /\ command' = command /\ runner' = runner /\ acts' = acts /\ faults' = faults
    BY InPlace DEF RetryFailureDue
  <1>2. /\ runner' \in [TurnIds -> Seq(RunnerRow)] /\ faults \subseteq faults'
        /\ faults' \subseteq Faults /\ \A u \in TurnIds : Len(runner'[u]) = Len(runner[u])
    BY <1>1 DEF TablesFit
  <1>3. /\ ends \in HolderRow /\ ends.turn = t /\ ends.pc = "killed" /\ ends.outcome \in Outcomes
        /\ ends.n = holder[h].n /\ ends.inflight = holder[h].inflight /\ ends.chan = holder[h].chan
    BY <1>1 DEF HolderRow, Places, Outcomes
  <1>4. again \in HolderRow /\ again.turn = t /\ again.pc = "attempt" /\ again.n = 0
        /\ again.inflight = FALSE /\ again.chan = 0
    <2>1. "attempt" \in Places
      BY DEF Places
    <2> QED
      BY <1>1, <2>1, IdleRow
  <1>5. holder' = [holder EXCEPT ![h] = ends] \/ holder' = [holder EXCEPT ![h] = again]
    BY DEF RetryFailureDue
  <1> HIDE DEF ends, again
  <1>6. PICK v \in HolderRow :
            /\ holder' = [holder EXCEPT ![h] = v] /\ v.turn = t
            /\ \/ /\ v.pc = "killed" /\ v.outcome \in Outcomes /\ v.n = holder[h].n
                  /\ v.inflight = holder[h].inflight /\ v.chan = holder[h].chan
               \/ v.pc = "attempt" /\ v.n = 0 /\ v.inflight = FALSE /\ v.chan = 0
    BY <1>3, <1>4, <1>5
  <1>7. holder'[h] = v
    BY <1>1, <1>6, HolderKeeps
  <1>8. Len(attempt[t]) \in Nat /\ Len(runner[t]) \in Nat
    BY <1>1, Lengths
  <1>9. HolderFits(h)'
    <2>1. v.n \in 0 .. Len(attempt'[t]) /\ v.chan \in 0 .. Len(runner'[t])
      BY <1>1, <1>6, <1>8
    <2> HIDE DEF t
    <2> QED
      BY <1>1, <1>6, <1>7, <2>1 DEF HolderFits
  <1> QED
    BY <1>1, <1>2, <1>6, <1>9, HolderStep

(* A turn is taken over.                                                   *)
LEMMA AttachKeeps ==
    ASSUME Inv1, NEW h \in Holders, Attach(h)
    PROVE  Inv1' /\ Step1
  <1> DEFINE t == holder[h].turn
             n == holder[h].n
             mem == attempt[t][n].runner
  <1>1. /\ TablesFit /\ holder[h] \in HolderRow /\ holder[h].pc # "idle" /\ t \in TurnIds
        /\ n # 0 /\ n \in 0 .. Len(attempt[t]) /\ n \in 1 .. Len(attempt[t])
        /\ attempt[t][n] \in AttemptRow
        /\ turn' = turn /\ item' = item /\ sent' = sent /\ attempt' = attempt
        /\ command' = command /\ acts' = acts /\ faults' = faults
    BY InPlace DEF Attach
  <1>2. faults \subseteq faults' /\ faults' \subseteq Faults
    BY <1>1 DEF TablesFit
  <1>3. mem \in RunnerStates \cup {None} /\ (mem # None => mem.at \in 1 .. Len(runner[t]))
    BY <1>1 DEF AttemptRow, Inv1, AttemptsFit
  <1>4. ASSUME NEW pc \in {"again", "lose"}, holder' = [holder EXCEPT ![h].pc = pc, ![h].mem = mem],
               runner' \in [TurnIds -> Seq(RunnerRow)],
               \A u \in TurnIds : Len(runner'[u]) = Len(runner[u])
        PROVE  Inv1' /\ Step1
    <2> DEFINE v == [holder[h] EXCEPT !.pc = pc, !.mem = mem]
    <2>1. holder' = [holder EXCEPT ![h] = v]
      BY <1>4
    <2>2. /\ v \in HolderRow /\ v.n = n /\ v.turn = t /\ v.inflight = holder[h].inflight
          /\ v.pc = pc /\ v.chan = holder[h].chan
      BY <1>1, <1>3 DEF HolderRow, Places
    <2> HIDE DEF v
    <2> QED
      BY <1>1, <1>2, <1>4, <2>1, <2>2, GoesOn
  <1>5. CASE /\ mem = None \/ (mem # None /\ runner[t][mem.at].phase = "gone")
             /\ holder' = [holder EXCEPT ![h].pc = IF mem # None /\ ~mem.started THEN "again" ELSE "lose",
                                         ![h].mem = mem]
             /\ UNCHANGED runner
    <2> DEFINE pc == IF mem # None /\ ~mem.started THEN "again" ELSE "lose"
    <2>1. /\ pc \in {"again", "lose"} /\ holder' = [holder EXCEPT ![h].pc = pc, ![h].mem = mem]
          /\ runner' \in [TurnIds -> Seq(RunnerRow)]
          /\ \A u \in TurnIds : Len(runner'[u]) = Len(runner[u])
      BY <1>1, <1>5 DEF TablesFit
    <2> HIDE DEF pc, mem, t
    <2> QED
      BY <1>4, <2>1
  <1>6. CASE /\ mem # None
             /\ runner' \in Killed(t, mem.at)
             /\ holder' = [holder EXCEPT ![h].pc = "again", ![h].mem = mem]
    <2>1. mem.at \in 1 .. Len(runner[t])
      BY <1>3, <1>6
    <2> DEFINE c == mem.at
    <2>2. /\ runner' \in [TurnIds -> Seq(RunnerRow)]
          /\ \A u \in TurnIds : Len(runner'[u]) = Len(runner[u])
      <3>1. c \in 1 .. Len(runner[t]) /\ runner' \in Killed(t, c)
        BY <1>6, <2>1
      <3> HIDE DEF c, t
      <3> QED
        BY <1>1, <2>1, <3>1, KilledKeeps DEF RunnerPut
    <2> QED
      BY <1>4, <1>6, <2>2
  <1>7. CASE /\ mem # None
             /\ runner' = [runner EXCEPT ![t][mem.at].inbox =
                   @ \cup ({m \in Messages : <<"steer", m>> \in command[t]} \ mem.consumed)]
             /\ holder' = [[holder EXCEPT ![h].pc = "pump", ![h].mem = mem] EXCEPT ![h].chan = mem.at]
    <2> DEFINE c == mem.at
               X == {m \in Messages : <<"steer", m>> \in command[t]} \ mem.consumed
               row == [runner[t][c] EXCEPT !.inbox = @ \cup X]
               v == [holder[h] EXCEPT !.pc = "pump", !.mem = mem, !.chan = c]
    <2>1. c \in 1 .. Len(runner[t]) /\ mem \in RunnerStates /\ c \in Nat
      BY <1>3, <1>7 DEF RunnerStates
    <2>2. X \in SUBSET Messages
      OBVIOUS
    <2>3. row \in RunnerRow
      <3>1. runner[t][c] \in RunnerRow
        BY <1>1, <2>1, Lengths
      <3> HIDE DEF X, c
      <3> QED
        BY <2>2, <3>1 DEF RunnerRow
    <2>4. runner' = WithPlace(runner, t, c, row)
      BY <1>7 DEF WithPlace
    <2> HIDE DEF row
    <2>5. /\ runner' \in [TurnIds -> Seq(RunnerRow)]
          /\ \A u \in TurnIds : Len(runner'[u]) = Len(runner[u])
      <3> HIDE DEF c, t
      <3>1. RunnerPut(t, c, row)
        BY <1>1, <2>1, <2>3, <2>4, RunnerWrite
      <3> QED
        BY <3>1 DEF RunnerPut
    <2>6. holder' = [holder EXCEPT ![h] = v]
      BY <1>1, <1>7 DEF TablesFit
    <2>7. /\ v \in HolderRow /\ v.n = n /\ v.turn = t /\ v.inflight = holder[h].inflight
          /\ v.pc = "pump" /\ v.mem = mem /\ v.chan = c
      BY <1>1, <2>1 DEF HolderRow, Places
    <2> HIDE DEF v
    <2> QED
      BY <1>1, <1>2, <2>1, <2>5, <2>6, <2>7, GoesOn
  <1> QED
    BY <1>5, <1>6, <1>7 DEF Attach

-----------------------------------------------------------------------------
(* Steps of a holder on its attempt.                                       *)

(* The holder of t writes the runner it records, and goes on.              *)
LEMMA RecordsStep ==
    ASSUME Inv1, NEW h \in Holders, holder[h].pc # "idle", May(h),
           NEW t \in TurnIds, t = holder[h].turn, Drives(t),
           item' = item, sent' = sent, acts' = acts, faults' = faults,
           runner' \in [TurnIds -> Seq(RunnerRow)],
           command' \in [TurnIds -> SUBSET Commands],
           \A u \in TurnIds : Len(runner'[u]) >= Len(runner[u]),
           NEW n \in 1 .. Len(attempt[t]), NEW row, row \in AttemptRow,
           attempt' = WithPlace(attempt, t, n, row),
           \/ row.runner = attempt[t][n].runner
           \/ row.runner = None
           \/ row.runner.at \in 1 .. Len(runner'[t]),
           NEW v \in HolderRow, holder' = [holder EXCEPT ![h] = v], HolderFits(h)'
    PROVE  Inv1' /\ Step1
  <1>1. TablesFit /\ Len(attempt[t]) \in Nat
    BY Lengths DEF Inv1
  <1>2. /\ attempt' \in [TurnIds -> Seq(AttemptRow)]
        /\ \A u \in TurnIds : u # t => attempt'[u] = attempt[u]
        /\ Len(attempt'[t]) = Len(attempt[t])
        /\ attempt'[t][n] = row
        /\ \A i \in 1 .. Len(attempt[t]) : i # n => attempt'[t][i] = attempt[t][i]
    <2>1. AttemptPut(t, n, row)
      BY <1>1, AttemptWrite
    <2> QED
      BY <2>1 DEF AttemptPut
  <1>3. Len(attempt'[t]) >= Len(attempt[t])
    BY <1>1, <1>2
  <1>4. turn'[t].status = "running" => turn[t].status = "running" \/ Len(attempt'[t]) > 0
    BY <1>1, <1>2
  <1>5. \A i \in 1 .. Len(attempt'[t]) :
                \/ i \in 1 .. Len(attempt[t]) /\ attempt'[t][i].runner = attempt[t][i].runner
                \/ attempt'[t][i].runner = None
                \/ attempt'[t][i].runner.at \in 1 .. Len(runner'[t])
    BY <1>2, SMTT(60)
  <1> QED
    BY <1>2, <1>3, <1>4, <1>5, EngineStep

(* A new attempt.                                                          *)
LEMMA BeginAttemptKeeps ==
    ASSUME Inv1, NEW h \in Holders, BeginAttempt(h)
    PROVE  Inv1' /\ Step1
  <1> DEFINE t == holder[h].turn
             n == Len(attempt[t])
  <1>1. /\ TablesFit /\ holder[h] \in HolderRow /\ holder[h].pc = "attempt" /\ May(h) /\ t \in TurnIds
        /\ holder[h].chan = 0
        /\ item' = item /\ sent' = sent
        /\ command' = command /\ runner' = runner /\ acts' = acts /\ faults' = faults
    BY InPlace DEF BeginAttempt
  <1>2. /\ runner' \in [TurnIds -> Seq(RunnerRow)] /\ faults \subseteq faults'
        /\ faults' \subseteq Faults /\ command' \in [TurnIds -> SUBSET Commands]
        /\ \A u \in TurnIds : Len(runner'[u]) = Len(runner[u])
    BY <1>1 DEF TablesFit
  <1>3. n \in Nat
    BY <1>1, Lengths
  <1>4. CASE /\ n > 0 /\ UNCHANGED <<turn, attempt>>
             /\ holder' = [holder EXCEPT ![h].pc = "prepare", ![h].n = n]
    <2> DEFINE v == [holder[h] EXCEPT !.pc = "prepare", !.n = n]
    <2>1. holder' = [holder EXCEPT ![h] = v]
      BY <1>4
    <2>2. /\ v \in HolderRow /\ v.pc = "prepare" /\ v.n = n /\ v.turn = t
          /\ v.inflight = holder[h].inflight /\ v.chan = 0
      BY <1>1, <1>3 DEF HolderRow, Places
    <2> HIDE DEF v
    <2>3. v.n \in 0 .. Len(attempt[v.turn]) /\ v.n # 0
      BY <1>3, <1>4, <2>2
    <2> QED
      BY <1>1, <1>2, <1>4, <2>1, <2>2, <2>3, GoesOn
  <1>5. CASE /\ attempt' = [attempt EXCEPT ![t] = Append(@, NewAttempt)]
             /\ turn' = [PutActive(t, "preparing") EXCEPT ![t].tries = turn[t].tries + 1]
             /\ holder' = [holder EXCEPT ![h].pc = "prepare", ![h].n = n + 1, ![h].inflight = FALSE]
    <2> DEFINE v == [holder[h] EXCEPT !.pc = "prepare", !.n = n + 1, !.inflight = FALSE]
               k == turn[t].tries + 1
    <2>1. NewAttempt \in AttemptRow /\ NewAttempt.runner = None
      BY DEF NewAttempt, AttemptRow, AttemptStatuses
    <2>2. attempt' = WithAppended(attempt, t, NewAttempt)
      BY <1>5 DEF WithAppended
    <2>3. /\ attempt' \in [TurnIds -> Seq(AttemptRow)]
          /\ \A u \in TurnIds : (u # t => attempt'[u] = attempt[u]) /\ Len(attempt'[u]) >= Len(attempt[u])
          /\ Len(attempt'[t]) = Len(attempt[t]) + 1 /\ attempt'[t][Len(attempt[t]) + 1] = NewAttempt
          /\ \A i \in 1 .. Len(attempt[t]) : attempt'[t][i] = attempt[t][i]
      <3> DEFINE a == NewAttempt
      <3>1. a \in AttemptRow /\ attempt' = WithAppended(attempt, t, a)
        BY <2>1, <2>2
      <3> HIDE DEF a
      <3>2. /\ attempt' \in [TurnIds -> Seq(AttemptRow)]
            /\ \A u \in TurnIds : (u # t => attempt'[u] = attempt[u]) /\ Len(attempt'[u]) >= Len(attempt[u])
            /\ Len(attempt'[t]) = Len(attempt[t]) + 1 /\ attempt'[t][Len(attempt[t]) + 1] = a
            /\ \A i \in 1 .. Len(attempt[t]) : attempt'[t][i] = attempt[t][i]
        BY <1>1, <3>1, AttemptAdded DEF AttemptNew
      <3> QED
        BY <3>2 DEF a
    <2>4. /\ attempt' \in [TurnIds -> Seq(AttemptRow)]
          /\ \A u \in TurnIds : u # t => attempt'[u] = attempt[u]
          /\ Len(attempt'[t]) = n + 1 /\ attempt'[t][n + 1] = NewAttempt
          /\ \A i \in 1 .. n : attempt'[t][i] = attempt[t][i]
      BY <2>3
    <2>5. Len(attempt'[t]) >= Len(attempt[t]) /\ Len(attempt'[t]) > 0
      BY <1>3, <2>4
    <2>6. \A i \in 1 .. Len(attempt'[t]) :
             \/ i \in 1 .. Len(attempt[t]) /\ attempt'[t][i].runner = attempt[t][i].runner
             \/ attempt'[t][i].runner = None
      <3>1. \A i \in 1 .. n + 1 : i \in 1 .. n \/ i = n + 1
        BY <1>3
      <3> QED
        BY <2>1, <2>4, <3>1
    <2>7. k \in Nat /\ "preparing" \in Active /\ holder[h].pc \in Writers
      BY <1>1, Rows, Fields DEF Active, Writers
    <2>8. Drives(t)
      <3>1. turn' = [PutActive(t, "preparing") EXCEPT ![t].tries = k]
        BY <1>5
      <3> HIDE DEF k
      <3> QED
        BY <1>1, <2>7, <3>1, PutActiveKeeps
    <2>9. holder' = [holder EXCEPT ![h] = v]
      BY <1>5
    <2>10. /\ v \in HolderRow /\ v.pc = "prepare" /\ v.n = n + 1 /\ v.turn = t
           /\ v.inflight = FALSE /\ v.chan = 0
      <3>1. n + 1 \in Nat
        BY <1>3
      <3> DEFINE k1 == n + 1
      <3> HIDE DEF k1
      <3> QED
        BY <1>1, <3>1 DEF HolderRow, Places, k1
    <2> HIDE DEF v
    <2>11. holder'[h] = v
      BY <1>1, <2>9, <2>10, HolderKeeps
    <2>12. turn'[t].status # "none"
      BY <1>1, <2>8, InPlace DEF Drives
    <2>13. HolderFits(h)'
      <3>1. v.n \in 0 .. Len(attempt'[t]) /\ v.n # 0
        BY <1>3, <2>4, <2>10
      <3>2. v.chan \in 0 .. Len(runner'[t])
        <4>1. Len(runner'[t]) \in Nat
          BY <1>1, Lengths
        <4> QED
          BY <2>10, <4>1
      <3> QED
        BY <1>1, <2>10, <2>11, <2>12, <3>1, <3>2 DEF HolderFits
    <2>14. \A u \in TurnIds : Len(runner'[u]) >= Len(runner[u])
      BY <1>1, Lengths
    <2>15. holder[h].pc # "idle"
      BY <1>1
    <2> HIDE DEF n
    <2> QED
      BY <1>1, <1>2, <2>4, <2>5, <2>6, <2>8, <2>9, <2>10, <2>13, <2>14, <2>15, EngineStep
  <1> QED
    BY <1>4, <1>5 DEF BeginAttempt

(* A runner is up, and recorded.                                           *)
LEMMA LaunchKeeps ==
    ASSUME Inv1, NEW h \in Holders, Launch(h)
    PROVE  Inv1' /\ Step1
  <1> DEFINE t == holder[h].turn
             n == holder[h].n
             c == Len(runner[t]) + 1
             mem == [holder[h].mem EXCEPT !.at = c]
             row == [attempt[t][n] EXCEPT !.status = "running", !.runner = mem]
             v == [holder[h] EXCEPT !.pc = "start", !.mem = mem, !.chan = mem.at, !.inflight = FALSE]
  <1>1. /\ TablesFit /\ holder[h] \in HolderRow /\ holder[h].pc = "launch" /\ May(h) /\ t \in TurnIds
        /\ holder[h].mem \in RunnerStates
        /\ n # 0 /\ n \in 0 .. Len(attempt[t]) /\ n \in 1 .. Len(attempt[t])
        /\ attempt[t][n] \in AttemptRow
        /\ item' = item /\ sent' = sent
        /\ command' = command /\ acts' = acts /\ faults' = faults
    BY InPlace DEF Launch
  <1>2. command' \in [TurnIds -> SUBSET Commands]
    BY <1>1 DEF TablesFit
  <1>3. Len(runner[t]) \in Nat /\ c \in Nat
    BY <1>1, Lengths
  <1>4. mem \in RunnerStates /\ mem.at = c
    BY <1>1, <1>3 DEF RunnerStates
  <1>5. /\ runner' = [runner EXCEPT ![t] = Append(runner[t], NewRunner)]
        /\ attempt' = WithPlace(attempt, t, n, row)
        /\ turn' = PutActive(t, "running")
        /\ holder' = [holder EXCEPT ![h] = v]
    <2>2. attempt' = WithPlace(attempt, t, n, row)
      <3>1. attempt' = [attempt EXCEPT ![holder[h].turn][holder[h].n] =
                            [@ EXCEPT !.status = "running",
                                      !.runner = [holder[h].mem EXCEPT !.at = Len(runner[holder[h].turn]) + 1]]]
        BY Zenon DEF Launch
      <3> QED
        BY <3>1, Zenon DEF WithPlace
    <2>3. runner' = [runner EXCEPT ![t] = Append(runner[t], NewRunner)]
      BY Zenon DEF Launch
    <2>4. turn' = PutActive(t, "running")
      BY Zenon DEF Launch
    <2>5. holder' = [holder EXCEPT ![h] = v]
      <3>1. holder' = [holder EXCEPT ![h].pc = "start", ![h].mem = mem, ![h].chan = mem.at,
                                     ![h].inflight = FALSE]
        BY Zenon DEF Launch
      <3> HIDE DEF mem
      <3> QED
        BY <1>1, <3>1 DEF TablesFit
    <2> QED
      BY <2>2, <2>3, <2>4, <2>5
  <1> HIDE DEF mem
  <1>6. row \in AttemptRow /\ row.runner = mem
    BY <1>1, <1>4 DEF AttemptRow, AttemptStatuses
  <1> HIDE DEF row
  <1>7. /\ v \in HolderRow /\ v.pc = "start" /\ v.n = n /\ v.turn = t /\ v.mem = mem /\ v.chan = c
        /\ v.inflight = FALSE
    BY <1>1, <1>3, <1>4 DEF HolderRow, Places
  <1> HIDE DEF v
  <1>8. NewRunner \in RunnerRow
    <2>1. <<>> \in Seq(Frames)
      BY EmptySeq
    <2> QED
      BY <2>1 DEF NewRunner, RunnerRow, Phases
  <1>9. /\ runner' \in [TurnIds -> Seq(RunnerRow)]
        /\ \A u \in TurnIds : Len(runner'[u]) >= Len(runner[u])
        /\ Len(runner'[t]) = c
    <2>1. runner' = WithAppended(runner, t, NewRunner)
      BY <1>5 DEF WithAppended
    <2>2. /\ runner' \in [TurnIds -> Seq(RunnerRow)]
          /\ \A u \in TurnIds : (u # t => runner'[u] = runner[u]) /\ Len(runner'[u]) >= Len(runner[u])
          /\ Len(runner'[t]) = Len(runner[t]) + 1 /\ runner'[t][Len(runner[t]) + 1] = NewRunner
          /\ \A i \in 1 .. Len(runner[t]) : runner'[t][i] = runner[t][i]
      BY <1>1, <1>8, <2>1, RunnerAdded DEF RunnerNew
    <2> QED
      BY <2>2
  <1>10. c \in 1 .. Len(runner'[t]) /\ row.runner.at \in 1 .. Len(runner'[t])
    BY <1>3, <1>4, <1>6, <1>9
  <1>11. Drives(t)
    <2>1. "running" \in Active /\ holder[h].pc \in Writers
      BY <1>1 DEF Active, Writers
    <2> QED
      BY <1>1, <1>5, <2>1, PutActiveKeeps
  <1>12. holder'[h] = v
    BY <1>1, <1>5, <1>7, HolderKeeps
  <1>13. turn'[t].status # "none"
    BY <1>1, <1>11, InPlace DEF Drives
  <1>14. Len(attempt'[t]) = Len(attempt[t])
    BY <1>1, <1>5, <1>6, AttemptWrite DEF AttemptPut
  <1>15. HolderFits(h)'
    <2>1. v.n \in 0 .. Len(attempt'[t]) /\ v.n # 0
      BY <1>1, <1>7, <1>14
    <2>2. /\ v.mem.at \in 1 .. Len(runner'[t]) /\ v.chan = v.mem.at
          /\ v.chan \in 0 .. Len(runner'[t])
      BY <1>3, <1>4, <1>7, <1>9, <1>10
    <2> QED
      BY <1>1, <1>4, <1>7, <1>12, <1>13, <2>1, <2>2 DEF HolderFits
  <1>16. holder[h].pc # "idle"
    BY <1>1
  <1> HIDE DEF c
  <1> QED
    BY <1>1, <1>2, <1>5, <1>6, <1>7, <1>9, <1>10, <1>11, <1>15, <1>16, RecordsStep

(* A runner is forgotten.                                                  *)
LEMMA PrepareAgainKeeps ==
    ASSUME Inv1, NEW h \in Holders, PrepareAgain(h)
    PROVE  Inv1' /\ Step1
  <1> DEFINE t == holder[h].turn
             n == holder[h].n
             row == [attempt[t][n] EXCEPT !.status = "preparing", !.runner = None]
             v == [holder[h] EXCEPT !.pc = "attempt", !.mem = None, !.chan = 0, !.inflight = FALSE]
  <1>1. /\ TablesFit /\ holder[h] \in HolderRow /\ holder[h].pc = "again" /\ May(h) /\ t \in TurnIds
        /\ n # 0 /\ n \in 0 .. Len(attempt[t]) /\ n \in 1 .. Len(attempt[t])
        /\ attempt[t][n] \in AttemptRow
        /\ item' = item /\ sent' = sent
        /\ command' = command /\ runner' = runner /\ acts' = acts /\ faults' = faults
    BY InPlace DEF PrepareAgain
  <1>2. /\ command' \in [TurnIds -> SUBSET Commands] /\ runner' \in [TurnIds -> Seq(RunnerRow)]
        /\ \A u \in TurnIds : Len(runner'[u]) >= Len(runner[u])
    <2>1. \A u \in TurnIds : Len(runner[u]) \in Nat
      BY <1>1, Lengths
    <2> QED
      BY <1>1, <2>1 DEF TablesFit
  <1>3. /\ attempt' = WithPlace(attempt, t, n, row)
        /\ turn' = PutActive(t, "preparing")
        /\ holder' = [holder EXCEPT ![h] = v]
    BY <1>1 DEF PrepareAgain, WithPlace
  <1>4. row \in AttemptRow /\ row.runner = None
    BY <1>1 DEF AttemptRow, AttemptStatuses
  <1> HIDE DEF row
  <1>5. /\ v \in HolderRow /\ v.pc = "attempt" /\ v.n = n /\ v.turn = t /\ v.chan = 0 /\ v.inflight = FALSE
    BY <1>1 DEF HolderRow, Places
  <1> HIDE DEF v
  <1>6. Drives(t)
    <2>1. "preparing" \in Active /\ holder[h].pc \in Writers
      BY <1>1 DEF Active, Writers
    <2> QED
      BY <1>1, <1>3, <2>1, PutActiveKeeps
  <1>7. holder'[h] = v /\ turn'[t].status # "none" /\ Len(attempt'[t]) = Len(attempt[t])
    <2>1. holder'[h] = v
      BY <1>1, <1>3, <1>5, HolderKeeps
    <2>2. turn'[t].status # "none"
      BY <1>1, <1>6, InPlace DEF Drives
    <2>3. Len(attempt'[t]) = Len(attempt[t])
      BY <1>1, <1>3, <1>4, AttemptWrite DEF AttemptPut
    <2> QED
      BY <2>1, <2>2, <2>3
  <1>8. HolderFits(h)'
    <2>1. v.n \in 0 .. Len(attempt'[t])
      BY <1>1, <1>5, <1>7
    <2>2. v.chan \in 0 .. Len(runner'[t])
      <3>1. Len(runner'[t]) \in Nat
        BY <1>1, Lengths
      <3> QED
        BY <1>5, <3>1
    <2> QED
      BY <1>1, <1>5, <1>7, <2>1, <2>2 DEF HolderFits
  <1>9. holder[h].pc # "idle"
    BY <1>1
  <1> QED
    BY <1>1, <1>2, <1>3, <1>4, <1>5, <1>6, <1>8, <1>9, RecordsStep

-----------------------------------------------------------------------------
(* Commands out, frames in, and how an attempt ends.                       *)

(* A holder that writes no attempt.                                        *)
LEMMA EndsStep ==
    ASSUME Inv1, NEW h \in Holders, holder[h].pc # "idle", May(h),
           NEW t \in TurnIds, t = holder[h].turn, Drives(t),
           \A u \in TurnIds : turn'[u].status = "running" => turn[u].status = "running",
           item' = item, sent' = sent, acts' = acts, faults' = faults,
           attempt' = attempt, runner' = runner,
           command' \in [TurnIds -> SUBSET Commands],
           NEW v \in HolderRow, holder' = [holder EXCEPT ![h] = v], HolderFits(h)'
    PROVE  Inv1' /\ Step1
  <1>1. TablesFit
    BY DEF Inv1
  <1>2. attempt' \in [TurnIds -> Seq(AttemptRow)] /\ runner' \in [TurnIds -> Seq(RunnerRow)]
    BY <1>1 DEF TablesFit
  <1>3. /\ \A u \in TurnIds : u # t => attempt'[u] = attempt[u]
        /\ \A u \in TurnIds : Len(runner'[u]) >= Len(runner[u])
        /\ Len(attempt'[t]) >= Len(attempt[t])
    BY <1>1, Lengths
  <1>4. \A i \in 1 .. Len(attempt'[t]) :
            i \in 1 .. Len(attempt[t]) /\ attempt'[t][i].runner = attempt[t][i].runner
    OBVIOUS
  <1> QED
    BY <1>2, <1>3, <1>4, EngineStep

(* What a frame says.                                                      *)
LEMMA FrameSays ==
    ASSUME NEW f \in Frames
    PROVE  \/ f[1] = "began" /\ f[2] \in BOOLEAN
           \/ f[1] \in {"ack", "refused", "took"} /\ f[2] \in Messages
           \/ f[1] = "end" /\ f[2] \in Outcomes
  BY DEF Frames

(* Commands go to the runner.                                              *)
LEMMA SendCommandsKeeps ==
    ASSUME Inv1, NEW h \in Holders, SendCommands(h)
    PROVE  Inv1' /\ Step1
  <1> DEFINE t == holder[h].turn
             n == holder[h].n
             c == holder[h].chan
             r == runner[t][c]
             moot == {x \in command[t] : Moot(h, x)}
             open == command[t] \ moot
             steers == {m \in Messages : <<"steer", m>> \in open} \ r.seen
             asks == \E x \in open : x[1] = "restart"
             halts == asks \/ <<"interrupt">> \in open
             row == [r EXCEPT !.inbox = @ \cup steers, !.halt = @ \/ halts]
             arow == [attempt[t][n] EXCEPT !.asked = @ \/ asks]
             v == holder[h]
  <1>1. /\ TablesFit /\ v \in HolderRow /\ v.pc = "pump" /\ May(h) /\ t \in TurnIds
        /\ turn[t].status # "none"
        /\ v.mem \in RunnerStates
        /\ n # 0 /\ n \in 0 .. Len(attempt[t]) /\ n \in 1 .. Len(attempt[t])
        /\ attempt[t][n] \in AttemptRow
        /\ v.mem.at \in 1 .. Len(runner[t]) /\ c = v.mem.at
        /\ c \in 1 .. Len(runner[t]) /\ r \in RunnerRow
        /\ (v.inflight => "stall" \in faults)
        /\ turn' = turn /\ item' = item /\ sent' = sent
        /\ acts' = acts /\ faults' = faults /\ holder' = holder
    BY InPlace DEF SendCommands
  <1>2. command' = [command EXCEPT ![t] = open]
    BY Zenon DEF SendCommands
  <1>3. runner' = WithPlace(runner, t, c, row)
    <2>1. runner' = [runner EXCEPT ![t][c] = row]
      BY Zenon DEF SendCommands
    <2> HIDE DEF row
    <2> QED
      BY <2>1, Zenon DEF WithPlace
  <1>4. attempt' = WithPlace(attempt, t, n, arow)
    <2>1. attempt' = [attempt EXCEPT ![t][n].asked = @ \/ asks]
      BY Zenon DEF SendCommands
    <2> HIDE DEF asks
    <2> QED
      BY <2>1 DEF WithPlace
  <1>5. open \subseteq command[t] /\ steers \subseteq Messages /\ asks \in BOOLEAN /\ halts \in BOOLEAN
    OBVIOUS
  <1> HIDE DEF asks, halts, steers, open, moot
  <1>6. command' \in [TurnIds -> SUBSET Commands]
    BY <1>1, <1>2, <1>5 DEF TablesFit
  <1>7. row \in RunnerRow
    <2>1. r.inbox \cup steers \in SUBSET Messages /\ (r.halt \/ halts) \in BOOLEAN
      BY <1>1, <1>5 DEF RunnerRow
    <2> QED
      BY <1>1, <2>1 DEF RunnerRow
  <1>8. arow \in AttemptRow /\ arow.runner = attempt[t][n].runner
    <2>1. (attempt[t][n].asked \/ asks) \in BOOLEAN
      BY <1>1, <1>5 DEF AttemptRow
    <2> QED
      BY <1>1, <2>1 DEF AttemptRow
  <1> HIDE DEF row, arow
  <1>9. RunnerPut(t, c, row)
    BY <1>1, <1>3, <1>7, RunnerWrite
  <1>10. AttemptPut(t, n, arow)
    BY <1>1, <1>4, <1>8, AttemptWrite
  <1>11. /\ runner' \in [TurnIds -> Seq(RunnerRow)]
         /\ \A u \in TurnIds : Len(runner'[u]) >= Len(runner[u])
         /\ Len(runner'[t]) = Len(runner[t]) /\ Len(attempt'[t]) = Len(attempt[t])
    <2>1. \A u \in TurnIds : Len(runner[u]) \in Nat
      BY <1>1, Lengths
    <2> QED
      BY <1>1, <1>9, <1>10, <2>1 DEF RunnerPut, AttemptPut
  <1>12. holder' = [holder EXCEPT ![h] = v]
    BY <1>1 DEF TablesFit
  <1>13. Drives(t)
    BY <1>1, DrivesNothing
  <1>14. holder'[h] = v
    BY <1>1
  <1>15. HolderFits(h)'
    <2>1. /\ v.n \in 0 .. Len(attempt'[t]) /\ v.mem.at \in 1 .. Len(runner'[t])
          /\ v.chan \in 0 .. Len(runner'[t])
      BY <1>1, <1>11
    <2> QED
      BY <1>1, <1>14, <2>1 DEF HolderFits
  <1>16. holder[h].pc # "idle"
    BY <1>1
  <1> HIDE DEF v, c
  <1> QED
    BY <1>1, <1>4, <1>6, <1>8, <1>11, <1>12, <1>13, <1>15, <1>16, RecordsStep

(* What applying a frame makes of the runner's state.                      *)
AfterFrame(mem, f) == [mem EXCEPT !.cursor = @ + 1,
                                  !.started = @ \/ f[1] = "began",
                                  !.consumed = IF f[1] = "took" THEN @ \cup {f[2]} ELSE @]

(* It is a runner's state still, of the same runner.                       *)
LEMMA AfterFrameFits ==
    ASSUME NEW mem, mem \in RunnerStates, NEW f, f \in Frames
    PROVE  AfterFrame(mem, f) \in RunnerStates /\ AfterFrame(mem, f).at = mem.at
  <1> DEFINE x == mem.cursor + 1
             y == mem.started \/ f[1] = "began"
             z == IF f[1] = "took" THEN mem.consumed \cup {f[2]} ELSE mem.consumed
  <1>1. x \in Nat /\ y \in BOOLEAN
    BY DEF RunnerStates
  <1>2. z \in SUBSET Messages
    <2>1. f[1] = "took" => f[2] \in Messages
      BY FrameSays
    <2> QED
      BY <2>1 DEF RunnerStates
  <1>3. AfterFrame(mem, f) = [mem EXCEPT !.cursor = x, !.started = y, !.consumed = z]
    BY DEF AfterFrame
  <1> HIDE DEF x, y, z
  <1> QED
    BY <1>1, <1>2, <1>3 DEF RunnerStates

(* The next frame is recorded.                                             *)
LEMMA ApplyKeeps ==
    ASSUME Inv1, NEW h \in Holders, Apply(h)
    PROVE  Inv1' /\ Step1
  <1> DEFINE t == holder[h].turn
             n == holder[h].n
             c == holder[h].chan
             mem == holder[h].mem
             r == runner[t][c]
             f == r.out[mem.cursor + 1]
             now == AfterFrame(mem, f)
             st == IF f[1] # "end" THEN attempt[t][n].status
                   ELSE IF f[2] = "transient" THEN "failed" ELSE f[2]
             row == [attempt[t][n] EXCEPT !.runner = now, !.status = st]
             pc == CASE f[1] = "end" -> "ended"
                     [] f[1] = "refused" -> "refused"
                     [] OTHER -> holder[h].pc
             o == IF f[1] \in {"end", "refused"} THEN f[2] ELSE holder[h].outcome
             v == [holder[h] EXCEPT !.mem = now, !.inflight = FALSE, !.pc = pc, !.outcome = o]
  <1>1. /\ TablesFit /\ holder[h] \in HolderRow /\ holder[h].pc = "pump" /\ May(h) /\ t \in TurnIds
        /\ turn[t].status # "none"
        /\ mem \in RunnerStates
        /\ n # 0 /\ n \in 0 .. Len(attempt[t]) /\ n \in 1 .. Len(attempt[t])
        /\ attempt[t][n] \in AttemptRow
        /\ mem.at \in 1 .. Len(runner[t]) /\ c = mem.at
        /\ c \in 1 .. Len(runner[t]) /\ r \in RunnerRow
        /\ turn' = turn /\ item' = item /\ sent' = sent /\ runner' = runner
        /\ acts' = acts /\ faults' = faults
    BY InPlace DEF Apply
  <1>2. f \in Frames
    <2>1. mem.cursor < Len(r.out)
      BY DEF Apply
    <2>2. r.out \in Seq(Frames) /\ mem.cursor \in Nat
      BY <1>1 DEF RunnerRow, RunnerStates
    <2> DEFINE s == r.out
               k == mem.cursor
    <2>3. s \in Seq(Frames) /\ k \in Nat /\ k < Len(s)
      BY <2>1, <2>2
    <2> HIDE DEF s, k
    <2>4. s[k + 1] \in Frames
      <3>1. Len(s) \in Nat
        BY <2>3, LenProperties
      <3>2. k + 1 \in 1 .. Len(s)
        BY <2>3, <3>1
      <3> QED
        BY <2>3, <3>2, ElementOfSeq
    <2> QED
      BY <2>4 DEF s, k
  <1>3. command' = [command EXCEPT ![t] = IF f[1] = "ack" THEN @ \ {<<"steer", f[2]>>} ELSE @]
    BY Zenon DEF Apply
  <1>4. attempt' = WithPlace(attempt, t, n, row)
    <2> DEFINE y == [attempt[t][n] EXCEPT
                       !.runner = now,
                       !.status = IF f[1] # "end" THEN @
                                  ELSE IF f[2] = "transient" THEN "failed" ELSE f[2]]
    <2>1. attempt' = [attempt EXCEPT ![t][n] = y]
      BY Zenon DEF Apply, AfterFrame
    <2> HIDE DEF now, f
    <2>2. y = row
      <3>1. attempt[t][n] \in AttemptRow
        BY <1>1
      <3> QED
        BY <3>1 DEF AttemptRow
    <2> HIDE DEF row, y
    <2>3. attempt' = WithPlace(attempt, t, n, y)
      BY <2>1, Zenon DEF WithPlace
    <2> QED
      BY <2>2, <2>3
  <1>5. holder' = [holder EXCEPT ![h] = v]
    <2> DEFINE y == [holder[h] EXCEPT
                       !.mem = now, !.inflight = FALSE,
                       !.pc = CASE f[1] = "end" -> "ended"
                                [] f[1] = "refused" -> "refused"
                                [] OTHER -> @,
                       !.outcome = IF f[1] \in {"end", "refused"} THEN f[2] ELSE @]
    <2>1. holder' = [holder EXCEPT ![h] = y]
      BY Zenon DEF Apply, AfterFrame
    <2> HIDE DEF now, f
    <2>2. y = v
      <3> DEFINE x == holder[h]
      <3>1. x \in HolderRow
        BY <1>1
      <3> HIDE DEF o
      <3>2. o = IF f[1] \in {"end", "refused"} THEN f[2] ELSE x.outcome
        BY DEF o
      <3> QED
        BY <3>1, <3>2 DEF HolderRow
    <2> HIDE DEF v, y
    <2> QED
      BY <2>1, <2>2
  <1>6. now \in RunnerStates /\ now.at = mem.at
    BY <1>1, <1>2, AfterFrameFits
  <1>7. /\ st \in AttemptStatuses
        /\ o \in Outcomes \cup Messages \cup {None}
        /\ pc \in {"ended", "refused", "pump"}
        /\ pc = "ended" => o \in Outcomes
        /\ pc = "refused" => o \in Messages
    <2>1. attempt[t][n].status \in AttemptStatuses /\ holder[h].outcome \in Outcomes \cup Messages \cup {None}
      BY <1>1 DEF AttemptRow, HolderRow
    <2>2. \/ f[1] = "began" /\ f[2] \in BOOLEAN
          \/ f[1] \in {"ack", "refused", "took"} /\ f[2] \in Messages
          \/ f[1] = "end" /\ f[2] \in Outcomes
      BY <1>2, FrameSays
    <2> HIDE DEF f
    <2> QED
      BY <1>1, <2>1, <2>2 DEF Outcomes, AttemptStatuses
  <1>8. command' \in [TurnIds -> SUBSET Commands]
    <2> HIDE DEF f
    <2> QED
      BY <1>1, <1>3 DEF TablesFit
  <1> HIDE DEF now, st, pc, o
  <1>9. row \in AttemptRow /\ row.runner = now
    BY <1>1, <1>6, <1>7 DEF AttemptRow
  <1>10. /\ v \in HolderRow /\ v.pc = pc /\ v.outcome = o /\ v.mem = now /\ v.n = n /\ v.turn = t
         /\ v.chan = c /\ v.inflight = FALSE
    <2>1. pc \in Places
      BY <1>7 DEF Places
    <2> QED
      BY <1>1, <1>6, <1>7, <2>1 DEF HolderRow
  <1> HIDE DEF row, v
  <1>11. Len(attempt'[t]) = Len(attempt[t])
    BY <1>1, <1>4, <1>9, AttemptWrite DEF AttemptPut
  <1>12. /\ runner' \in [TurnIds -> Seq(RunnerRow)]
         /\ \A u \in TurnIds : Len(runner'[u]) >= Len(runner[u])
    <2>1. \A u \in TurnIds : Len(runner[u]) \in Nat
      BY <1>1, Lengths
    <2> QED
      BY <1>1, <2>1 DEF TablesFit
  <1>13. Drives(t)
    BY <1>1, DrivesNothing
  <1>14. holder'[h] = v
    BY <1>1, <1>5, <1>10, HolderKeeps
  <1>15. HolderFits(h)'
    <2>1. /\ v.n \in 0 .. Len(attempt'[t]) /\ v.mem.at \in 1 .. Len(runner'[t]) /\ v.chan = v.mem.at
          /\ v.chan \in 0 .. Len(runner'[t])
      BY <1>1, <1>6, <1>10, <1>11
    <2>2. /\ v.pc \in {"ended", "refused", "pump"} /\ v.mem \in RunnerStates
          /\ v.pc = "ended" => v.outcome \in Outcomes
          /\ v.pc = "refused" => v.outcome \in Messages
      BY <1>6, <1>7, <1>10
    <2> HIDE DEF n, c
    <2> QED
      BY <1>1, <1>10, <1>14, <2>1, <2>2 DEF HolderFits
  <1>16. holder[h].pc # "idle" /\ row.runner.at \in 1 .. Len(runner'[t])
    BY <1>1, <1>6, <1>9
  <1> HIDE DEF n, c, f, r, mem
  <1> QED
    BY <1>1, <1>4, <1>5, <1>8, <1>9, <1>10, <1>12, <1>13, <1>15, <1>16, RecordsStep

(* A refused message starts the attempt again.                             *)
LEMMA RestartWithKeeps ==
    ASSUME Inv1, NEW h \in Holders, RestartWith(h)
    PROVE  Inv1' /\ Step1
  <1> DEFINE t == holder[h].turn
             n == holder[h].n
             mem == holder[h].mem
             now == [mem EXCEPT !.restartWith = @ \cup {holder[h].outcome}]
             row == [attempt[t][n] EXCEPT !.runner = now]
             v == [holder[h] EXCEPT !.pc = "pump", !.mem = now, !.outcome = None, !.inflight = FALSE]
  <1>1. /\ TablesFit /\ holder[h] \in HolderRow /\ holder[h].pc = "refused" /\ May(h) /\ t \in TurnIds
        /\ turn[t].status # "none"
        /\ mem \in RunnerStates /\ holder[h].outcome \in Messages
        /\ n # 0 /\ n \in 0 .. Len(attempt[t]) /\ n \in 1 .. Len(attempt[t])
        /\ attempt[t][n] \in AttemptRow
        /\ mem.at \in 1 .. Len(runner[t]) /\ holder[h].chan = mem.at
        /\ turn' = turn /\ item' = item /\ sent' = sent /\ runner' = runner
        /\ acts' = acts /\ faults' = faults
    BY InPlace DEF RestartWith
  <1>2. /\ runner' \in [TurnIds -> Seq(RunnerRow)]
        /\ \A u \in TurnIds : Len(runner'[u]) >= Len(runner[u])
    <2>1. \A u \in TurnIds : Len(runner[u]) \in Nat
      BY <1>1, Lengths
    <2> QED
      BY <1>1, <2>1 DEF TablesFit
  <1>3. command' \in [TurnIds -> SUBSET Commands]
    <2>1. command' = [command EXCEPT ![t] = @ \cup {<<"interrupt">>}]
      BY Zenon DEF RestartWith
    <2> QED
      BY <1>1, <2>1 DEF TablesFit, Commands
  <1>4. now \in RunnerStates /\ now.at = mem.at
    <2> DEFINE o == holder[h].outcome
               x == mem.restartWith \cup {o}
    <2>1. x \in SUBSET Messages
      BY <1>1 DEF RunnerStates
    <2> HIDE DEF x
    <2>2. now = [mem EXCEPT !.restartWith = x]
      BY DEF x
    <2> HIDE DEF now
    <2> QED
      BY <1>1, <2>1, <2>2 DEF RunnerStates
  <1>5. attempt' = WithPlace(attempt, t, n, row)
    <2>1. attempt' = [attempt EXCEPT ![t][n].runner = now]
      BY Zenon DEF RestartWith
    <2> HIDE DEF now
    <2> QED
      BY <2>1 DEF WithPlace
  <1>6. holder' = [holder EXCEPT ![h] = v]
    <2>1. holder' = [holder EXCEPT ![h] =
                [@ EXCEPT !.pc = "pump", !.mem = now, !.outcome = None, !.inflight = FALSE]]
      BY Zenon DEF RestartWith
    <2> HIDE DEF now
    <2> QED
      BY <2>1
  <1> HIDE DEF now
  <1>7. row \in AttemptRow /\ row.runner = now
    BY <1>1, <1>4 DEF AttemptRow
  <1>8. /\ v \in HolderRow /\ v.pc = "pump" /\ v.n = n /\ v.turn = t /\ v.mem = now
        /\ v.chan = holder[h].chan /\ v.inflight = FALSE
    BY <1>1, <1>4 DEF HolderRow, Places
  <1> HIDE DEF row, v
  <1>9. Len(attempt'[t]) = Len(attempt[t])
    BY <1>1, <1>5, <1>7, AttemptWrite DEF AttemptPut
  <1>10. Drives(t)
    BY <1>1, DrivesNothing
  <1>11. holder'[h] = v
    BY <1>1, <1>6, <1>8, HolderKeeps
  <1>12. HolderFits(h)'
    <2>1. /\ v.n \in 0 .. Len(attempt'[t]) /\ v.mem.at \in 1 .. Len(runner'[t]) /\ v.chan = v.mem.at
          /\ v.chan \in 0 .. Len(runner'[t])
      BY <1>1, <1>4, <1>8, <1>9
    <2> HIDE DEF n, mem
    <2> QED
      BY <1>1, <1>4, <1>8, <1>11, <2>1 DEF HolderFits
  <1>13. holder[h].pc # "idle" /\ row.runner.at \in 1 .. Len(runner'[t])
    BY <1>1, <1>4, <1>7
  <1> HIDE DEF n, mem
  <1> QED
    BY <1>1, <1>2, <1>3, <1>5, <1>6, <1>7, <1>8, <1>10, <1>12, <1>13, RecordsStep

(* The attempt that is to start again gives way to the next.               *)
LEMMA RestartKeeps ==
    ASSUME Inv1, NEW h \in Holders, Restart(h)
    PROVE  Inv1' /\ Step1
  <1> DEFINE t == holder[h].turn
             n == holder[h].n
             row == [attempt[t][n] EXCEPT !.status = "superseded"]
             v == [Idle EXCEPT !.pc = "attempt", !.turn = t]
  <1>1. /\ TablesFit /\ holder[h] \in HolderRow /\ holder[h].pc = "ended" /\ May(h) /\ t \in TurnIds
        /\ turn[t].status # "none"
        /\ n # 0 /\ n \in 0 .. Len(attempt[t]) /\ n \in 1 .. Len(attempt[t])
        /\ attempt[t][n] \in AttemptRow
        /\ item' = item /\ sent' = sent /\ runner' = runner
        /\ acts' = acts /\ faults' = faults
    BY InPlace DEF Restart, Restarts
  <1>2. /\ runner' \in [TurnIds -> Seq(RunnerRow)]
        /\ \A u \in TurnIds : Len(runner'[u]) >= Len(runner[u])
    <2>1. \A u \in TurnIds : Len(runner[u]) \in Nat
      BY <1>1, Lengths
    <2> QED
      BY <1>1, <2>1 DEF TablesFit
  <1>3. /\ command' = [command EXCEPT ![t] = {}]
        /\ turn' = PutActive(t, "preparing")
        /\ holder' = [holder EXCEPT ![h] = v]
    BY Zenon DEF Restart
  <1>4. attempt' = WithPlace(attempt, t, n, row)
    <2>1. attempt' = [attempt EXCEPT ![t][n].status = "superseded"]
      BY Zenon DEF Restart
    <2> QED
      BY <2>1 DEF WithPlace
  <1>5. command' \in [TurnIds -> SUBSET Commands]
    BY <1>1, <1>3 DEF TablesFit
  <1>6. row \in AttemptRow /\ row.runner = attempt[t][n].runner
    BY <1>1 DEF AttemptRow, AttemptStatuses
  <1> HIDE DEF row
  <1>7. v \in HolderRow /\ v.pc = "attempt" /\ v.n = 0 /\ v.turn = t /\ v.chan = 0 /\ v.inflight = FALSE
    <2>1. "attempt" \in Places
      BY DEF Places
    <2> QED
      BY <1>1, <2>1, IdleRow
  <1> HIDE DEF v
  <1>8. Drives(t)
    <2>1. "preparing" \in Active /\ holder[h].pc \in Writers
      BY <1>1 DEF Active, Writers
    <2> QED
      BY <1>1, <1>3, <2>1, PutActiveKeeps
  <1>9. holder'[h] = v /\ turn'[t].status # "none" /\ Len(attempt'[t]) \in Nat
    <2>1. holder'[h] = v
      BY <1>1, <1>3, <1>7, HolderKeeps
    <2>2. turn'[t].status # "none"
      BY <1>1, <1>8 DEF Drives
    <2>3. Len(attempt'[t]) = Len(attempt[t])
      BY <1>1, <1>4, <1>6, AttemptWrite DEF AttemptPut
    <2>4. Len(attempt[t]) \in Nat
      BY <1>1, Lengths
    <2> QED
      BY <2>1, <2>2, <2>3, <2>4
  <1>10. HolderFits(h)'
    <2>1. v.n \in 0 .. Len(attempt'[t])
      BY <1>7, <1>9
    <2>2. v.chan \in 0 .. Len(runner'[t])
      <3>1. Len(runner'[t]) \in Nat
        BY <1>1, Lengths
      <3> QED
        BY <1>7, <3>1
    <2> QED
      BY <1>1, <1>7, <1>9, <2>1, <2>2 DEF HolderFits
  <1>11. holder[h].pc # "idle" /\ holder' = [holder EXCEPT ![h] = v]
    BY <1>1, <1>3
  <1> HIDE DEF n
  <1> QED
    BY <1>1, <1>2, <1>4, <1>5, <1>6, <1>7, <1>8, <1>10, <1>11, RecordsStep

(* A holder puts its turn where it belongs, and goes on.                   *)
LEMMA PutsStep ==
    ASSUME Inv1, NEW h \in Holders, holder[h].pc \in {"ended", "killed"}, May(h),
           NEW s \in Active, turn' = PutActive(holder[h].turn, s),
           item' = item, sent' = sent, acts' = acts, faults' = faults,
           attempt' = attempt, runner' = runner,
           command' \in [TurnIds -> SUBSET Commands],
           s # "running", NEW p \in {"waits", "settle"},
           holder' = [holder EXCEPT ![h].pc = p, ![h].inflight = FALSE]
    PROVE  Inv1' /\ Step1
  <1> DEFINE t == holder[h].turn
             v == [holder[h] EXCEPT !.pc = p, !.inflight = FALSE]
  <1>1. /\ TablesFit /\ holder[h] \in HolderRow /\ t \in TurnIds
        /\ turn[t].status # "none"
        /\ holder[h].n # 0 /\ holder[h].n \in 0 .. Len(attempt[t])
        /\ holder[h].outcome \in Outcomes /\ holder[h].chan \in 0 .. Len(runner[t])
    BY InPlace
  <1>2. holder' = [holder EXCEPT ![h] = v]
    BY <1>1 DEF TablesFit
  <1>3. /\ v \in HolderRow /\ v.pc = p /\ v.n = holder[h].n /\ v.turn = t
        /\ v.outcome = holder[h].outcome /\ v.inflight = FALSE /\ v.chan = holder[h].chan
    BY <1>1 DEF HolderRow, Places
  <1> HIDE DEF v
  <1>4. holder[h].pc \in Writers /\ holder[h].pc # "idle"
    BY DEF Writers
  <1> HIDE DEF t
  <1>5. Drives(t) /\ (turn[t].status \notin Settled => turn'[t].status = s)
    <2>1. 0 \in Nat
      OBVIOUS
    <2> QED
      BY <1>1, <1>4, <2>1, PutActiveKeeps DEF t
  <1>6. turn'[t].status # "none"
    BY <1>1, <1>5 DEF Drives
  <1>7. \A u \in TurnIds : turn'[u].status = "running" => turn[u].status = "running"
    <2>1. turn'[t].status = "running" => turn[t].status = "running"
      BY <1>1, <1>5 DEF Drives, Settled
    <2> QED
      BY <1>5, <2>1 DEF Drives
  <1>8. holder'[h] = v
    BY <1>1, <1>2, <1>3, HolderKeeps
  <1>9. HolderFits(h)'
    <2>1. v.n \in 0 .. Len(attempt'[t]) /\ v.n # 0 /\ v.chan \in 0 .. Len(runner'[t])
      BY <1>1, <1>3
    <2> QED
      BY <1>1, <1>3, <1>6, <1>8, <2>1 DEF HolderFits
  <1> QED
    BY <1>1, <1>2, <1>3, <1>4, <1>5, <1>7, <1>9, EndsStep DEF t

(* A passing failure is tried once more.                                   *)
LEMMA RetryFailureKeeps ==
    ASSUME Inv1, NEW h \in Holders, RetryFailure(h)
    PROVE  Inv1' /\ Step1
  <1> DEFINE t == holder[h].turn
  <1>1. /\ TablesFit /\ t \in TurnIds /\ holder[h].pc \in {"ended", "killed"} /\ May(h)
        /\ item' = item /\ sent' = sent /\ acts' = acts /\ faults' = faults
        /\ attempt' = attempt /\ runner' = runner
        /\ holder' = [holder EXCEPT ![h].pc = "waits", ![h].inflight = FALSE]
    BY InPlace DEF RetryFailure
  <1>2. turn' = PutActive(holder[h].turn, "preparing")
    BY Zenon DEF RetryFailure
  <1>3. command' \in [TurnIds -> SUBSET Commands]
    <2>1. command' = [command EXCEPT ![t] =
                IF runner[t][holder[h].chan].halt THEN @ \ {<<"interrupt">>} ELSE @]
      BY Zenon DEF RetryFailure
    <2> QED
      BY <1>1, <2>1 DEF TablesFit
  <1>4. "preparing" \in Active /\ "preparing" # "running" /\ "waits" \in {"waits", "settle"}
    BY DEF Active
  <1> QED
    BY <1>1, <1>2, <1>3, <1>4, PutsStep

(* The turn saves what it did.                                             *)
LEMMA FinalizeKeeps ==
    ASSUME Inv1, NEW h \in Holders, Finalize(h)
    PROVE  Inv1' /\ Step1
  <1>1. /\ holder[h].pc \in {"ended", "killed"} /\ May(h)
        /\ item' = item /\ sent' = sent /\ acts' = acts /\ faults' = faults
        /\ attempt' = attempt /\ runner' = runner /\ command' = command
        /\ holder' = [holder EXCEPT ![h].pc = "settle", ![h].inflight = FALSE]
        /\ turn' = PutActive(holder[h].turn, "finalizing")
    BY DEF Finalize
  <1>2. command' \in [TurnIds -> SUBSET Commands]
    BY <1>1 DEF Inv1, TablesFit
  <1>4. "finalizing" \in Active /\ "finalizing" # "running" /\ "settle" \in {"waits", "settle"}
    BY DEF Active
  <1> QED
    BY <1>1, <1>2, <1>4, PutsStep

-----------------------------------------------------------------------------
(* How turns end: what nobody read becomes turns of its own.               *)

(* What a table of turns may be after turns of S have ended, before and    *)
(* after their unread messages have turns.                                 *)
Closes(S, U) ==
    /\ TurnsFit(U) /\ Onward(turn, U)
    /\ \A u \in TurnIds :
         /\ U[u].status = "running" => turn[u].status = "running"
         /\ U[u].status \in Over => u \in S \/ turn[u].status \in Over
         /\ Timely /\ turn[u].status \in Settled =>
               U[u].status = turn[u].status \/ (U[u].status = "queued" /\ acts' # acts)
Adds(S, U) == \A m \in Messages :
    IF m \in Moved(S) THEN U[Own(m)].status # "none"
    ELSE U[Own(m)].status = "none" <=> turn[Own(m)].status = "none"

(* requeueSteers, on turns that have been closed.                          *)
LEMMA RequeueCloses ==
    ASSUME Inv1, NEW S, NEW T, Closes(S, T),
           \A u \in TurnIds : T[u].status = "none" <=> turn[u].status = "none"
    PROVE  Closes(S, RequeueSteers(T, S)) /\ Adds(S, RequeueSteers(T, S))
  <1> DEFINE U == RequeueSteers(T, S)
  <1>1. ItemsFit /\ sent \in Seq(Messages) /\ TurnsFit(T) /\ Onward(turn, T)
    BY DEF Inv1, TablesFit, Closes
  <1>2. /\ TurnsFit(U)
        /\ \A m \in Moved(S) : /\ T[Own(m)].status = "none"
                               /\ U[Own(m)].status = "queued"
                               /\ ~U[Own(m)].stop /\ ~U[Own(m)].live
        /\ \A t \in TurnIds : (\A m \in Moved(S) : t # Own(m)) => U[t] = T[t]
    BY <1>1, RequeueKeeps
  <1> HIDE DEF U
  <1>3. Moved(S) \subseteq Messages
    BY DEF Moved
  <1>4. \A u \in TurnIds : \/ U[u] = T[u]
                           \/ /\ turn[u].status = "none" /\ U[u].status = "queued"
                              /\ ~turn[u].stop /\ ~U[u].stop
    <2>1. ASSUME NEW u \in TurnIds, NEW m \in Moved(S), u = Own(m)
          PROVE  turn[u].status = "none" /\ U[u].status = "queued" /\ ~turn[u].stop /\ ~U[u].stop
      <3>1. turn[u].status = "none" /\ U[u].status = "queued" /\ ~U[u].stop
        BY <1>2, <2>1
      <3>2. RowFits(turn[u])
        BY Rows
      <3> QED
        BY <3>1, <3>2 DEF RowFits, Active
    <2> QED
      BY <1>2, <2>1
  <1>5. Onward(turn, U)
    BY <1>1, <1>4 DEF Onward, Settled
  <1>6. Closes(S, U)
    BY <1>2, <1>4, <1>5 DEF Closes, Over, Settled
  <1>7. Adds(S, U)
    <2>1. ASSUME NEW m \in Messages, m \notin Moved(S) PROVE U[Own(m)] = T[Own(m)]
      BY <1>2, <1>3, <2>1, Names
    <2>2. \A m \in Messages : Own(m) \in TurnIds
      BY Names
    <2> QED
      BY <1>2, <2>1, <2>2 DEF Adds
  <1> QED
    BY <1>6, <1>7 DEF U

(* What has been read of a turn.                                           *)
Read(t) == UNION {ConsumedBy(attempt[t][i]) : i \in DOMAIN attempt[t]}

(* Where the messages are after it.                                        *)
LEMMA RequeuedItemsKeep ==
    ASSUME Inv1, NEW S, S \subseteq TurnIds, item' = RequeuedItems(S), sent' = sent, Adds(S, turn'),
           \A u \in TurnIds : Read(u)' = Read(u)
    PROVE  /\ item' \in [Messages -> TurnIds \cup {None}]
           /\ ItemsFit'
           /\ \A u \in TurnIds : Unread(u)' \subseteq Unread(u)
           /\ \A u \in S : Unread(u)' = {}
  <1>1. /\ item \in [Messages -> TurnIds \cup {None}] /\ ItemsFit /\ sent \in Seq(Messages)
    BY DEF Inv1, TablesFit
  <1>2. \A m \in Messages : item'[m] = IF m \in Moved(S) THEN Own(m) ELSE item[m]
    BY DEF RequeuedItems, Moved
  <1>3. item' = [m \in Messages |-> item'[m]]
    BY DEF RequeuedItems
  <1>4. item' \in [Messages -> TurnIds \cup {None}]
    <2>1. \A m \in Messages : item'[m] \in TurnIds \cup {None}
      BY <1>1, <1>2, Names
    <2> QED
      BY <1>3, <2>1
  <1>5. ItemsFit'
    <2>1. ASSUME NEW m \in Messages PROVE item'[m] = Own(m) <=> turn'[Own(m)].status # "none"
      BY <1>1, <1>2 DEF Adds, ItemsFit
    <2>2. ASSUME NEW i \in 1 .. Len(sent') PROVE item'[sent'[i]] # None
      <3>1. sent[i] \in Messages /\ item[sent[i]] # None
        <4>1. i \in 1 .. Len(sent)
          OBVIOUS
        <4> QED
          BY <1>1, <4>1, ElementOfSeq DEF ItemsFit
      <3> QED
        BY <1>2, <3>1, Names
    <2> QED
      BY <2>1, <2>2 DEF ItemsFit
  <1>6. \A u : Unread(u) = {m \in Messages : item[m] = u /\ u # Own(m)} \ Read(u)
    BY DEF Unread, SteeredItems, Read
  <1>7. \A u : Unread(u)' = {m \in Messages : item'[m] = u /\ u # Own(m)} \ Read(u)'
    BY DEF Unread, SteeredItems, Read
  <1>8. \A u \in TurnIds : Unread(u)' \subseteq Unread(u)
    BY <1>2, <1>6, <1>7
  <1>9. ASSUME NEW u \in S PROVE Unread(u)' = {}
    <2>1. ASSUME NEW m \in Unread(u)' PROVE FALSE
      <3>1. u \in TurnIds /\ m \in Unread(u)
        BY <1>8, <2>1
      <3>2. m \in Moved(S)
        BY <1>6, <3>1 DEF Moved
      <3> QED
        BY <1>2, <1>7, <2>1, <3>2 DEF Moved
    <2> QED
      BY <2>1
  <1> QED
    BY <1>4, <1>5, <1>8, <1>9

(* An attempt's status may change, its runner does not; one that is added  *)
(* has none.                                                               *)
SameRunners ==
    /\ attempt' \in [TurnIds -> Seq(AttemptRow)]
    /\ \A u \in TurnIds : Len(attempt'[u]) >= Len(attempt[u])
    /\ \A u \in TurnIds : \A i \in 1 .. Len(attempt'[u]) :
            IF i \in 1 .. Len(attempt[u]) THEN attempt'[u][i].runner = attempt[u][i].runner
            ELSE attempt'[u][i].runner = None

(* Turns of S end.                                                         *)
LEMMA ClosingStep ==
    ASSUME Inv1, NEW S, S \subseteq TurnIds, Closes(S, turn'), Adds(S, turn'),
           item' = RequeuedItems(S), sent' = sent, runner' = runner,
           command' \in [TurnIds -> SUBSET Commands], acts' \in 0 .. MaxActs,
           faults' = faults,
           SameRunners,
           holder' \in [Holders -> HolderRow],
           \A h \in Holders : holder'[h] = holder[h] \/ holder'[h].pc = "idle"
    PROVE  Inv1' /\ Step1
  <1>0. /\ attempt' \in [TurnIds -> Seq(AttemptRow)]
        /\ \A u \in TurnIds : Len(attempt'[u]) >= Len(attempt[u])
        /\ \A u \in TurnIds : \A i \in 1 .. Len(attempt'[u]) :
                \/ i \in 1 .. Len(attempt[u]) /\ attempt'[u][i].runner = attempt[u][i].runner
                \/ i \notin 1 .. Len(attempt[u]) /\ attempt'[u][i].runner = None
    BY DEF SameRunners
  <1>1. TablesFit
    BY DEF Inv1
  <1>2. \A u \in TurnIds : /\ Len(attempt[u]) \in Nat /\ DOMAIN attempt[u] = 1 .. Len(attempt[u])
                           /\ DOMAIN attempt'[u] = 1 .. Len(attempt'[u]) /\ Len(attempt'[u]) \in Nat
    <2>1. \A u \in TurnIds : Len(attempt[u]) \in Nat /\ DOMAIN attempt[u] = 1 .. Len(attempt[u])
      BY <1>1, Lengths
    <2>2. \A u \in TurnIds : attempt'[u] \in Seq(AttemptRow)
      BY <1>0
    <2>3. \A u \in TurnIds : DOMAIN attempt'[u] = 1 .. Len(attempt'[u]) /\ Len(attempt'[u]) \in Nat
      BY <2>2, LenProperties
    <2> QED
      BY <2>1, <2>3
  <1>3. \A u \in TurnIds : Read(u)' = Read(u)
    <2> SUFFICES ASSUME NEW u \in TurnIds PROVE Read(u)' = Read(u)
      OBVIOUS
    <2>1. \A i \in DOMAIN attempt[u] :
            i \in DOMAIN attempt'[u] /\ ConsumedBy(attempt'[u][i]) = ConsumedBy(attempt[u][i])
      <3>1. \A i \in 1 .. Len(attempt[u]) : i \in 1 .. Len(attempt'[u])
        BY <1>0, <1>2
      <3> QED
        BY <1>0, <1>2, <3>1 DEF ConsumedBy
    <2>2. \A i \in DOMAIN attempt'[u] : i \notin DOMAIN attempt[u] => ConsumedBy(attempt'[u][i]) = {}
      BY <1>0, <1>2 DEF ConsumedBy
    <2>3. Read(u)' = UNION {ConsumedBy(attempt'[u][i]) : i \in DOMAIN attempt'[u]}
      BY DEF Read, ConsumedBy
    <2> QED
      BY <2>1, <2>2, <2>3 DEF Read
  <1>4. /\ item' \in [Messages -> TurnIds \cup {None}] /\ ItemsFit'
        /\ \A u \in TurnIds : Unread(u)' \subseteq Unread(u)
        /\ \A u \in S : Unread(u)' = {}
    BY <1>3, RequeuedItemsKeep
  <1>5. TurnsFit(turn)' /\ Onward(turn, turn')
    BY DEF Closes, TurnsFit, RowFits
  <1>6. TablesFit'
    BY <1>0, <1>1, <1>4 DEF TablesFit
  <1>7. Grows
    BY <1>0, <1>1, <1>2, Lengths DEF Grows
  <1>8. AttemptsFit'
    <2>1. \A u \in TurnIds : turn'[u].status = "running" => turn[u].status = "running"
      BY DEF Closes
    <2>2. \A u \in TurnIds : \A i \in 1 .. Len(attempt'[u]) :
            \/ i \in 1 .. Len(attempt[u]) /\ attempt'[u][i].runner = attempt[u][i].runner
            \/ attempt'[u][i].runner = None
      BY <1>0
    <2>3. AttemptsFit
      BY DEF Inv1
    <2> QED
      BY <1>1, <1>6, <1>7, <2>1, <2>2, <2>3, AttemptsKeep
  <1>9. \A h \in Holders : HolderFits(h)'
    <2>1. \A h \in Holders : HolderFits(h)
      BY DEF Inv1
    <2>2. \A h \in Holders : holder'[h].pc = "idle" => HolderFits(h)'
      BY DEF HolderFits
    <2> QED
      BY <1>1, <1>5, <1>6, <1>7, <2>1, <2>2, OthersFit
  <1>10. NoneLeft'
    <2> SUFFICES ASSUME Timely', NEW u \in TurnIds, turn'[u].status \in Over
                 PROVE  Unread(u)' = {}
      BY DEF NoneLeft
    <2>1. Timely
      BY DEF Timely
    <2>2. u \in S \/ turn[u].status \in Over
      BY DEF Closes
    <2>3. turn[u].status \in Over => Unread(u) = {}
      BY <2>1 DEF Inv1, NoneLeft
    <2> QED
      BY <1>4, <2>2, <2>3
  <1>11. Inv1'
    BY <1>4, <1>5, <1>6, <1>8, <1>9, <1>10 DEF Inv1
  <1>12. Stays
    BY DEF Closes, Stays
  <1> QED
    BY <1>5, <1>11, <1>12 DEF Step1

(* A status is written in an attempt.                                      *)
LEMMA StatusWrite ==
    ASSUME TablesFit, NEW t \in TurnIds, NEW n \in 1 .. Len(attempt[t]), NEW s \in AttemptStatuses,
           attempt' = [attempt EXCEPT ![t][n].status = s]
    PROVE  SameRunners
  <1> DEFINE row == [attempt[t][n] EXCEPT !.status = s]
  <1>1. row \in AttemptRow /\ row.runner = attempt[t][n].runner
    BY Lengths DEF AttemptRow
  <1>2. attempt' = WithPlace(attempt, t, n, row)
    BY DEF WithPlace
  <1> HIDE DEF row
  <1>3. AttemptPut(t, n, row)
    BY <1>1, <1>2, AttemptWrite
  <1>4. \A u \in TurnIds : Len(attempt[u]) \in Nat
    BY Lengths
  <1> QED
    BY <1>1, <1>3, <1>4 DEF AttemptPut, SameRunners

(* A row of a turn that its holder closes.                                 *)
Closed(t, row) ==
    /\ row \in TurnRow /\ ~row.live /\ ~row.stop
    /\ row.status \in Over \cup {"queued"}
    /\ turn[t].stop => row.status \in Over
ClosedOnly(t, row) == \A u \in TurnIds :
    /\ WithRow(turn, t, row)[u] = IF u = t THEN row ELSE turn[u]
    /\ WithRow(turn, t, row)[u].status = "none" <=> turn[u].status = "none"

(* Closing a turn closes it in the table.                                  *)
LEMMA ClosedCloses ==
    ASSUME Inv1, NEW h \in Holders, holder[h].pc # "idle", May(h),
           NEW t \in TurnIds, t = holder[h].turn, NEW row, Closed(t, row),
           NEW S, row.status = "queued" \/ t \in S
    PROVE  Closes(S, WithRow(turn, t, row)) /\ ClosedOnly(t, row)
  <1> DEFINE U == WithRow(turn, t, row)
  <1>1. TurnsFit(turn) /\ turn[t].status # "none" /\ (Timely => turn[t].status \in Active)
    BY Driven DEF Inv1
  <1>2. RowFits(row) /\ Alone(turn, t, row) /\ row \in TurnRow
    BY DEF Closed, RowFits, Alone, Active, Over
  <1>3. TurnsFit(U) /\ \A u \in TurnIds : U[u] = IF u = t THEN row ELSE turn[u]
    BY <1>1, <1>2, RowKeeps
  <1> HIDE DEF U
  <1>4. row.status # "none" /\ row.status # "running" /\ row.status \notin Active
    BY DEF Closed, Over, Active
  <1>5. Onward(turn, U)
    <2>1. turn[t].stop => row.status \in Settled
      BY DEF Closed, Over, Settled
    <2>2. \A u \in TurnIds : turn[u].status \in Settled => turn[u].status \notin Active
      BY DEF Settled, Active
    <2> QED
      BY <1>3, <1>4, <2>1, <2>2 DEF Onward
  <1>6. row.status \in Over => t \in S
    BY DEF Over
  <1>7. Timely => turn[t].status \notin Settled
    BY <1>1 DEF Active, Settled
  <1>8. Closes(S, U)
    BY <1>3, <1>4, <1>5, <1>6, <1>7 DEF Closes
  <1> QED
    BY <1>1, <1>3, <1>4, <1>8 DEF U, ClosedOnly

(* A turn settles.                                                         *)
LEMMA SettleKeeps ==
    ASSUME Inv1, NEW h \in Holders, Settle(h)
    PROVE  Inv1' /\ Step1
  <1> DEFINE t == holder[h].turn
             n == holder[h].n
             status == SettledStatus(t, holder[h].outcome)
             ends == IF status = "queued" THEN {} ELSE {t}
             row == [turn[t] EXCEPT !.status = status, !.stop = FALSE,
                                    !.due = holder[h].outcome # "transient",
                                    !.token = None, !.live = FALSE]
  <1>1. /\ TablesFit /\ t \in TurnIds /\ holder[h].pc \in {"settle", "refuse"} /\ May(h)
        /\ holder[h].pc # "idle"
        /\ holder[h].outcome \in Outcomes /\ n \in 0 .. Len(attempt[t]) /\ n \in Nat
        /\ turn[t] \in TurnRow
        /\ sent' = sent /\ runner' = runner /\ acts' = acts /\ faults' = faults
    BY InPlace, Driven DEF Settle
  <1>2. status \in Over \cup {"queued"} /\ (turn[t].stop => status \in Over)
    BY <1>1 DEF SettledStatus, Outcomes, Over
  <1>3. turn' = RequeueSteers(WithRow(turn, t, row), ends)
    <2>1. turn' = RequeueSteers([turn EXCEPT ![t] =
                [@ EXCEPT !.status = status, !.stop = FALSE,
                          !.due = holder[h].outcome # "transient",
                          !.token = None, !.live = FALSE]], ends)
      BY Zenon DEF Settle
    <2> QED
      BY <2>1, Zenon DEF WithRow
  <1>4. item' = RequeuedItems(ends) /\ command' = [command EXCEPT ![t] = {}]
    BY Zenon DEF Settle
  <1>5. holder' = [holder EXCEPT ![h] = Idle]
    BY DEF Settle
  <1> DEFINE new == [NewAttempt EXCEPT !.status = "failed"]
  <1>6. \/ attempt' = attempt
        \/ n # 0 /\ \E s \in AttemptStatuses : attempt' = [attempt EXCEPT ![t][n].status = s]
        \/ attempt' = WithAppended(attempt, t, new)
    <2>1. attempt' = IF holder[h].pc = "refuse" THEN attempt
                     ELSE IF n = 0 THEN [attempt EXCEPT ![t] = Append(@, new)]
                     ELSE [attempt EXCEPT ![t][n].status =
                            IF @ \notin {"preparing", "running"} THEN @
                            ELSE IF holder[h].outcome = "transient" THEN "failed"
                            ELSE holder[h].outcome]
      BY Zenon DEF Settle
    <2> DEFINE s == IF attempt[t][n].status \notin {"preparing", "running"} THEN attempt[t][n].status
                    ELSE IF holder[h].outcome = "transient" THEN "failed"
                    ELSE holder[h].outcome
    <2> HIDE DEF new
    <2>2. CASE n = 0
      BY <2>1, <2>2 DEF WithAppended
    <2>3. CASE n # 0
      <3>1. n \in 1 .. Len(attempt[t])
        <4>1. Len(attempt[t]) \in Nat
          BY <1>1, Lengths
        <4> QED
          BY <1>1, <2>3, <4>1
      <3>2. attempt[t][n].status \in AttemptStatuses
        BY <1>1, <3>1, Lengths DEF AttemptRow
      <3>3. s \in AttemptStatuses
        BY <1>1, <3>2 DEF AttemptStatuses, Outcomes
      <3>4. attempt' = attempt \/ attempt' = [attempt EXCEPT ![t][n].status = s]
        BY <2>1, <2>3
      <3> HIDE DEF s
      <3> QED
        BY <2>3, <3>3, <3>4
    <2> QED
      BY <2>2, <2>3
  <1> DEFINE due == holder[h].outcome # "transient"
  <1>7. Closed(t, row) /\ row.status = status
    <2>1. status \in Statuses /\ due \in BOOLEAN /\ None \in Holders \cup {None}
      BY <1>2 DEF Over, Statuses, Settled
    <2>2. row = [turn[t] EXCEPT !.status = status, !.stop = FALSE, !.due = due,
                                !.token = None, !.live = FALSE]
      OBVIOUS
    <2> HIDE DEF row, status, due
    <2>3. row \in TurnRow /\ row.status = status /\ ~row.stop /\ ~row.live
      BY <1>1, <2>1, <2>2 DEF TurnRow
    <2> QED
      BY <1>2, <2>3 DEF Closed
  <1>8. ends \subseteq TurnIds /\ (status = "queued" \/ t \in ends)
    BY <1>1
  <1> HIDE DEF row, ends, status
  <1>9. Closes(ends, turn') /\ Adds(ends, turn')
    <2> DEFINE T == WithRow(turn, t, row)
    <2>1. /\ Closes(ends, T)
          /\ \A u \in TurnIds : T[u].status = "none" <=> turn[u].status = "none"
      <3>1. row.status = "queued" \/ t \in ends
        BY <1>7, <1>8
      <3>2. Closes(ends, T) /\ ClosedOnly(t, row)
        BY <1>1, <1>7, <3>1, ClosedCloses
      <3> QED
        BY <3>2 DEF ClosedOnly
    <2>2. turn' = RequeueSteers(T, ends)
      BY <1>3
    <2> HIDE DEF T
    <2>3. Closes(ends, RequeueSteers(T, ends)) /\ Adds(ends, RequeueSteers(T, ends))
      BY <2>1, RequeueCloses
    <2> QED
      BY <2>2, <2>3
  <1>10. SameRunners
    <2>1. CASE attempt' = attempt
      BY <1>1, <2>1, Lengths DEF TablesFit, SameRunners
    <2>2. ASSUME n # 0, NEW s \in AttemptStatuses, attempt' = [attempt EXCEPT ![t][n].status = s]
          PROVE  SameRunners
      <3>1. n \in 1 .. Len(attempt[t])
        <4>1. Len(attempt[t]) \in Nat
          BY <1>1, Lengths
        <4> QED
          BY <1>1, <2>2, <4>1
      <3> QED
        BY <1>1, <2>2, <3>1, StatusWrite
    <2>3. CASE attempt' = WithAppended(attempt, t, new)
      <3>1. new \in AttemptRow /\ new.runner = None
        BY DEF NewAttempt, AttemptRow, AttemptStatuses
      <3> HIDE DEF new
      <3>2. AttemptNew(t, new)
        BY <1>1, <2>3, <3>1, AttemptAdded
      <3>3. \A u \in TurnIds : Len(attempt[u]) \in Nat
        BY <1>1, Lengths
      <3>4. \A i \in 1 .. Len(attempt'[t]) : i \in 1 .. Len(attempt[t]) \/ i = Len(attempt[t]) + 1
        BY <1>1, <3>2, <3>3 DEF AttemptNew
      <3>5. \A i \in 1 .. Len(attempt'[t]) :
              IF i \in 1 .. Len(attempt[t]) THEN attempt'[t][i].runner = attempt[t][i].runner
              ELSE attempt'[t][i].runner = None
        BY <3>1, <3>2, <3>4 DEF AttemptNew
      <3> QED
        BY <1>1, <3>2, <3>5 DEF AttemptNew, SameRunners
    <2> QED
      BY <1>6, <2>1, <2>2, <2>3
  <1>11. command' \in [TurnIds -> SUBSET Commands] /\ acts' \in 0 .. MaxActs
    BY <1>1, <1>4 DEF TablesFit
  <1>12. /\ holder' \in [Holders -> HolderRow]
         /\ \A g \in Holders : holder'[g] = holder[g] \/ holder'[g].pc = "idle"
    BY <1>1, <1>5, IdleRow, HolderKeeps
  <1> QED
    BY <1>1, <1>4, <1>8, <1>9, <1>10, <1>11, <1>12, ClosingStep

(* A turn is lost.                                                         *)
LEMMA LoseKeeps ==
    ASSUME Inv1, NEW h \in Holders, Lose(h)
    PROVE  Inv1' /\ Step1
  <1> DEFINE t == holder[h].turn
             n == holder[h].n
             next == Continuation(t)
             row == [turn[t] EXCEPT !.status = "interrupted", !.stop = FALSE,
                                    !.token = None, !.live = FALSE]
             new == NewTurn(turn[t].ord + 1, 0)
             T == WithRow(turn, t, row)
             Continues(able) ==
                /\ able /\ holder[h].mem # None
                /\ holder[h].mem.harness \in session.named
                /\ Unread(t) = {} /\ ~turn[t].stop
                /\ \A u \in TurnIds : turn[u].ord <= turn[t].ord
                /\ turn[next].status = "none"
  <1>1. /\ TablesFit /\ t \in TurnIds /\ holder[h].pc = "lose" /\ May(h)
        /\ holder[h].pc # "idle" /\ n \in 1 .. Len(attempt[t])
        /\ turn[t] \in TurnRow /\ next \in TurnIds
        /\ sent' = sent /\ runner' = runner /\ acts' = acts /\ faults' = faults
        /\ holder' = [holder EXCEPT ![h] = Idle]
    BY InPlace, Driven DEF Lose
  <1>2. Closed(t, row)
    <2>1. "interrupted" \in Statuses /\ None \in Holders \cup {None}
      BY DEF Statuses, Settled
    <2>2. row \in TurnRow /\ row.status = "interrupted" /\ ~row.stop /\ ~row.live
      BY <1>1, <2>1 DEF TurnRow
    <2> QED
      BY <2>2 DEF Closed, Over
  <1>3. PICK able \in BOOLEAN :
            turn' = IF Continues(able) THEN [T EXCEPT ![next] = new] ELSE RequeueSteers(T, {t})
    <2>1. \E able \in BOOLEAN :
           turn' = IF Continues(able)
                   THEN [[turn EXCEPT ![t] = [@ EXCEPT !.status = "interrupted", !.stop = FALSE,
                                                       !.token = None, !.live = FALSE]]
                           EXCEPT ![next] = new]
                   ELSE RequeueSteers([turn EXCEPT ![t] =
                          [@ EXCEPT !.status = "interrupted", !.stop = FALSE,
                                    !.token = None, !.live = FALSE]], {t})
      BY Zenon DEF Lose
    <2> QED
      BY <2>1, Zenon DEF WithRow
  <1> DEFINE continues == Continues(able)
  <1>3a. item' = RequeuedItems({t}) /\ command' = [command EXCEPT ![t] = {}]
    BY Zenon DEF Lose
  <1>4. attempt' = [attempt EXCEPT ![t][n].status = "lost"]
    BY Zenon DEF Lose
  <1>5. "lost" \in AttemptStatuses
    BY DEF AttemptStatuses
  <1>6. /\ Closes({t}, T)
        /\ \A u \in TurnIds : T[u] = IF u = t THEN row ELSE turn[u]
        /\ \A u \in TurnIds : T[u].status = "none" <=> turn[u].status = "none"
    <2> DEFINE S == {t}
    <2>1. row.status = "queued" \/ t \in S
      OBVIOUS
    <2> HIDE DEF row, S
    <2>2. Closes(S, T) /\ ClosedOnly(t, row)
      BY <1>1, <1>2, <2>1, ClosedCloses
    <2> QED
      BY <2>2 DEF ClosedOnly, S
  <1> HIDE DEF row, T
  <1>7. Closes({t}, turn') /\ Adds({t}, turn')
    <2>1. CASE ~continues
      <3>1. turn' = RequeueSteers(T, {t})
        BY <1>3, <2>1
      <3>2. Closes({t}, RequeueSteers(T, {t})) /\ Adds({t}, RequeueSteers(T, {t}))
        BY <1>6, RequeueCloses
      <3> QED
        BY <3>1, <3>2
    <2>2. CASE continues
      <3>1. turn' = WithRow(T, next, new) /\ turn[next].status = "none" /\ Unread(t) = {}
        BY <1>3, <2>2 DEF WithRow
      <3>2. turn[t].ord + 1 \in Nat
        BY <1>1, Fields
      <3>3. /\ new \in TurnRow /\ RowFits(new) /\ new.status = "queued"
            /\ ~new.stop /\ ~new.live
        BY <3>2, NewTurnRow
      <3> HIDE DEF new
      <3>4. TurnsFit(T) /\ Alone(T, next, new)
        BY <1>6, <3>3 DEF Closes, Alone, Active
      <3>5. TurnsFit(turn') /\ \A u \in TurnIds : turn'[u] = IF u = next THEN new ELSE T[u]
        BY <1>1, <3>1, <3>3, <3>4, RowKeeps
      <3>6. ~turn[next].stop
        <4>1. RowFits(turn[next])
          BY <1>1, Rows
        <4> QED
          BY <3>1, <4>1 DEF RowFits, Active
      <3> HIDE DEF next
      <3>7. Onward(turn, turn')
        <4>1. Onward(turn, T)
          BY <1>6 DEF Closes
        <4> QED
          BY <3>1, <3>3, <3>5, <3>6, <4>1 DEF Onward, Settled
      <3>8. Closes({t}, turn')
        BY <1>6, <3>1, <3>3, <3>5, <3>7 DEF Closes, Over, Settled
      <3>9. Moved({t}) = {}
        BY <3>1 DEF Moved
      <3>10. \A m \in Messages : Own(m) \in TurnIds /\ Own(m) # next
        BY <1>1, Names DEF next
      <3>11. Adds({t}, turn')
        BY <1>6, <3>5, <3>9, <3>10 DEF Adds
      <3> QED
        BY <3>8, <3>11
    <2> QED
      BY <2>1, <2>2
  <1>8. SameRunners
    BY <1>1, <1>4, <1>5, StatusWrite
  <1>9. command' \in [TurnIds -> SUBSET Commands] /\ acts' \in 0 .. MaxActs /\ {t} \subseteq TurnIds
    BY <1>1, <1>3a DEF TablesFit
  <1>10. /\ holder' \in [Holders -> HolderRow]
         /\ \A g \in Holders : holder'[g] = holder[g] \/ holder'[g].pc = "idle"
    BY <1>1, IdleRow, HolderKeeps
  <1> QED
    BY <1>1, <1>7, <1>8, <1>9, <1>10, <1>3a, ClosingStep

-----------------------------------------------------------------------------
(* What people do to several turns at once.                                *)

(* The turn that works is asked to stop.                                   *)
LEMMA InterruptCommandsFit ==
    ASSUME TablesFit
    PROVE  InterruptCommands \in [TurnIds -> SUBSET Commands]
  <1>1. \A t \in TurnIds : command[t] \subseteq Commands /\ <<"interrupt">> \in Commands
    BY DEF TablesFit, Commands
  <1> QED
    BY <1>1 DEF InterruptCommands

(* Stopping the turn that works closes nothing.                            *)
LEMMA StopActiveCloses ==
    ASSUME NEW S, NEW U, Closes(S, U), Adds(S, U)
    PROVE  Closes(S, StopActive(U)) /\ Adds(S, StopActive(U))
  <1> DEFINE V == StopActive(U)
  <1>1. /\ TurnsFit(U) /\ TurnsFit(V)
        /\ \A t \in TurnIds : V[t].status = U[t].status /\ (U[t].stop => V[t].stop)
    BY StopActiveKeeps DEF Closes
  <1> HIDE DEF V
  <1>2. Onward(turn, V)
    <2>1. Onward(turn, U)
      BY DEF Closes
    <2> QED
      BY <1>1, <2>1 DEF Onward
  <1>3. Closes(S, V)
    BY <1>1, <1>2 DEF Closes
  <1>4. Adds(S, V)
    BY <1>1, Names DEF Adds
  <1> QED
    BY <1>3, <1>4 DEF V

(* A person stops what works and what waits to be tried again.             *)
LEMMA InterruptKeeps ==
    ASSUME Inv1, Interrupt
    PROVE  Inv1' /\ Step1
  <1> DEFINE waiting == {t \in TurnIds : WaitsToRetry(t)}
             ended == [t \in TurnIds |->
                         IF t \in waiting THEN [turn[t] EXCEPT !.status = "interrupted"]
                         ELSE turn[t]]
  <1>1. /\ TablesFit /\ TurnsFit(turn)
        /\ sent' = sent /\ attempt' = attempt /\ holder' = holder
        /\ runner' = runner /\ faults' = faults /\ command' = InterruptCommands
        /\ acts' \in 0 .. MaxActs
    BY Counts DEF Inv1, Interrupt
  <1>2. turn' = StopActive(RequeueSteers(ended, waiting)) /\ item' = RequeuedItems(waiting)
    BY Zenon DEF Interrupt
  <1>3. \A t \in waiting : /\ t \in TurnIds /\ turn[t].status \in {"queued", "held"}
                           /\ ~turn[t].live /\ ~turn[t].stop
    BY Rows DEF WaitsToRetry, RowFits, Active
  <1>4. \A t \in TurnIds :
          /\ ended[t] \in TurnRow /\ RowFits(ended[t])
          /\ ended[t].ord = turn[t].ord /\ ended[t].stop = turn[t].stop
          /\ t \notin waiting => ended[t] = turn[t]
          /\ t \in waiting => ended[t].status = "interrupted"
    <2> SUFFICES ASSUME NEW t \in TurnIds
                 PROVE  /\ ended[t] \in TurnRow /\ RowFits(ended[t])
                        /\ ended[t].ord = turn[t].ord /\ ended[t].stop = turn[t].stop
                        /\ t \notin waiting => ended[t] = turn[t]
                        /\ t \in waiting => ended[t].status = "interrupted"
      OBVIOUS
    <2>1. turn[t] \in TurnRow /\ RowFits(turn[t])
      BY Rows
    <2>2. CASE t \notin waiting
      BY <2>1, <2>2
    <2>3. CASE t \in waiting
      <3>1. ended[t] = [turn[t] EXCEPT !.status = "interrupted"]
        BY <2>3
      <3>2. "interrupted" \in Statuses
        BY DEF Statuses, Settled
      <3>3. ~turn[t].live /\ ~turn[t].stop
        BY <1>3, <2>3
      <3> HIDE DEF ended, waiting
      <3>4. /\ ended[t] \in TurnRow /\ ended[t].status = "interrupted"
            /\ ended[t].ord = turn[t].ord /\ ended[t].stop = turn[t].stop
            /\ ended[t].live = turn[t].live
        BY <2>1, <3>1, <3>2 DEF TurnRow
      <3> QED
        BY <2>3, <3>3, <3>4 DEF RowFits
    <2> QED
      BY <2>2, <2>3
  <1>5. ended = [t \in TurnIds |-> ended[t]] /\ waiting \subseteq TurnIds
    OBVIOUS
  <1> HIDE DEF ended, waiting
  <1>6. TurnsFit(ended)
    <2>1. ended \in [TurnIds -> TurnRow]
      BY <1>4, <1>5
    <2>2. \E n \in Nat : \A t \in TurnIds : ended[t].ord <= n
      BY <1>1, <1>4 DEF TurnsFit
    <2>3. \A t, u \in TurnIds : ended[t].status \in Active /\ ended[u].status \in Active => t = u
      <3>1. \A t \in TurnIds : ended[t].status \in Active => turn[t].status \in Active
        BY <1>4 DEF Active
      <3> QED
        BY <1>1, <3>1 DEF TurnsFit
    <2> QED
      BY <1>4, <2>1, <2>2, <2>3 DEF TurnsFit
  <1>7. Onward(turn, ended)
    <2>1. \A t \in TurnIds : turn[t].status \in Settled => turn[t].status \notin Active
      BY DEF Settled, Active
    <2> QED
      BY <1>3, <1>4, <2>1 DEF Onward, Settled, Active
  <1>8. Closes(waiting, ended)
    BY <1>3, <1>4, <1>6, <1>7 DEF Closes, Settled, Over
  <1>9. \A u \in TurnIds : ended[u].status = "none" <=> turn[u].status = "none"
    BY <1>3, <1>4
  <1>10. Closes(waiting, turn') /\ Adds(waiting, turn')
    <2> DEFINE U == RequeueSteers(ended, waiting)
    <2>1. Closes(waiting, U) /\ Adds(waiting, U)
      BY <1>8, <1>9, RequeueCloses
    <2> HIDE DEF U
    <2>2. Closes(waiting, StopActive(U)) /\ Adds(waiting, StopActive(U))
      BY <2>1, StopActiveCloses
    <2> QED
      BY <1>2, <2>2 DEF U
  <1>11. SameRunners
    BY <1>1, Lengths DEF SameRunners, TablesFit
  <1>12. command' \in [TurnIds -> SUBSET Commands]
    BY <1>1, InterruptCommandsFit
  <1>13. /\ holder' \in [Holders -> HolderRow]
         /\ \A h \in Holders : holder'[h] = holder[h] \/ holder'[h].pc = "idle"
    BY <1>1 DEF TablesFit
  <1> QED
    BY <1>1, <1>2, <1>5, <1>10, <1>11, <1>12, <1>13, ClosingStep

(* A message is sent: it has a turn, or joins the one that works.          *)
Joins(m, t) ==
    /\ item[m] = None /\ t \in TurnIds
    /\ item' = [item EXCEPT ![m] = t]
    /\ TurnsFit(turn')
    /\ \A u \in TurnIds : u # Own(m) => /\ turn'[u].status = turn[u].status
                                        /\ turn[u].stop => turn'[u].stop
    /\ t = Own(m) => turn'[t].status = "queued"
    /\ t # Own(m) => turn[t].status \in Active /\ turn'[Own(m)].status = turn[Own(m)].status

(* A step of a person that may send a message.                             *)
LEMMA JoinsStep ==
    ASSUME Inv1, NEW m \in Messages, NEW t, Joins(m, t), sent' = Append(sent, m),
           command' \in [TurnIds -> SUBSET Commands], attempt' = attempt,
           holder' = holder, runner' = runner, acts' = acts, faults' = faults
    PROVE  Inv1' /\ Step1
  <1>1. /\ TablesFit /\ ItemsFit /\ AttemptsFit /\ NoneLeft
        /\ \A h \in Holders : HolderFits(h)
    BY DEF Inv1
  <1>2. /\ t \in TurnIds /\ item \in [Messages -> TurnIds \cup {None}]
        /\ sent \in Seq(Messages) /\ Own(m) \in TurnIds
    BY <1>1, Names DEF TablesFit, Joins
  <1>3. turn[Own(m)].status = "none" /\ ~turn[Own(m)].stop
    <2>1. turn[Own(m)].status = "none"
      BY <1>1, Names DEF ItemsFit, Joins
    <2> QED
      BY <1>2, <2>1, Rows DEF RowFits, Active
  <1>4. /\ item' \in [Messages -> TurnIds \cup {None}]
        /\ \A x \in Messages : item'[x] = IF x = m THEN t ELSE item[x]
    BY <1>2 DEF Joins
  <1>5. /\ sent' \in Seq(Messages) /\ Len(sent) \in Nat /\ Len(sent') = Len(sent) + 1
        /\ sent'[Len(sent) + 1] = m /\ \A i \in 1 .. Len(sent) : sent'[i] = sent[i]
    BY <1>2, AppendProperties, LenProperties
  <1>6. TablesFit'
    BY <1>1, <1>4, <1>5 DEF TablesFit
  <1>7. Onward(turn, turn')
    <2>1. \A u \in TurnIds : turn[u].status \in Settled => turn[u].status \notin Active
      BY DEF Settled, Active
    <2> QED
      BY <1>3, <2>1 DEF Onward, Joins, Settled
  <1>8. TurnsFit(turn)'
    BY DEF Joins, TurnsFit, RowFits
  <1>9. ItemsFit'
    <2>1. ASSUME NEW x \in Messages PROVE item'[x] = Own(x) <=> turn'[Own(x)].status # "none"
      <3>1. CASE x = m
        BY <1>3, <1>4, <3>1 DEF Joins
      <3>2. CASE x # m
        <4>1. Own(x) \in TurnIds /\ Own(x) # Own(m)
          BY <3>2, Names
        <4> QED
          BY <1>1, <1>4, <3>2, <4>1 DEF Joins, ItemsFit
      <3> QED
        BY <3>1, <3>2
    <2>2. ASSUME NEW i \in 1 .. Len(sent') PROVE item'[sent'[i]] # None
      <3>1. CASE i = Len(sent) + 1
        <4>1. t # None
          BY <1>2, Names, NoneAssumption
        <4> QED
          BY <1>4, <1>5, <3>1, <4>1
      <3>2. CASE i # Len(sent) + 1
        <4>1. i \in 1 .. Len(sent)
          BY <1>5, <3>2
        <4>2. sent[i] \in Messages /\ item[sent[i]] # None /\ sent'[i] = sent[i]
          BY <1>1, <1>2, <1>5, <4>1, ElementOfSeq DEF ItemsFit
        <4> QED
          BY <1>4, <4>2 DEF Joins
      <3> QED
        BY <3>1, <3>2
    <2> QED
      BY <2>1, <2>2 DEF ItemsFit
  <1>10. Grows
    BY <1>1, Lengths DEF Grows
  <1>11. AttemptsFit'
    <2>1. \A u \in TurnIds : turn'[u].status = "running" => turn[u].status = "running"
      BY <1>3 DEF Joins
    <2>2. \A u \in TurnIds : \A i \in 1 .. Len(attempt'[u]) :
            i \in 1 .. Len(attempt[u]) /\ attempt'[u][i].runner = attempt[u][i].runner
      OBVIOUS
    <2> QED
      BY <1>1, <1>6, <1>10, <2>1, <2>2, AttemptsKeep
  <1>12. \A h \in Holders : HolderFits(h)'
    BY <1>1, <1>6, <1>7, <1>10, OthersFit
  <1>13. NoneLeft'
    <2> SUFFICES ASSUME Timely', NEW u \in TurnIds, turn'[u].status \in Over
                 PROVE  Unread(u)' = {}
      BY DEF NoneLeft
    <2>1. Timely
      BY DEF Timely
    <2>2. turn[u].status \in Over
      BY <1>3 DEF Joins, Over
    <2>3. Unread(u) = {}
      BY <1>1, <2>1, <2>2 DEF NoneLeft
    <2>4. \A x \in Messages : item'[x] = u /\ u # Own(x) => item[x] = u
      BY <1>4, <2>2 DEF Joins, Over, Active
    <2> QED
      BY <2>3, <2>4, UnreadShrinks
  <1>14. Inv1'
    BY <1>6, <1>8, <1>9, <1>11, <1>12, <1>13 DEF Inv1
  <1>15. Stays
    BY <1>3 DEF Joins, Stays, Settled
  <1> QED
    BY <1>7, <1>14, <1>15 DEF Step1

(* deliver.                                                                *)
LEMMA SendKeeps ==
    ASSUME Inv1, NEW m \in Messages, NEW mode \in Modes, Send(m, mode)
    PROVE  Inv1' /\ Step1
  <1>1. /\ TablesFit /\ TurnsFit(turn) /\ ItemsFit /\ item[m] = None /\ Own(m) \in TurnIds
        /\ sent' = Append(sent, m) /\ attempt' = attempt
        /\ holder' = holder /\ runner' = runner /\ acts' = acts /\ faults' = faults
    BY Names DEF Inv1, Send
  <1>2. turn[Own(m)].status = "none"
    BY <1>1, Names DEF ItemsFit
  <1>3. CASE /\ UNCHANGED turn
             /\ \E t \in ActiveTurns :
                  /\ item' = [item EXCEPT ![m] = t]
                  /\ command' = [command EXCEPT ![t] = @ \cup {<<"steer", m>>}]
    <2>1. PICK t \in ActiveTurns : /\ item' = [item EXCEPT ![m] = t]
                                   /\ command' = [command EXCEPT ![t] = @ \cup {<<"steer", m>>}]
      BY <1>3
    <2>2. t \in TurnIds /\ turn[t].status \in Active /\ turn' = turn
      BY <1>3 DEF ActiveTurns
    <2>3. command' \in [TurnIds -> SUBSET Commands]
      <3>1. <<"steer", m>> \in Commands
        BY DEF Commands
      <3>2. command[t] \cup {<<"steer", m>>} \in SUBSET Commands
        BY <1>1, <2>2, <3>1 DEF TablesFit
      <3> QED
        BY <1>1, <2>1, <2>2, <3>2 DEF TablesFit
    <2>4. Joins(m, t)
      <3>1. t # Own(m)
        BY <1>2, <2>2 DEF Active
      <3> QED
        BY <1>1, <2>1, <2>2, <3>1 DEF Joins
    <2> QED
      BY <1>1, <2>3, <2>4, JoinsStep
  <1>4. ASSUME NEW T, TurnsFit(T), NEW p \in {0, 1},
               \A u \in TurnIds : /\ T[u].status = turn[u].status
                                  /\ turn[u].stop => T[u].stop
                                  /\ T[u].ord = turn[u].ord,
               turn' = [T EXCEPT ![Own(m)] = NewTurn(LastOrdinal(turn) + 1, p)],
               item' = [item EXCEPT ![m] = Own(m)]
        PROVE  Joins(m, Own(m))
    <2> DEFINE row == NewTurn(LastOrdinal(turn) + 1, p)
    <2>1. LastOrdinal(turn) + 1 \in Nat
      BY <1>1, Ordinals
    <2>2. row \in TurnRow /\ RowFits(row) /\ row.status = "queued"
      BY <1>4, <2>1, NewTurnRow
    <2>3. turn' = WithRow(T, Own(m), row)
      BY <1>4 DEF WithRow
    <2> HIDE DEF row
    <2>4. Alone(T, Own(m), row)
      BY <2>2 DEF Alone, Active
    <2>5. TurnsFit(turn') /\ \A u \in TurnIds : turn'[u] = IF u = Own(m) THEN row ELSE T[u]
      <3>1. TurnsFit(T) /\ Own(m) \in TurnIds
        BY <1>1, <1>4
      <3> QED
        BY <2>2, <2>3, <2>4, <3>1, RowKeeps
    <2> QED
      BY <1>1, <1>4, <2>2, <2>5 DEF Joins
  <1>5. CASE /\ turn' = [turn EXCEPT ![Own(m)] = NewTurn(LastOrdinal(turn) + 1, 0)]
             /\ item' = [item EXCEPT ![m] = Own(m)]
             /\ UNCHANGED command
    <2>1. Joins(m, Own(m))
      <3>1. 0 \in {0, 1}
        OBVIOUS
      <3> QED
        BY <1>1, <1>4, <1>5, <3>1
    <2>2. command' \in [TurnIds -> SUBSET Commands]
      BY <1>1, <1>5 DEF TablesFit
    <2> QED
      BY <1>1, <2>1, <2>2, JoinsStep
  <1>6. CASE /\ turn' = [StopActive(turn) EXCEPT ![Own(m)] = NewTurn(LastOrdinal(turn) + 1, 1)]
             /\ item' = [item EXCEPT ![m] = Own(m)]
             /\ command' = InterruptCommands
    <2>1. Joins(m, Own(m))
      <3> DEFINE T == StopActive(turn)
      <3>1. /\ TurnsFit(T)
            /\ \A u \in TurnIds : /\ T[u].status = turn[u].status
                                  /\ turn[u].stop => T[u].stop
                                  /\ T[u].ord = turn[u].ord
        BY <1>1, StopActiveKeeps
      <3>2. 1 \in {0, 1}
        OBVIOUS
      <3>3. turn' = [T EXCEPT ![Own(m)] = NewTurn(LastOrdinal(turn) + 1, 1)]
        BY <1>6
      <3> HIDE DEF T
      <3> QED
        BY <1>4, <1>6, <3>1, <3>2, <3>3
    <2>2. command' \in [TurnIds -> SUBSET Commands]
      BY <1>1, <1>6, InterruptCommandsFit
    <2> QED
      BY <1>1, <2>1, <2>2, JoinsStep
  <1> QED
    BY <1>3, <1>5, <1>6, Zenon DEF Send

(* Statuses, but for one that waits, stay; a stop may be asked for.        *)
LEMMA StopStep ==
    ASSUME Inv1, TurnsFit(turn'), NEW t \in TurnIds, turn[t].status \in {"queued", "held"},
           turn'[t].status = "queued",
           \A u \in TurnIds : u # t => /\ turn'[u].status = turn[u].status
                                       /\ turn[u].stop => turn'[u].stop,
           command' \in [TurnIds -> SUBSET Commands], acts' \in 0 .. MaxActs,
           item' = item, sent' = sent, attempt' = attempt, holder' = holder,
           runner' = runner, faults' = faults
    PROVE  Inv1' /\ Step1
  <1>1. TablesFit /\ TablesFit'
    BY DEF Inv1, TablesFit
  <1>2. ~turn[t].stop
    BY Rows DEF RowFits, Active
  <1>3. Onward(turn, turn')
    <2>1. \A u \in TurnIds : turn[u].status \in Settled => turn[u].status \notin Active
      BY DEF Settled, Active
    <2> QED
      BY <1>2, <2>1 DEF Onward, Settled
  <1>4. Grows
    BY <1>1, Lengths DEF Grows
  <1>5. TurnsFit(turn)'
    BY DEF TurnsFit, RowFits
  <1>6. \A u \in TurnIds : /\ turn'[u].status = "none" <=> turn[u].status = "none"
                           /\ turn'[u].status = "running" => turn[u].status = "running"
                           /\ turn'[u].status \in Over => turn[u].status \in Over
    BY DEF Over
  <1>7. \A i \in 1 .. Len(attempt'[t]) :
            i \in 1 .. Len(attempt[t]) /\ attempt'[t][i].runner = attempt[t][i].runner
    OBVIOUS
  <1>8. Inv1'
    BY <1>1, <1>3, <1>4, <1>5, <1>6, <1>7, Together
  <1>9. Stays
    BY DEF Stays, Settled
  <1> QED
    BY <1>3, <1>8, <1>9 DEF Step1

(* send_now.                                                               *)
LEMMA SendNowKeeps ==
    ASSUME Inv1, NEW t \in TurnIds, SendNow(t)
    PROVE  Inv1' /\ Step1
  <1> DEFINE T == StopActive(turn)
             row == [T[t] EXCEPT !.status = "queued", !.prio = 1, !.fresh = FALSE]
  <1>1. /\ TablesFit /\ TurnsFit(turn) /\ turn[t].status \in {"queued", "held"}
        /\ item' = item /\ sent' = sent /\ attempt' = attempt
        /\ holder' = holder /\ runner' = runner /\ faults' = faults
        /\ acts' \in 0 .. MaxActs /\ command' = InterruptCommands
    BY Counts DEF Inv1, SendNow
  <1>2. turn' = [T EXCEPT ![t].status = "queued", ![t].prio = 1, ![t].fresh = FALSE]
    BY Zenon DEF SendNow
  <1>3. /\ TurnsFit(T)
        /\ \A u \in TurnIds : /\ T[u].status = turn[u].status
                              /\ turn[u].stop => T[u].stop
    BY <1>1, StopActiveKeeps
  <1> HIDE DEF T
  <1>4. T[t] \in TurnRow /\ RowFits(T[t]) /\ T \in [TurnIds -> TurnRow]
    BY <1>3 DEF TurnsFit
  <1>5. turn' = WithRow(T, t, row)
    BY <1>2, <1>4 DEF WithRow
  <1>6. row \in TurnRow /\ row.status = "queued" /\ row.live = T[t].live /\ row.stop = T[t].stop
    <2>1. "queued" \in Statuses
      BY DEF Statuses
    <2> QED
      BY <1>4, <2>1 DEF TurnRow
  <1> HIDE DEF row
  <1>7. RowFits(row) /\ Alone(T, t, row)
    BY <1>1, <1>3, <1>4, <1>6 DEF RowFits, Alone, Active
  <1>8. TurnsFit(turn') /\ \A u \in TurnIds : turn'[u] = IF u = t THEN row ELSE T[u]
    BY <1>3, <1>5, <1>6, <1>7, RowKeeps
  <1>9. command' \in [TurnIds -> SUBSET Commands]
    BY <1>1, InterruptCommandsFit
  <1>10. /\ turn'[t].status = "queued"
         /\ \A u \in TurnIds : u # t => /\ turn'[u].status = turn[u].status
                                        /\ turn[u].stop => turn'[u].stop
    BY <1>3, <1>6, <1>8
  <1>11. TurnsFit(turn')
    BY <1>8
  <1> QED
    BY <1>1, <1>9, <1>10, <1>11, StopStep

(* steerNowIn.                                                             *)
LEMMA SteerNowKeeps ==
    ASSUME Inv1, NEW m \in Messages, SteerNow(m)
    PROVE  Inv1' /\ Step1
  <1>1. /\ TablesFit /\ turn' = turn /\ item' = item /\ sent' = sent /\ attempt' = attempt
        /\ holder' = holder /\ runner' = runner /\ faults' = faults
        /\ acts' \in 0 .. MaxActs /\ faults \subseteq faults' /\ faults' \subseteq Faults
    BY Counts DEF Inv1, SteerNow, TablesFit
  <1>2. PICK t \in TurnIds :
          command' = [command EXCEPT ![t] = @ \cup {<<"restart", m, Len(attempt[t])>>}]
    BY DEF SteerNow
  <1>3. Len(attempt[t]) \in Nat
    BY <1>1, Lengths
  <1>4. command' \in [TurnIds -> SUBSET Commands]
    <2> DEFINE c == <<"restart", m, Len(attempt[t])>>
    <2>1. c \in Commands
      BY <1>3 DEF Commands
    <2> HIDE DEF c
    <2>2. command[t] \cup {c} \in SUBSET Commands
      BY <1>1, <2>1 DEF TablesFit
    <2>3. command' = [command EXCEPT ![t] = command[t] \cup {c}]
      BY <1>2 DEF c
    <2> QED
      BY <1>1, <2>2, <2>3 DEF TablesFit
  <1> QED
    BY <1>1, <1>4, CommandKeeps

(* The agent is to run on another harness.                                 *)
LEMMA SwitchHarnessKeeps ==
    ASSUME Inv1, NEW x \in Harnesses, SwitchHarness(x)
    PROVE  Inv1' /\ Step1
  <1>1. /\ turn' = turn /\ item' = item /\ sent' = sent /\ attempt' = attempt
        /\ command' = command /\ holder' = holder /\ runner' = runner /\ faults' = faults
    BY DEF SwitchHarness
  <1>2. TablesFit
    BY DEF Inv1
  <1>3. /\ command' \in [TurnIds -> SUBSET Commands] /\ acts' \in 0 .. MaxActs
        /\ faults \subseteq faults' /\ faults' \subseteq Faults
    <2>1. acts' \in 0 .. MaxActs
      BY <1>2, Counts DEF SwitchHarness
    <2> QED
      BY <1>1, <1>2, <2>1 DEF TablesFit
  <1> QED
    BY <1>1, <1>3, CommandKeeps

-----------------------------------------------------------------------------
(* The harness.                                                            *)

(* A runner says or does something.                                        *)
LEMMA HarnessStep ==
    ASSUME Inv1, NEW t \in TurnIds, NEW c \in 1 .. Len(runner[t]), NEW row, row \in RunnerRow,
           runner' = WithPlace(runner, t, c, row),
           turn' = turn, item' = item, sent' = sent, attempt' = attempt, command' = command,
           holder' = holder, acts' = acts, faults \subseteq faults', faults' \subseteq Faults
    PROVE  Inv1' /\ Step1
  <1>1. TablesFit /\ TurnsFit(turn) /\ RunnerPut(t, c, row)
    BY RunnerWrite DEF Inv1
  <1>2. runner' \in [TurnIds -> Seq(RunnerRow)] /\ \A u \in TurnIds : Len(runner'[u]) = Len(runner[u])
    BY <1>1 DEF RunnerPut
  <1>3. TablesFit'
    BY <1>1, <1>2 DEF TablesFit
  <1>4. Onward(turn, turn')
    BY DEF Onward, Settled, Active
  <1>5. Grows
    BY <1>1, <1>2, Lengths DEF Grows
  <1>6. TurnsFit(turn)'
    BY <1>1 DEF TurnsFit, RowFits
  <1>7. \A u \in TurnIds : \A i \in 1 .. Len(attempt'[u]) :
            i \in 1 .. Len(attempt[u]) /\ attempt'[u][i].runner = attempt[u][i].runner
    OBVIOUS
  <1>8. Inv1'
    <2>1. \A h \in Holders : holder'[h] = holder[h]
      OBVIOUS
    <2> QED
      BY <1>3, <1>4, <1>5, <1>6, <1>7, <2>1, Together
  <1> QED
    BY <1>4, <1>8 DEF Step1, Stays

(* A frame is said.                                                        *)
LEMMA SaysFits ==
    ASSUME NEW t, NEW c, runner[t][c] \in RunnerRow, NEW f \in Frames
    PROVE  LET s == HarnessSays(t, c, f)
           IN  /\ s \in RunnerRow
               /\ \A p \in Phases : [s EXCEPT !.phase = p] \in RunnerRow
               /\ \A m \in Messages : [s EXCEPT !.taken = @ \cup {m}] \in RunnerRow
               /\ \A m \in Messages : [s EXCEPT !.refused = @ \cup {m}] \in RunnerRow
               /\ \A m \in Messages : [s EXCEPT !.inbox = @ \ {m}, !.seen = @ \cup {m}] \in RunnerRow
               /\ \A m \in Messages : [[s EXCEPT !.inbox = @ \ {m}, !.seen = @ \cup {m}]
                                          EXCEPT !.refused = @ \cup {m}] \in RunnerRow
  <1> DEFINE r == runner[t][c]
             out == Append(r.out, f)
             s == [r EXCEPT !.out = out]
  <1>1. r \in RunnerRow
    OBVIOUS
  <1> HIDE DEF r
  <1>2. out \in Seq(Frames)
    BY <1>1, AppendProperties DEF RunnerRow
  <1> HIDE DEF out
  <1>3. s \in RunnerRow
    BY <1>1, <1>2 DEF RunnerRow
  <1>4. HarnessSays(t, c, f) = s
    BY DEF HarnessSays, r, out
  <1> HIDE DEF s
  <1>5. \A p \in Phases : [s EXCEPT !.phase = p] \in RunnerRow
    BY <1>3 DEF RunnerRow
  <1>6. ASSUME NEW m \in Messages
        PROVE  /\ [s EXCEPT !.taken = @ \cup {m}] \in RunnerRow
               /\ [s EXCEPT !.refused = @ \cup {m}] \in RunnerRow
               /\ [s EXCEPT !.inbox = @ \ {m}, !.seen = @ \cup {m}] \in RunnerRow
               /\ [[s EXCEPT !.inbox = @ \ {m}, !.seen = @ \cup {m}]
                      EXCEPT !.refused = @ \cup {m}] \in RunnerRow
    <2>1. /\ s.taken \cup {m} \in SUBSET Messages /\ s.refused \cup {m} \in SUBSET Messages
          /\ s.inbox \ {m} \in SUBSET Messages /\ s.seen \cup {m} \in SUBSET Messages
      BY <1>3 DEF RunnerRow
    <2> DEFINE q == [s EXCEPT !.inbox = @ \ {m}, !.seen = @ \cup {m}]
    <2>2. q \in RunnerRow /\ q.refused = s.refused
      BY <1>3, <2>1 DEF RunnerRow
    <2>3. [s EXCEPT !.taken = @ \cup {m}] \in RunnerRow /\ [s EXCEPT !.refused = @ \cup {m}] \in RunnerRow
      BY <1>3, <2>1 DEF RunnerRow
    <2> HIDE DEF q
    <2>4. [q EXCEPT !.refused = @ \cup {m}] \in RunnerRow
      BY <2>1, <2>2 DEF RunnerRow
    <2> QED
      BY <2>2, <2>3, <2>4 DEF q
  <1> QED
    BY <1>3, <1>4, <1>5, <1>6

(* What a runner's row may become: it goes on as it was, or no longer      *)
(* works, and one that was left stays left; what it says is no end unless  *)
(* it has ended.                                                           *)
Up == {"up", "told", "began"}
Calms(old, new) ==
    /\ new.phase \in Up => old.phase \in Up
    /\ old.left => new.left
    /\ \/ new.phase \notin Up
       \/ new.out = old.out
       \/ \E f : f[1] # "end" /\ new.out = Append(old.out, f)

(* What a harness does, and how its process ends, is written to its row.   *)
LEMMA HarnessWrites ==
    ASSUME Inv1, NEW t \in TurnIds, NEW c \in DOMAIN runner[t], Harness(t, c)
    PROVE  \E row \in RunnerRow : /\ runner' = WithPlace(runner, t, c, row)
                                  /\ Calms(runner[t][c], row)
  <1> DEFINE r == runner[t][c]
  <1>1. TablesFit /\ c \in 1 .. Len(runner[t]) /\ r \in RunnerRow
    BY Lengths DEF Inv1
  <1>2. CASE HarnessBegins(t, c)
    <2>0. PICK named \in BOOLEAN :
            runner' = [runner EXCEPT ![t][c] =
                        [HarnessSays(t, c, <<"began", named>>) EXCEPT !.phase = "began"]]
      BY <1>2 DEF HarnessBegins
    <2> DEFINE f == <<"began", named>>
               row == [HarnessSays(t, c, f) EXCEPT !.phase = "began"]
    <2>1. runner' = [runner EXCEPT ![t][c] = row] /\ r.phase = "told"
      BY <1>2, <2>0 DEF HarnessBegins
    <2>2. f \in Frames /\ "began" \in Phases /\ f[1] # "end"
      BY DEF Frames, Phases
    <2> HIDE DEF f
    <2>3. row \in RunnerRow
      BY <1>1, <2>2, SaysFits
    <2>4. row.out = Append(r.out, f) /\ row.left = r.left
      BY <1>1 DEF HarnessSays, RunnerRow
    <2> HIDE DEF row
    <2> QED
      BY <2>1, <2>2, <2>3, <2>4 DEF WithPlace, Calms, Up
  <1>3. CASE HarnessTakes(t, c)
    <2>1. PICK m \in r.seen :
            runner' = [runner EXCEPT ![t][c] =
                   [HarnessSays(t, c, <<"took", m>>) EXCEPT !.taken = @ \cup {m}]]
      BY <1>3 DEF HarnessTakes
    <2> DEFINE f == <<"took", m>>
               row == [HarnessSays(t, c, f) EXCEPT !.taken = @ \cup {m}]
    <2>2. runner' = [runner EXCEPT ![t][c] = row] /\ f[1] # "end"
      BY <2>1
    <2>3. m \in Messages
      BY <1>1 DEF RunnerRow
    <2>4. f \in Frames
      BY <2>3 DEF Frames
    <2> HIDE DEF f
    <2>5. row \in RunnerRow
      BY <1>1, <2>3, <2>4, SaysFits
    <2>6. row.out = Append(r.out, f) /\ row.phase = r.phase /\ row.left = r.left
      BY <1>1 DEF HarnessSays, RunnerRow
    <2> HIDE DEF row
    <2> QED
      BY <2>2, <2>5, <2>6 DEF WithPlace, Calms
  <1>4. CASE HarnessAcks(t, c)
    <2> DEFINE Said(kind, m) == [HarnessSays(t, c, <<kind, m>>) EXCEPT
                                    !.inbox = @ \ {m}, !.seen = @ \cup {m}]
    <2>1. PICK m \in r.inbox :
            \/ runner' = [runner EXCEPT ![t][c] = Said("ack", m)]
            \/ runner' = [runner EXCEPT ![t][c] = [Said("refused", m) EXCEPT !.refused = @ \cup {m}]]
      BY <1>4, Zenon DEF HarnessAcks
    <2>2. m \in Messages
      BY <1>1 DEF RunnerRow
    <2>3. <<"ack", m>> \in Frames /\ <<"refused", m>> \in Frames
      BY <2>2 DEF Frames
    <2>4. Said("ack", m) \in RunnerRow /\ Calms(r, Said("ack", m))
      <3> DEFINE f == <<"ack", m>>
                 row == [HarnessSays(t, c, f) EXCEPT !.inbox = @ \ {m}, !.seen = @ \cup {m}]
      <3>1. f \in Frames /\ f[1] # "end"
        BY <2>3
      <3> HIDE DEF f
      <3>2. row \in RunnerRow
        BY <1>1, <2>2, <3>1, SaysFits
      <3>3. row.out = Append(r.out, f) /\ row.phase = r.phase /\ row.left = r.left
        BY <1>1 DEF HarnessSays, RunnerRow
      <3> HIDE DEF row
      <3>4. Calms(r, row)
        BY <3>1, <3>3 DEF Calms
      <3> QED
        BY <3>2, <3>4 DEF f, row
    <2>5. LET y == [Said("refused", m) EXCEPT !.refused = @ \cup {m}]
          IN  y \in RunnerRow /\ Calms(r, y)
      <3> DEFINE f == <<"refused", m>>
                 row == [[HarnessSays(t, c, f) EXCEPT !.inbox = @ \ {m}, !.seen = @ \cup {m}]
                           EXCEPT !.refused = @ \cup {m}]
      <3>1. f \in Frames /\ f[1] # "end"
        BY <2>3
      <3> HIDE DEF f
      <3>2. row \in RunnerRow
        BY <1>1, <2>2, <3>1, SaysFits
      <3>3. row.out = Append(r.out, f) /\ row.phase = r.phase /\ row.left = r.left
        BY <1>1 DEF HarnessSays, RunnerRow
      <3> HIDE DEF row
      <3>4. Calms(r, row)
        BY <3>1, <3>3 DEF Calms
      <3> QED
        BY <3>2, <3>4 DEF f, row
    <2> DEFINE x == Said("ack", m)
               y == [Said("refused", m) EXCEPT !.refused = @ \cup {m}]
    <2>6. /\ x \in RunnerRow /\ y \in RunnerRow /\ Calms(r, x) /\ Calms(r, y)
          /\ runner' = [runner EXCEPT ![t][c] = x] \/ runner' = [runner EXCEPT ![t][c] = y]
      BY <2>1, <2>4, <2>5
    <2> HIDE DEF x, y
    <2> QED
      BY <2>6 DEF WithPlace
  <1>5. CASE \E how \in {"completed", "interrupted", "failed", "transient"} : HarnessEnds(t, c, how)
    <2>1. PICK how \in {"completed", "interrupted", "failed", "transient"} : HarnessEnds(t, c, how)
      BY <1>5
    <2> DEFINE f == <<"end", how>>
               row == [HarnessSays(t, c, f) EXCEPT !.phase = "exited"]
    <2>2. runner' = [runner EXCEPT ![t][c] = row]
      BY <2>1 DEF HarnessEnds
    <2>3. f \in Frames /\ "exited" \in Phases
      BY DEF Frames, Phases, Outcomes
    <2> HIDE DEF f
    <2>4. row \in RunnerRow
      BY <1>1, <2>3, SaysFits
    <2>5. row.phase = "exited" /\ row.left = r.left
      BY <1>1 DEF HarnessSays, RunnerRow
    <2> HIDE DEF row
    <2> QED
      BY <2>2, <2>4, <2>5 DEF WithPlace, Calms, Up
  <1>6. CASE RunnerStops(t, c)
    <2>1. PICK p \in {"exited", "gone"} : runner' = [runner EXCEPT ![t][c].phase = p]
      BY <1>6 DEF RunnerStops
    <2> DEFINE row == [r EXCEPT !.phase = p]
    <2>2. row \in RunnerRow /\ row.phase = p /\ row.left = r.left
      BY <1>1 DEF RunnerRow, Phases
    <2>3. runner' = WithPlace(runner, t, c, row)
      BY <2>1 DEF WithPlace
    <2> HIDE DEF row
    <2> QED
      BY <2>2, <2>3 DEF Calms, Up
  <1> QED
    BY <1>2, <1>3, <1>4, <1>5, <1>6 DEF Harness

(* A step of a harness.                                                    *)
LEMMA HarnessKeeps ==
    ASSUME Inv1, NEW t \in TurnIds, NEW c \in DOMAIN runner[t], Harness(t, c)
    PROVE  Inv1' /\ Step1
  <1>1. /\ TablesFit /\ c \in 1 .. Len(runner[t])
        /\ turn' = turn /\ item' = item /\ sent' = sent /\ attempt' = attempt
        /\ command' = command /\ holder' = holder /\ acts' = acts
    BY Lengths DEF Inv1, Harness
  <1>2. faults \subseteq faults' /\ faults' \subseteq Faults
    <2>1. faults' = faults \/ \E k : Fault(k)
      BY DEF Harness, HarnessBegins, HarnessAcks, HarnessEnds, RunnerStops
    <2> QED
      BY <1>1, <2>1, Counts DEF TablesFit
  <1>3. PICK row \in RunnerRow : runner' = WithPlace(runner, t, c, row)
    BY HarnessWrites
  <1> QED
    BY <1>1, <1>2, <1>3, HarnessStep

-----------------------------------------------------------------------------
(* The invariant holds.                                                    *)

(* At the start there is nothing.                                          *)
LEMMA InitFits == Init => SessionFits /\ Inv1
  <1> SUFFICES ASSUME Init PROVE SessionFits /\ Inv1
    OBVIOUS
  <1>1. /\ Absent \in TurnRow /\ RowFits(Absent) /\ Absent.status = "none" /\ Absent.ord = 0
        /\ Absent.status \notin Active /\ Absent.status \notin Over
    BY DEF Absent, TurnRow, RowFits, Statuses, Active, Over
  <1>2. \A t \in TurnIds : turn[t] = Absent
    BY DEF Init
  <1>3. TurnsFit(turn)
    <2>1. turn \in [TurnIds -> TurnRow]
      BY <1>1 DEF Init
    <2>2. \A t \in TurnIds : turn[t].ord <= 0
      BY <1>1, <1>2
    <2> QED
      BY <1>1, <1>2, <2>1, <2>2 DEF TurnsFit
  <1>4. TablesFit
    <2>1. acts \in 0 .. MaxActs
      BY BoundsAssumption DEF Init
    <2>2. <<>> \in Seq(Messages) /\ <<>> \in Seq(AttemptRow) /\ <<>> \in Seq(RunnerRow)
      BY EmptySeq
    <2> QED
      BY <2>1, <2>2, IdleRow DEF Init, TablesFit
  <1>5. ItemsFit
    <2>1. \A m \in Messages : item[m] # Own(m) /\ turn[Own(m)].status = "none"
      BY <1>1, <1>2, Names DEF Init
    <2>2. Len(sent) = 0
      BY EmptySeq DEF Init
    <2> QED
      BY <2>1, <2>2 DEF ItemsFit
  <1>6. AttemptsFit
    <2>1. \A t \in TurnIds : Len(attempt[t]) = 0
      BY EmptySeq DEF Init
    <2>2. \A t \in TurnIds : turn[t].status # "running"
      BY <1>1, <1>2
    <2> QED
      BY <2>1, <2>2 DEF AttemptsFit
  <1>7. \A h \in Holders : HolderFits(h)
    BY IdleRow DEF Init, HolderFits
  <1>8. NoneLeft
    BY <1>1, <1>2 DEF NoneLeft
  <1>9. SessionFits
    BY DEF Init, SessionFits
  <1> QED
    BY <1>3, <1>4, <1>5, <1>6, <1>7, <1>8, <1>9 DEF Inv1

(* Every step keeps the first layer, and is one that Step1 allows.         *)
LEMMA NextKeeps == SessionFits /\ Inv1 /\ [Next]_vars => Inv1' /\ Step1
  <1> SUFFICES ASSUME SessionFits, Inv1, [Next]_vars PROVE Inv1' /\ Step1
    OBVIOUS
  <1>1. ASSUME NEW m \in Messages, NEW mode \in Modes, Send(m, mode) PROVE Inv1' /\ Step1
    BY <1>1, SendKeeps
  <1>2. CASE Interrupt
    BY <1>2, InterruptKeeps
  <1>3. ASSUME NEW t \in TurnIds,
               CancelQueued(t) \/ Hold(t) \/ Unhold(t) \/ SendNow(t) \/ Retry(t)
        PROVE  Inv1' /\ Step1
    BY <1>3, CancelQueuedKeeps, HoldKeeps, UnholdKeeps, SendNowKeeps, RetryKeeps
  <1>4. ASSUME NEW m \in Messages, SteerNow(m) PROVE Inv1' /\ Step1
    BY <1>4, SteerNowKeeps
  <1>5. ASSUME NEW t \in TurnIds, Lapse(t) \/ FallsDue(t) PROVE Inv1' /\ Step1
    BY <1>5, LapseKeeps, FallsDueKeeps
  <1>6. ASSUME NEW h \in Holders, Drive(h) PROVE Inv1' /\ Step1
    <2>1. CASE Claim(h) \/ Leave(h) \/ Load(h) \/ BeginAttempt(h) \/ Prepare(h)
      BY <2>1, ClaimKeeps, LeaveKeeps, LoadKeeps, BeginAttemptKeeps, PrepareKeeps
    <2>2. CASE Launch(h) \/ Start(h) \/ Disconnected(h) \/ Attach(h) \/ PrepareAgain(h)
      BY <2>2, LaunchKeeps, StartKeeps, DisconnectedKeeps, AttachKeeps, PrepareAgainKeeps
    <2>3. CASE SendCommands(h) \/ Apply(h) \/ RestartWith(h) \/ Restart(h)
      BY <2>3, SendCommandsKeeps, ApplyKeeps, RestartWithKeeps, RestartKeeps
    <2>4. CASE RetryFailure(h) \/ RetryFailureDue(h) \/ Exited(h) \/ Finalize(h)
      BY <2>4, RetryFailureKeeps, RetryFailureDueKeeps, ExitedKeeps, FinalizeKeeps
    <2>5. CASE Settle(h) \/ Lose(h)
      BY <2>5, SettleKeeps, LoseKeeps
    <2> QED
      BY <1>6, <2>1, <2>2, <2>3, <2>4, <2>5 DEF Drive
  <1>7. ASSUME NEW h \in Holders, GoesWrong(h) PROVE Inv1' /\ Step1
    <2>1. CASE Crash(h) \/ Stall(h) \/ Stop(h) \/ Refuse(h) \/ Kill(h)
      BY <2>1, CrashKeeps, StallKeeps, StopKeeps, RefuseKeeps, KillKeeps
    <2>2. CASE FailUnexpectedly(h) \/ FinalizeFails(h)
      BY <2>2, FailUnexpectedlyKeeps, FinalizeFailsKeeps
    <2> QED
      BY <1>7, <2>1, <2>2 DEF GoesWrong
  <1>8. ASSUME NEW t \in TurnIds, NEW c \in DOMAIN runner[t], Harness(t, c) PROVE Inv1' /\ Step1
    BY <1>8, HarnessKeeps
  <1>9. CASE UNCHANGED vars
    <2>1. /\ turn' = turn /\ item' = item /\ sent' = sent /\ attempt' = attempt
          /\ command' = command /\ holder' = holder /\ runner' = runner
          /\ acts' = acts /\ faults' = faults
      BY <1>9 DEF vars
    <2>2. command' \in [TurnIds -> SUBSET Commands] /\ acts' \in 0 .. MaxActs
          /\ faults \subseteq faults' /\ faults' \subseteq Faults
      BY <2>1 DEF Inv1, TablesFit
    <2> QED
      BY <2>1, <2>2, CommandKeeps
  <1>10. ASSUME NEW x \in Harnesses, SwitchHarness(x) PROVE Inv1' /\ Step1
    BY <1>10, SwitchHarnessKeeps
  <1>11. CASE People
    BY <1>1, <1>2, <1>3, <1>4, <1>10, <1>11 DEF People
  <1> QED
    BY <1>5, <1>6, <1>7, <1>8, <1>9, <1>11 DEF Next

(* The session is written by people, and by a holder that hears what its   *)
(* harness named.                                                          *)
LEMMA NextSession == SessionFits /\ Inv1 /\ [Next]_vars => SessionFits'
  <1> SUFFICES ASSUME SessionFits, Inv1, [Next]_vars PROVE SessionFits'
    OBVIOUS
  <1>1. CASE session' = session
    BY <1>1 DEF SessionFits
  <1>2. ASSUME NEW x \in Harnesses, SwitchHarness(x) PROVE SessionFits'
    BY <1>2 DEF SwitchHarness, SessionFits
  <1>3. ASSUME NEW h \in Holders, Apply(h) PROVE SessionFits'
    <2> DEFINE x == holder[h].mem.harness
    <2>1. x \in Harnesses
      <3>1. holder[h].pc = "pump"
        BY <1>3 DEF Apply
      <3>2. holder[h].mem \in RunnerStates
        BY <3>1, InPlace
      <3> QED
        BY <3>2 DEF RunnerStates
    <2>2. session' = session \/ session' = [session EXCEPT !.named = @ \cup {x}]
      BY <1>3, Zenon DEF Apply
    <2> HIDE DEF x
    <2> QED
      BY <1>1, <2>1, <2>2 DEF SessionFits
  <1>4. CASE People
    <2>1. ASSUME NEW m \in Messages, NEW mode \in Modes, Send(m, mode) PROVE session' = session
      BY <2>1 DEF Send
    <2>2. ASSUME NEW t \in TurnIds,
                 CancelQueued(t) \/ Hold(t) \/ Unhold(t) \/ SendNow(t) \/ Retry(t)
          PROVE  session' = session
      BY <2>2 DEF CancelQueued, Hold, Unhold, SendNow, Retry
    <2>3. ASSUME NEW m \in Messages, SteerNow(m) PROVE session' = session
      BY <2>3 DEF SteerNow
    <2>4. CASE Interrupt
      BY <1>1, <2>4 DEF Interrupt
    <2> QED
      BY <1>1, <1>2, <1>4, <2>1, <2>2, <2>3, <2>4 DEF People
  <1>5. ASSUME NEW t \in TurnIds, Lapse(t) \/ FallsDue(t) PROVE SessionFits'
    BY <1>1, <1>5 DEF Lapse, FallsDue
  <1>6. ASSUME NEW h \in Holders, Drive(h) PROVE SessionFits'
    <2>1. CASE Claim(h) \/ Leave(h) \/ Load(h) \/ BeginAttempt(h) \/ Prepare(h)
      BY <1>1, <2>1 DEF Claim, Leave, Load, BeginAttempt, Prepare
    <2>2. CASE Launch(h) \/ Start(h) \/ Disconnected(h) \/ Attach(h) \/ PrepareAgain(h)
      BY <1>1, <2>2 DEF Launch, Start, Disconnected, Attach, PrepareAgain
    <2>3. CASE SendCommands(h) \/ RestartWith(h) \/ Restart(h)
      BY <1>1, <2>3 DEF SendCommands, RestartWith, Restart
    <2>4. CASE RetryFailure(h) \/ RetryFailureDue(h) \/ Exited(h) \/ Finalize(h)
      BY <1>1, <2>4 DEF RetryFailure, RetryFailureDue, Exited, Finalize
    <2>5. CASE Settle(h) \/ Lose(h)
      BY <1>1, <2>5 DEF Settle, Lose
    <2> QED
      BY <1>3, <1>6, <2>1, <2>2, <2>3, <2>4, <2>5 DEF Drive
  <1>7. ASSUME NEW h \in Holders, GoesWrong(h) PROVE SessionFits'
    <2>1. CASE Crash(h) \/ Stall(h) \/ Stop(h) \/ Refuse(h) \/ Kill(h)
      BY <1>1, <2>1 DEF Crash, Stall, Stop, Refuse, Kill
    <2>2. CASE FailUnexpectedly(h) \/ FinalizeFails(h)
      BY <1>1, <2>2 DEF FailUnexpectedly, FinalizeFails
    <2> QED
      BY <1>7, <2>1, <2>2 DEF GoesWrong
  <1>8. ASSUME NEW t \in TurnIds, NEW c \in DOMAIN runner[t], Harness(t, c) PROVE SessionFits'
    BY <1>1, <1>8 DEF Harness
  <1>9. CASE UNCHANGED vars
    BY <1>1, <1>9 DEF vars
  <1> QED
    BY <1>4, <1>5, <1>6, <1>7, <1>8, <1>9 DEF Next

(* The first layer of the invariant holds, and every step is one it allows. *)
THEOREM Invariance == Spec => [](SessionFits /\ Inv1) /\ [][Step1]_vars
  <1>1. Init => SessionFits /\ Inv1
    BY InitFits
  <1>2. SessionFits /\ Inv1 /\ [Next]_vars => SessionFits' /\ Inv1'
    BY NextKeeps, NextSession
  <1>3. SessionFits /\ Inv1 /\ [Next]_vars => [Step1]_vars
    BY NextKeeps
  <1> QED
    BY <1>1, <1>2, <1>3, PTL DEF Spec

(* Every row has its type, no lease is of a turn that rests, and one turn  *)
(* of the session works at a time (agent_turns_one_active).                *)
THEOREM TypeCorrect == Spec => []TypeOK
  <1>1. SessionFits /\ Inv1 => TypeOK
    <2> SUFFICES ASSUME SessionFits, Inv1 PROVE TypeOK
      OBVIOUS
    <2>1. TablesFit /\ TurnsFit(turn)
      BY DEF Inv1
    <2>2. turn \in [TurnIds -> TurnRow]
      BY <2>1 DEF TurnsFit
    <2>3. ASSUME NEW t \in TurnIds, NEW i \in DOMAIN attempt[t]
          PROVE  /\ attempt[t][i].status \in {"preparing", "running", "superseded", "lost"}
                                            \cup (Outcomes \ {"transient"})
                 /\ attempt[t][i].runner \in RunnerStates \cup {None}
      <3>1. attempt[t][i] \in AttemptRow
        BY <2>1, Lengths
      <3> QED
        BY <3>1 DEF AttemptRow, AttemptStatuses, Outcomes
    <2>4. \A t \in TurnIds : command[t] \subseteq Commands
      BY <2>1 DEF TablesFit
    <2>5. \A t \in TurnIds : \A c \in DOMAIN runner[t] : runner[t][c].phase \in Phases
      BY <2>1, Lengths DEF RunnerRow
    <2>6. \A t \in TurnIds : turn[t].live => turn[t].status \in Active
      BY <2>1 DEF TurnsFit, RowFits
    <2>7. Cardinality(ActiveTurns) <= 1
      <3>1. CASE ActiveTurns = {}
        <4>1. Cardinality({}) = 0
          BY FS_EmptySet
        <4> QED
          BY <3>1, <4>1
      <3>2. CASE ActiveTurns # {}
        <4>1. PICK t \in ActiveTurns : TRUE
          BY <3>2
        <4>2. ActiveTurns = {t}
          BY <2>1, <4>1 DEF ActiveTurns, TurnsFit
        <4>3. Cardinality({t}) = 1
          BY FS_Singleton
        <4> QED
          BY <4>2, <4>3
      <3> QED
        BY <3>1, <3>2
    <2>8. ASSUME NEW h \in Holders
          PROVE  /\ holder[h].turn \in TurnIds \cup {None}
                 /\ holder[h].mem \in RunnerStates \cup {None}
                 /\ holder[h].outcome \in Outcomes \cup Messages \cup {None}
      <3>1. holder[h] \in HolderRow
        BY <2>1 DEF TablesFit
      <3> QED
        BY <3>1, HolderFields
    <2> QED
      BY <2>1, <2>2, <2>3, <2>4, <2>5, <2>6, <2>7, <2>8 DEF TypeOK, TablesFit, TurnRow, SessionFits
  <1> QED
    BY <1>1, Invariance, PTL

(* A message is never dropped: one that was sent has a turn of its own, or *)
(* is with a turn that works, or was read before that turn ended.          *)
THEOREM SteersKeptHolds == Spec => []SteersKept
  <1>1. Inv1 => SteersKept
    <2> SUFFICES ASSUME Inv1, Timely, NEW m \in ToSet(sent)
                 PROVE  LET t == item[m]
                        IN  IF t = Own(m) THEN turn[t].status # "none"
                            ELSE turn[t].status \in {"completed", "failed", "interrupted"}
                                    => m \notin Unread(t)
      BY DEF SteersKept
    <2>1. TablesFit /\ ItemsFit /\ NoneLeft
      BY DEF Inv1
    <2>2. m \in Messages /\ item[m] # None
      <3>1. sent \in Seq(Messages)
        BY <2>1 DEF TablesFit
      <3>2. PICK i \in 1 .. Len(sent) : m = sent[i]
        BY <3>1, LenProperties DEF ToSet
      <3> QED
        BY <2>1, <3>1, <3>2, ElementOfSeq DEF ItemsFit
    <2>3. item[m] \in TurnIds
      BY <2>1, <2>2 DEF TablesFit
    <2>4. item[m] = Own(m) => turn[item[m]].status # "none"
      BY <2>1, <2>2 DEF ItemsFit
    <2>5. turn[item[m]].status \in {"completed", "failed", "interrupted"} => Unread(item[m]) = {}
      BY <2>1, <2>3 DEF NoneLeft, Over
    <2> QED
      BY <2>4, <2>5
  <1> QED
    BY <1>1, Invariance, PTL

(* A person's stop ends the turn: no step of anyone withdraws it.          *)
THEOREM StopStandsHolds == Spec => StopStands
  <1>1. Step1 => \A t \in TurnIds :
                    turn[t].stop => (turn'[t].stop \/ turn'[t].status \in Settled)
    BY DEF Step1, Onward
  <1> QED
    BY <1>1, Invariance, PTL DEF StopStands

(* A settled turn keeps its outcome until a person has it again, and no    *)
(* stalled transaction puts it back to work.                               *)
THEOREM SettledIsFinalHolds == Spec => SettledIsFinal
  <1>1. Step1 => \A t \in TurnIds : turn[t].status \in Settled =>
                    /\ turn'[t].status \notin Active
                    /\ Timely => \/ turn'[t].status = turn[t].status
                                 \/ turn'[t].status = "queued" /\ acts' # acts
    BY DEF Step1, Onward, Stays
  <1> QED
    BY <1>1, Invariance, PTL DEF SettledIsFinal
=============================================================================
