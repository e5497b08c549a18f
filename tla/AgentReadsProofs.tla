--------------------------- MODULE AgentReadsProofs ---------------------------
(***************************************************************************)
(* Proofs about what the attempts of a turn take in, for any messages,     *)
(* holders, harnesses, limits and kinds of faults, while no transaction    *)
(* stalls: that a message steered into a turn is read once on a thread.    *)
(***************************************************************************)
EXTENDS AgentOwnersProofs

-----------------------------------------------------------------------------
(* The third layer: what attempts read, while no transaction stalled.      *)

(* What attempt a of a turn read: what it took in, if its harness began.   *)
Took(a) == IF a.runner # None /\ a.runner.started THEN a.runner.consumed ELSE {}

(* It goes on with the thread the turn had before it.                      *)
Continues(a) == a.runner # None /\ a.runner.continuing

(* What attempt n of t, recorded as x, may take in: messages that joined t *)
(* and that, when it continues a thread, no other attempt read.            *)
Fresh(t, n, x) == {m \in SteeredItems(t) :
    x.continuing => \A i \in 1 .. Len(attempt[t]) : i # n => m \notin Took(attempt[t][i])}

(* The attempts of a turn: what they took in joined the turn, one that     *)
(* continues a thread took in nothing an earlier one read, and what was    *)
(* read is not waiting to be sent.                                         *)
AttemptsRead(t) ==
    /\ \A i \in 1 .. Len(attempt[t]) : ConsumedBy(attempt[t][i]) \subseteq SteeredItems(t)
    /\ \A i \in 1 .. Len(attempt[t]) : \A k \in 1 .. Len(attempt[t]) :
         i < k /\ Continues(attempt[t][k]) =>
            Took(attempt[t][i]) \cap ConsumedBy(attempt[t][k]) = {}
    /\ \A i \in 1 .. Len(attempt[t]) : \A m \in Took(attempt[t][i]) :
         <<"steer", m>> \notin command[t]

(* A steer waits for the turn that its message joined, which works.        *)
SteersJoin(t) == \A m \in Messages : <<"steer", m>> \in command[t] =>
    m \in SteeredItems(t) /\ turn[t].status \in Active

(* A runner was sent only what its attempt may take in, and acknowledges a *)
(* message before the agent reads it.                                      *)
Acked(r, m, n) == \E k \in 1 .. n : r.out[k] = <<"ack", m>>
RunnerReads(r, F) ==
    /\ r.inbox \subseteq F /\ r.seen \subseteq F
    /\ \A m \in r.seen \ r.refused : Acked(r, m, Len(r.out))
    /\ \A k \in 1 .. Len(r.out) :
         /\ r.out[k][1] = "ack" => r.out[k][2] \in r.seen
         /\ r.out[k][1] = "took" => r.out[k][2] \in r.seen /\ Acked(r, r.out[k][2], k - 1)

(* The attempt that runs, and its runner: what it acknowledged is not sent *)
(* again.                                                                  *)
Followed(t, a, r) ==
    /\ RunnerReads(r, Fresh(t, Len(attempt[t]), a))
    /\ a.cursor \in 0 .. Len(r.out)
    /\ \A m \in Messages : Acked(r, m, a.cursor) => <<"steer", m>> \notin command[t]
RunReads(t) ==
    LET a == attempt[t][Len(attempt[t])].runner
    IN  turn[t].status = "running" /\ a # None => Followed(t, a, runner[t][a.at])

(* The prompt that an owner is about to send carries only what its attempt *)
(* may take in.                                                            *)
Carries(v) ==
    /\ v.mem.consumed \subseteq Fresh(v.turn, v.n, v.mem)
    /\ ~v.mem.started /\ v.mem.cursor = 0
PromptFits(h) == Owns(h) /\ holder[h].pc = "launch" => Carries(holder[h])

TurnReads(t) == AttemptsRead(t) /\ SteersJoin(t) /\ RunReads(t)
Inv3 == Timely => /\ \A t \in TurnIds : TurnReads(t)
                  /\ \A h \in Holders : PromptFits(h)

-----------------------------------------------------------------------------
(* What a step may do to a turn without disturbing what its attempts read. *)

(* The row of a turn: no attempt begins to run, no work ends.              *)
Steady(t) ==
    /\ turn'[t].status = "running" => turn[t].status = "running"
    /\ turn[t].status \in Active => turn'[t].status \in Active

(* An attempt records the same.                                            *)
Same(a, b) ==
    /\ a = None <=> b = None
    /\ a # None => /\ b.at = a.at /\ b.cursor = a.cursor
                   /\ b.started = a.started /\ b.consumed = a.consumed
                   /\ b.continuing = a.continuing
QuietAttempts(t) ==
    /\ Len(attempt'[t]) = Len(attempt[t])
    /\ \A i \in 1 .. Len(attempt[t]) : Same(attempt[t][i].runner, attempt'[t][i].runner)

(* A runner is sent nothing and says nothing.                              *)
Silent(r, s) ==
    s.inbox = r.inbox /\ s.seen = r.seen /\ s.refused = r.refused /\ s.out = r.out
QuietRunners(t) == \A c \in 1 .. Len(runner[t]) : Silent(runner[t][c], runner'[t][c])

(* The steers that wait are there already, or are of a message just sent.  *)
NoNewSteers(t) == \A m \in Messages :
    <<"steer", m>> \in command'[t] => <<"steer", m>> \in command[t]
QuietSteers(t) == \A m \in Messages : <<"steer", m>> \in command'[t] =>
    \/ <<"steer", m>> \in command[t]
    \/ item[m] = None /\ m \in SteeredItems(t)' /\ turn'[t].status \in Active

(* Messages stay with the turn they joined.                                *)
KeepsItems(t) == SteeredItems(t) \subseteq SteeredItems(t)'

(* Attempts that record the same took in the same.                         *)
LEMMA SameTakes ==
    ASSUME NEW t, QuietAttempts(t)
    PROVE  \A i \in 1 .. Len(attempt[t]) :
             /\ ConsumedBy(attempt'[t][i]) = ConsumedBy(attempt[t][i])
             /\ Took(attempt'[t][i]) = Took(attempt[t][i])
             /\ Continues(attempt'[t][i]) <=> Continues(attempt[t][i])
  BY DEF QuietAttempts, Same, ConsumedBy, Took, Continues

(* And may take in what they might.                                        *)
LEMMA FreshGrows ==
    ASSUME NEW t, QuietAttempts(t), KeepsItems(t), NEW n, NEW x
    PROVE  Fresh(t, n, x) \subseteq Fresh(t, n, x)'
  <1>1. Len(attempt'[t]) = Len(attempt[t])
    BY DEF QuietAttempts
  <1>2. \A i \in 1 .. Len(attempt[t]) : Took(attempt'[t][i]) = Took(attempt[t][i])
    BY SameTakes
  <1> QED
    BY <1>1, <1>2 DEF Fresh, KeepsItems

(* A runner that may be sent more.                                         *)
LEMMA RunnerReadsMore ==
    ASSUME NEW r, NEW s, NEW F, NEW G, RunnerReads(r, F), F \subseteq G, Silent(r, s)
    PROVE  RunnerReads(s, G)
  BY DEF RunnerReads, Silent, Acked

(* An attempt of the first layer.                                          *)
LEMMA RunsOn ==
    ASSUME Inv1, NEW t \in TurnIds, turn[t].status = "running"
    PROVE  LET n == Len(attempt[t])
               a == attempt[t][n].runner
           IN  /\ n \in Nat /\ n \in 1 .. n /\ attempt[t][n] \in AttemptRow
               /\ a # None => /\ a \in RunnerStates /\ a.at \in 1 .. Len(runner[t])
                              /\ runner[t][a.at] \in RunnerRow /\ a.at \in Nat
                              /\ a.consumed \in SUBSET Messages /\ a.cursor \in Nat
  <1>1. TablesFit /\ Len(attempt[t]) > 0
    BY DEF Inv1, AttemptsFit
  <1>2. Len(attempt[t]) \in Nat /\ Len(attempt[t]) \in 1 .. Len(attempt[t])
    BY <1>1, Lengths
  <1>3. attempt[t][Len(attempt[t])] \in AttemptRow
    BY <1>1, <1>2, Lengths
  <1> DEFINE a == attempt[t][Len(attempt[t])].runner
  <1>4. a # None => a.at \in 1 .. Len(runner[t])
    BY <1>2 DEF Inv1, AttemptsFit
  <1>5. a # None => a \in RunnerStates
    BY <1>3 DEF AttemptRow
  <1>6. a # None => a.at \in Nat /\ a.consumed \in SUBSET Messages /\ a.cursor \in Nat
    BY <1>5 DEF RunnerStates
  <1>7. a # None => runner[t][a.at] \in RunnerRow
    BY <1>1, <1>4, Lengths
  <1> QED
    BY <1>2, <1>3, <1>4, <1>5, <1>6, <1>7

(* What is to be shown of an attempt that runs.                            *)
LEMMA Follows ==
    ASSUME NEW t, NEW n, n = Len(attempt'[t]), NEW a, a = attempt'[t][n].runner,
           NEW r, turn'[t].status = "running" /\ a # None =>
                    /\ r = runner'[t][a.at] /\ RunnerReads(r, Fresh(t, n, a)')
                    /\ a.cursor \in 0 .. Len(r.out)
                    /\ \A m \in Messages : Acked(r, m, a.cursor) => <<"steer", m>> \notin command'[t]
    PROVE  RunReads(t)'
  BY DEF RunReads, Followed

(* A turn that goes on as it was.                                          *)
LEMMA QuietReads ==
    ASSUME Inv1, NEW t \in TurnIds, TurnReads(t), QuietAttempts(t), QuietRunners(t),
           QuietSteers(t), KeepsItems(t), Steady(t)
    PROVE  TurnReads(t)'
  <1>1. /\ Len(attempt'[t]) = Len(attempt[t])
        /\ \A i \in 1 .. Len(attempt[t]) :
             /\ ConsumedBy(attempt'[t][i]) = ConsumedBy(attempt[t][i])
             /\ Took(attempt'[t][i]) = Took(attempt[t][i])
             /\ Continues(attempt'[t][i]) <=> Continues(attempt[t][i])
             /\ Took(attempt[t][i]) \subseteq ConsumedBy(attempt[t][i])
    BY SameTakes DEF QuietAttempts, Took, ConsumedBy
  <1>2. \A m \in SteeredItems(t) : item[m] # None /\ m \in Messages
    BY NoneAssumption DEF SteeredItems, TurnIds, Names
  <1>3. AttemptsRead(t)'
    <2>1. AttemptsRead(t)
      BY DEF TurnReads
    <2>2. \A i \in 1 .. Len(attempt[t]) : \A m \in Took(attempt[t][i]) :
            <<"steer", m>> \notin command'[t]
      BY <1>1, <1>2, <2>1 DEF AttemptsRead, QuietSteers
    <2>3. \A i \in 1 .. Len(attempt[t]) : ConsumedBy(attempt[t][i]) \subseteq SteeredItems(t)'
      BY <2>1 DEF AttemptsRead, KeepsItems
    <2> QED
      BY <1>1, <2>1, <2>2, <2>3 DEF AttemptsRead
  <1>4. SteersJoin(t)'
    BY DEF TurnReads, SteersJoin, QuietSteers, KeepsItems, Steady
  <1>5. RunReads(t)'
    <2>1. PICK n : n = Len(attempt[t])
      OBVIOUS
    <2>2. PICK a : a = attempt[t][n].runner
      OBVIOUS
    <2>3. PICK b : b = attempt'[t][n].runner
      OBVIOUS
    <2>4. PICK s : s = runner'[t][b.at]
      OBVIOUS
    <2>5. ASSUME turn'[t].status = "running", b # None
          PROVE  /\ RunnerReads(s, Fresh(t, n, b)')
                 /\ b.cursor \in 0 .. Len(s.out)
                 /\ \A m \in Messages : Acked(s, m, b.cursor) => <<"steer", m>> \notin command'[t]
      <3>1. turn[t].status = "running"
        BY <2>5 DEF Steady
      <3>2. n \in 1 .. n
        BY <2>1, <3>1, RunsOn
      <3>3. Same(a, b)
        BY <2>1, <2>2, <2>3, <3>2 DEF QuietAttempts
      <3>4. a # None /\ b.at = a.at /\ b.cursor = a.cursor
        BY <2>5, <3>3 DEF Same
      <3>5. a.at \in 1 .. Len(runner[t])
        BY <2>1, <2>2, <3>1, <3>4, RunsOn
      <3>6. PICK r : r = runner[t][a.at]
        OBVIOUS
      <3>7. /\ RunnerReads(r, Fresh(t, n, a)) /\ a.cursor \in 0 .. Len(r.out)
            /\ \A m \in Messages : Acked(r, m, a.cursor) => <<"steer", m>> \notin command[t]
        BY <2>1, <2>2, <3>1, <3>4, <3>6 DEF TurnReads, RunReads, Followed
      <3>8. Silent(r, s)
        BY <2>4, <3>4, <3>5, <3>6 DEF QuietRunners
      <3>9. Fresh(t, n, a) \subseteq Fresh(t, n, b)'
        <4>1. Fresh(t, n, a) = Fresh(t, n, b)
          BY <3>3, <3>4 DEF Same, Fresh
        <4>2. Fresh(t, n, b) \subseteq Fresh(t, n, b)'
          BY FreshGrows
        <4> QED
          BY <4>1, <4>2
      <3>10. RunnerReads(s, Fresh(t, n, b)')
        BY <3>7, <3>8, <3>9, RunnerReadsMore
      <3>11. b.cursor \in 0 .. Len(s.out)
        BY <3>4, <3>7, <3>8 DEF Silent
      <3>12. ASSUME NEW m \in Messages, Acked(s, m, b.cursor)
             PROVE  <<"steer", m>> \notin command'[t]
        <4>1. Acked(r, m, a.cursor)
          BY <3>4, <3>8, <3>12 DEF Acked, Silent
        <4>2. <<"steer", m>> \notin command[t]
          BY <3>7, <4>1
        <4>3. PICK k \in 1 .. a.cursor : r.out[k] = <<"ack", m>>
          BY <4>1 DEF Acked
        <4>4. k \in 1 .. Len(r.out) /\ r.out[k][1] = "ack" /\ r.out[k][2] = m
          BY <3>7, <4>3
        <4>5. m \in SteeredItems(t)
          BY <3>7, <4>4 DEF RunnerReads, Fresh
        <4> QED
          BY <1>2, <4>2, <4>5 DEF QuietSteers
      <3> QED
        BY <3>10, <3>11, <3>12
    <2> QED
      BY <1>1, <2>1, <2>3, <2>4, <2>5, Follows
  <1> QED
    BY <1>3, <1>4, <1>5 DEF TurnReads

(* A turn that ends, or waits to be tried again: its unread messages may   *)
(* leave it.                                                               *)
LEMMA ClosedReads ==
    ASSUME NEW t, TurnReads(t), QuietAttempts(t), turn'[t].status # "running",
           \A m \in Messages : <<"steer", m>> \notin command'[t],
           \A m \in SteeredItems(t) \ Unread(t) : m \in SteeredItems(t)'
    PROVE  TurnReads(t)'
  <1>1. /\ Len(attempt'[t]) = Len(attempt[t])
        /\ \A i \in 1 .. Len(attempt[t]) :
             /\ ConsumedBy(attempt'[t][i]) = ConsumedBy(attempt[t][i])
             /\ Took(attempt'[t][i]) = Took(attempt[t][i])
             /\ Continues(attempt'[t][i]) <=> Continues(attempt[t][i])
             /\ Took(attempt[t][i]) \subseteq ConsumedBy(attempt[t][i])
    BY SameTakes DEF QuietAttempts, Took, ConsumedBy
  <1>2. \A i \in 1 .. Len(attempt[t]) : ConsumedBy(attempt[t][i]) \subseteq SteeredItems(t)'
    <2>1. ASSUME NEW i \in 1 .. Len(attempt[t]), NEW m \in ConsumedBy(attempt[t][i])
          PROVE  m \in SteeredItems(t)'
      <3>1. m \in SteeredItems(t)
        BY <2>1 DEF TurnReads, AttemptsRead
      <3>2. i \in DOMAIN attempt[t]
        BY DEF TurnReads
      <3> QED
        BY <2>1, <3>1, <3>2 DEF Unread
    <2> QED
      BY <2>1
  <1>3. AttemptsRead(t)'
    <2>1. \A m \in SteeredItems(t) : m \in Messages
      BY DEF SteeredItems
    <2> QED
      BY <1>1, <1>2, <2>1 DEF AttemptsRead, TurnReads
  <1> QED
    BY <1>3 DEF TurnReads, SteersJoin, RunReads

(* The same of a turn that gets a row for an attempt it never began.       *)
LEMMA ClosedAdds ==
    ASSUME NEW t \in TurnIds, TurnReads(t), NEW row, AttemptNew(t, row), row.runner = None,
           Len(attempt[t]) \in Nat, DOMAIN attempt[t] = 1 .. Len(attempt[t]), turn'[t].status # "running",
           \A m \in Messages : <<"steer", m>> \notin command'[t],
           \A m \in SteeredItems(t) \ Unread(t) : m \in SteeredItems(t)'
    PROVE  TurnReads(t)'
  <1>1. PICK n \in Nat : n = Len(attempt[t])
    OBVIOUS
  <1>2. /\ Len(attempt'[t]) = n + 1 /\ attempt'[t][n + 1] = row
        /\ \A i \in 1 .. n : attempt'[t][i] = attempt[t][i]
    BY <1>1 DEF AttemptNew
  <1>3. ConsumedBy(row) = {} /\ Took(row) = {} /\ \A x : Took(x) \subseteq ConsumedBy(x)
    BY DEF ConsumedBy, Took
  <1>4. \A i \in 1 .. n + 1 : i \in 1 .. n \/ i = n + 1
    OBVIOUS
  <1>5. \A m \in SteeredItems(t)' : m \in Messages
    BY DEF SteeredItems
  <1>6. \A i \in 1 .. n + 1 : ConsumedBy(attempt'[t][i]) \subseteq SteeredItems(t)'
    <2>1. ASSUME NEW i \in 1 .. n, NEW m \in ConsumedBy(attempt[t][i])
          PROVE  m \in SteeredItems(t)'
      <3>1. m \in SteeredItems(t)
        BY <1>1, <2>1 DEF TurnReads, AttemptsRead
      <3>2. i \in DOMAIN attempt[t]
        BY <1>1
      <3> QED
        BY <2>1, <3>1, <3>2 DEF Unread
    <2> QED
      BY <1>2, <1>3, <1>4, <2>1
  <1>7. ASSUME NEW i \in 1 .. n + 1, NEW k \in 1 .. n + 1, i < k, Continues(attempt'[t][k])
        PROVE  Took(attempt'[t][i]) \cap ConsumedBy(attempt'[t][k]) = {}
    <2>1. k # n + 1 /\ k \in 1 .. n /\ i \in 1 .. n
      BY <1>2, <1>4, <1>7 DEF Continues
    <2>2. Took(attempt[t][i]) \cap ConsumedBy(attempt[t][k]) = {}
      BY <1>1, <1>2, <1>7, <2>1 DEF TurnReads, AttemptsRead
    <2> QED
      BY <1>2, <2>1, <2>2
  <1>8. ASSUME NEW i \in 1 .. n + 1, NEW m \in Took(attempt'[t][i])
        PROVE  <<"steer", m>> \notin command'[t]
    BY <1>3, <1>5, <1>6
  <1>9. AttemptsRead(t)'
    BY <1>2, <1>6, <1>7, <1>8 DEF AttemptsRead
  <1> QED
    BY <1>9 DEF TurnReads, SteersJoin, RunReads

(* A turn whose attempts and runners are left alone.                       *)
LEMMA AloneReads ==
    ASSUME Inv1, NEW t \in TurnIds, TurnReads(t), attempt'[t] = attempt[t], runner'[t] = runner[t],
           NoNewSteers(t), item' = item, Steady(t)
    PROVE  TurnReads(t)'
  <1>1. QuietAttempts(t) /\ QuietRunners(t)
    BY DEF QuietAttempts, QuietRunners, Same, Silent
  <1>2. KeepsItems(t) /\ QuietSteers(t)
    BY DEF KeepsItems, SteeredItems, QuietSteers, NoNewSteers
  <1> QED
    BY <1>1, <1>2, QuietReads

(* A prompt that waits for its launch.                                     *)
LEMMA PromptStays ==
    ASSUME Inv1, Inv3, Timely, Leases, NEW g \in Holders, holder'[g] = holder[g],
           \A u \in ActiveTurns : QuietAttempts(u) /\ KeepsItems(u)
    PROVE  PromptFits(g)'
  <1> SUFFICES ASSUME Owns(g)', holder'[g].pc = "launch"
               PROVE  Carries(holder[g])'
    BY DEF PromptFits, Carries
  <1>1. Owns(g) /\ holder[g].turn \in TurnIds
    BY OwnedBefore
  <1>2. PICK v : v = holder[g]
    OBVIOUS
  <1>3. PICK t : t = v.turn
    OBVIOUS
  <1>4. PICK n : n = v.n
    OBVIOUS
  <1>5. t \in ActiveTurns
    BY <1>1, <1>2, <1>3, Driven DEF ActiveTurns, Owns
  <1>6. /\ v.mem.consumed \subseteq Fresh(t, n, v.mem)
        /\ ~v.mem.started /\ v.mem.cursor = 0
    BY <1>1, <1>2, <1>3, <1>4 DEF Inv3, PromptFits, Carries
  <1>7. Fresh(t, n, v.mem) \subseteq Fresh(t, n, v.mem)'
    BY <1>5, FreshGrows
  <1> QED
    BY <1>2, <1>3, <1>4, <1>6, <1>7 DEF Carries

(* A holder that is about to launch nothing.                               *)
LEMMA NoPrompt ==
    ASSUME NEW g \in Holders, holder'[g].pc # "launch"
    PROVE  PromptFits(g)'
  BY DEF PromptFits

(* A step that reads nothing.                                              *)
LEMMA OutsideReads ==
    ASSUME Inv1, Inv3, Timely, Leases, \A u \in TurnIds : TurnReads(u)',
           \A u \in ActiveTurns : QuietAttempts(u) /\ KeepsItems(u),
           \A g \in Holders : holder'[g] = holder[g] \/ PromptFits(g)'
    PROVE  Inv3'
  <1>1. \A g \in Holders : PromptFits(g)'
    BY PromptStays
  <1> QED
    BY <1>1 DEF Inv3

(* A step after which every attempt and runner goes on as it was.          *)
LEMMA QuietReadsStep ==
    ASSUME Inv1, Inv3, Timely, Leases, item' = item,
           \A u \in TurnIds : QuietAttempts(u) /\ QuietRunners(u) /\ NoNewSteers(u) /\ Steady(u),
           \A g \in Holders : holder'[g] = holder[g] \/ holder'[g].pc # "launch"
    PROVE  Inv3'
  <1>1. \A u \in TurnIds : KeepsItems(u) /\ QuietSteers(u)
    BY DEF KeepsItems, SteeredItems, QuietSteers, NoNewSteers
  <1>2. \A u \in TurnIds : TurnReads(u)'
    BY <1>1, QuietReads DEF Inv3
  <1>3. \A u \in ActiveTurns : u \in TurnIds
    BY DEF ActiveTurns
  <1>4. \A u \in ActiveTurns : QuietAttempts(u) /\ KeepsItems(u)
    BY <1>1, <1>3
  <1>5. \A g \in Holders : holder'[g] = holder[g] \/ PromptFits(g)'
    BY NoPrompt
  <1> QED
    BY <1>2, <1>4, <1>5, OutsideReads

(* Records left alone.                                                     *)
LEMMA RecordsAlone ==
    ASSUME attempt' = attempt
    PROVE  \A u \in TurnIds : QuietAttempts(u)
  BY DEF QuietAttempts, Same
LEMMA RunnersSilent ==
    ASSUME runner' = runner
    PROVE  \A u \in TurnIds : QuietRunners(u)
  BY DEF QuietRunners, Silent
LEMMA TurnsSteady ==
    ASSUME turn' = turn
    PROVE  Leases /\ \A u \in TurnIds : Steady(u)
  BY DEF Leases, Steady

(* A step of the owner of t on its turn.                                   *)
LEMMA OwnerReads ==
    ASSUME Inv1, Inv3, Timely, Leases, NEW h \in Holders, Owns(h),
           \A u \in TurnIds : TurnReads(u)', PromptFits(h)',
           \A g \in Holders : g # h => holder'[g] = holder[g]
    PROVE  Inv3'
  <1>1. ASSUME NEW g \in Holders, g # h PROVE PromptFits(g)'
    <2>1. Owns(g)' => Owns(g)
      BY <1>1, OwnedBefore
    <2> QED
      BY <1>1, <2>1, OneOwner DEF PromptFits
  <1> QED
    BY <1>1 DEF Inv3

(* What the owner of t leaves alone of the other turns.                    *)
ReadsAlone(t) == \A u \in TurnIds : u # t =>
    /\ attempt'[u] = attempt[u] /\ runner'[u] = runner[u] /\ NoNewSteers(u) /\ Steady(u)

(* The owner of t writes what belongs to t, and goes on.                   *)
LEMMA OwnerReadsOn ==
    ASSUME Inv1, Inv3, Timely, Leases, NEW h \in Holders, Owns(h), item' = item,
           NEW t \in TurnIds, ReadsAlone(t), TurnReads(t)',
           NEW v \in HolderRow, holder' = [holder EXCEPT ![h] = v], v.pc # "launch"
    PROVE  Inv3'
  <1>1. holder'[h] = v /\ \A g \in Holders : g # h => holder'[g] = holder[g]
    BY HolderKeeps DEF Inv1
  <1>2. PromptFits(h)'
    BY <1>1, NoPrompt
  <1>3. ASSUME NEW u \in TurnIds, u # t PROVE TurnReads(u)'
    BY <1>3, AloneReads DEF ReadsAlone, Inv3
  <1>4. \A u \in TurnIds : TurnReads(u)'
    BY <1>3
  <1> QED
    BY <1>1, <1>2, <1>4, OwnerReads

-----------------------------------------------------------------------------
(* What people do, and the end of a lease.                                 *)

(* A step that writes no records.                                          *)
LEMMA StillReads ==
    ASSUME Inv1, Inv3, Timely, Leases, \A u \in TurnIds : Steady(u) /\ NoNewSteers(u),
           attempt' = attempt, runner' = runner, item' = item,
           \A g \in Holders : holder'[g] = holder[g] \/ holder'[g].pc # "launch"
    PROVE  Inv3'
  BY RecordsAlone, RunnersSilent, QuietReadsStep

(* Commands left alone.                                                    *)
LEMMA CommandsAlone ==
    ASSUME command' = command
    PROVE  \A u \in TurnIds : NoNewSteers(u)
  BY DEF NoNewSteers

(* A row that changes as no attempt would notice.                          *)
Unnoticed(t, row) ==
    /\ row.live => turn[t].live /\ row.token = turn[t].token
    /\ row.status # turn[t].status => turn[t].status \notin Active /\ row.status # "running"

(* One row changes.                                                        *)
LEMMA OneRowReads ==
    ASSUME Inv1, Inv3, Timely, NEW t, NEW row, turn' = WithRow(turn, t, row), Unnoticed(t, row),
           attempt' = attempt, runner' = runner, item' = item, \A u \in TurnIds : NoNewSteers(u),
           \A g \in Holders : holder'[g] = holder[g] \/ holder'[g].pc # "launch"
    PROVE  Inv3'
  <1>1. \A u \in TurnIds : turn'[u] = IF u = t THEN row ELSE turn[u]
    BY DEF Inv1, TurnsFit, WithRow
  <1>2. Leases /\ \A u \in TurnIds : Steady(u)
    BY <1>1 DEF Leases, Steady, Unnoticed
  <1> QED
    BY <1>2, StillReads

(* A queued turn is cancelled, held, queued again or retried; time passes. *)
LEMMA WaitingReads ==
    ASSUME Inv1, Inv3, Timely, NEW t \in TurnIds,
           CancelQueued(t) \/ Hold(t) \/ Unhold(t) \/ Retry(t) \/ Lapse(t) \/ FallsDue(t)
    PROVE  Inv3'
  <1>1. attempt' = attempt /\ holder' = holder /\ runner' = runner /\ item' = item /\ command' = command
    BY DEF CancelQueued, Hold, Unhold, Retry, Lapse, FallsDue
  <1>2. turn[t] \in TurnRow /\ turn \in [TurnIds -> TurnRow]
    BY Rows DEF Inv1, TurnsFit
  <1> DEFINE x == [turn[t] EXCEPT !.status = "cancelled"]
             y == [turn[t] EXCEPT !.status = "held", !.fresh = TRUE]
             z == [turn[t] EXCEPT !.status = "queued", !.fresh = FALSE]
             w == [turn[t] EXCEPT !.status = "queued", !.prio = 1, !.due = TRUE, !.stop = FALSE]
             l == [turn[t] EXCEPT !.live = FALSE]
             d == [turn[t] EXCEPT !.due = TRUE]
             f == [turn[t] EXCEPT !.fresh = FALSE]
  <1>3. /\ CancelQueued(t) => turn' = WithRow(turn, t, x) /\ turn[t].status \notin Active
        /\ Hold(t) => turn' = WithRow(turn, t, y) /\ turn[t].status \notin Active
        /\ Unhold(t) => turn' = WithRow(turn, t, z) /\ turn[t].status \notin Active
        /\ Retry(t) => turn' = WithRow(turn, t, w) /\ turn[t].status \notin Active
        /\ Lapse(t) => turn' = WithRow(turn, t, l)
        /\ FallsDue(t) => turn' = WithRow(turn, t, d) \/ turn' = WithRow(turn, t, f)
    BY <1>2 DEF CancelQueued, Hold, Unhold, Retry, Lapse, FallsDue, WithRow, Active
  <1>4. /\ x.live = turn[t].live /\ x.token = turn[t].token /\ x.status = "cancelled"
        /\ y.live = turn[t].live /\ y.token = turn[t].token /\ y.status = "held"
        /\ z.live = turn[t].live /\ z.token = turn[t].token /\ z.status = "queued"
        /\ w.live = turn[t].live /\ w.token = turn[t].token /\ w.status = "queued"
        /\ l.live = FALSE /\ l.status = turn[t].status
        /\ d.live = turn[t].live /\ d.token = turn[t].token /\ d.status = turn[t].status
        /\ f.live = turn[t].live /\ f.token = turn[t].token /\ f.status = turn[t].status
    BY <1>2 DEF TurnRow
  <1> HIDE DEF x, y, z, w, l, d, f
  <1>5. \E row : turn' = WithRow(turn, t, row) /\ Unnoticed(t, row)
    BY <1>3, <1>4 DEF Unnoticed
  <1> QED
    BY <1>1, <1>5, CommandsAlone, OneRowReads

(* Stops are no steers.                                                    *)
LEMMA InterruptsSteerNot ==
    ASSUME Inv1, command' = InterruptCommands
    PROVE  \A u \in TurnIds : NoNewSteers(u)
  <1>1. ASSUME NEW m \in Messages PROVE <<"steer", m>> # <<"interrupt">>
    OBVIOUS
  <1> QED
    BY <1>1 DEF NoNewSteers, InterruptCommands

(* To the front of the queue.                                              *)
LEMMA SendNowReads ==
    ASSUME Inv1, Inv3, Timely, NEW t \in TurnIds, SendNow(t)
    PROVE  Inv3'
  <1> DEFINE T == StopActive(turn)
  <1>1. /\ attempt' = attempt /\ holder' = holder /\ runner' = runner /\ item' = item
        /\ turn[t].status \notin Active /\ command' = InterruptCommands
        /\ turn' = [T EXCEPT ![t].status = "queued", ![t].prio = 1, ![t].fresh = FALSE]
    BY DEF SendNow, Active
  <1>2. /\ T \in [TurnIds -> TurnRow]
        /\ \A u \in TurnIds : T[u].status = turn[u].status /\ T[u].live = turn[u].live
                              /\ T[u].token = turn[u].token
    BY StopActiveKeeps DEF Inv1, TurnsFit
  <1> HIDE DEF T
  <1>3. \A u \in TurnIds : /\ turn'[u].live = T[u].live /\ turn'[u].token = T[u].token
                           /\ IF u = t THEN turn'[u].status = "queued" ELSE turn'[u].status = T[u].status
    <2> DEFINE row == [T[t] EXCEPT !.status = "queued", !.prio = 1, !.fresh = FALSE]
    <2>1. \A u \in TurnIds : turn'[u] = IF u = t THEN row ELSE T[u]
      BY <1>1, <1>2
    <2>2. row.live = T[t].live /\ row.token = T[t].token /\ row.status = "queued"
      BY <1>2 DEF TurnRow
    <2> HIDE DEF row
    <2> QED
      BY <2>1, <2>2
  <1>4. Leases /\ \A u \in TurnIds : Steady(u)
    BY <1>1, <1>2, <1>3 DEF Leases, Steady
  <1> QED
    BY <1>1, <1>4, InterruptsSteerNot, StillReads

(* A message is to be read now.                                            *)
LEMMA SteerNowReads ==
    ASSUME Inv1, Inv3, Timely, NEW m \in Messages, SteerNow(m)
    PROVE  Inv3'
  <1>1. /\ turn' = turn /\ attempt' = attempt /\ holder' = holder /\ runner' = runner /\ item' = item
        /\ \E t \in TurnIds : command' = [command EXCEPT ![t] = @ \cup {<<"restart", m, Len(attempt[t])>>}]
    BY DEF SteerNow
  <1>2. \A x \in Messages, t \in TurnIds : <<"steer", x>> # <<"restart", m, Len(attempt[t])>>
    OBVIOUS
  <1>3. \A u \in TurnIds : NoNewSteers(u)
    BY <1>1, <1>2 DEF NoNewSteers, Inv1, TablesFit
  <1> QED
    BY <1>1, <1>3, TurnsSteady, StillReads

(* The holder goes away, or gives its turn up.                             *)
LEMMA LeavingReads ==
    ASSUME Inv1, Inv3, Timely, NEW h \in Holders, Leave(h) \/ Crash(h) \/ Disconnected(h)
    PROVE  Inv3'
  <1>1. attempt' = attempt /\ runner' = runner /\ item' = item /\ command' = command
        /\ holder' = [holder EXCEPT ![h] = Idle]
    BY DEF Leave, Crash, Disconnected
  <1>2. \A g \in Holders : holder'[g] = holder[g] \/ holder'[g].pc # "launch"
    <2>1. holder \in [Holders -> HolderRow]
      BY DEF Inv1, TablesFit
    <2> QED
      BY <1>1, <2>1, IdleRow
  <1>3. \A u \in TurnIds : NoNewSteers(u)
    BY <1>1, CommandsAlone
  <1>4. CASE turn' = turn
    BY <1>1, <1>2, <1>3, <1>4, TurnsSteady, StillReads
  <1>5. CASE turn' = [turn EXCEPT ![holder[h].turn].live = FALSE] /\ holder[h].pc # "idle"
    <2> DEFINE t == holder[h].turn
               row == [turn[t] EXCEPT !.live = FALSE]
    <2>1. t \in TurnIds /\ turn[t] \in TurnRow
      BY <1>5, Driven
    <2>2. turn' = WithRow(turn, t, row)
      BY <1>5, Zenon DEF WithRow
    <2>3. ~row.live /\ row.status = turn[t].status
      BY <2>1 DEF TurnRow
    <2> HIDE DEF row, t
    <2>4. Unnoticed(t, row)
      BY <2>3 DEF Unnoticed
    <2> QED
      BY <1>1, <1>2, <1>3, <2>2, <2>4, OneRowReads
  <1> QED
    BY <1>4, <1>5 DEF Leave, Crash, Disconnected

(* A graceful stop.                                                        *)
LEMMA StopReads ==
    ASSUME Inv1, Inv3, Timely, NEW h \in Holders, Stop(h)
    PROVE  Inv3'
  <1>1. attempt' = attempt /\ runner' = runner /\ item' = item
    BY DEF Stop
  <1>2. CASE /\ turn' = turn /\ holder' = holder
             /\ command' = [command EXCEPT ![holder[h].turn] = @ \cup {<<"interrupt">>}]
    <2>1. \A x \in Messages : <<"steer", x>> # <<"interrupt">>
      OBVIOUS
    <2>2. \A u \in TurnIds : NoNewSteers(u)
      BY <1>2, <2>1 DEF NoNewSteers, Inv1, TablesFit
    <2> QED
      BY <1>1, <1>2, <2>2, TurnsSteady, StillReads
  <1>3. CASE /\ turn' = [turn EXCEPT ![holder[h].turn].live = FALSE] /\ command' = command
             /\ holder' = [holder EXCEPT ![h] = IF @.pc = "start" THEN @ ELSE Idle]
    <2> DEFINE t == holder[h].turn
               row == [turn[t] EXCEPT !.live = FALSE]
    <2>1. t \in TurnIds /\ turn[t] \in TurnRow
      BY Driven DEF Stop, Owns
    <2>2. turn' = WithRow(turn, t, row)
      BY <1>3, Zenon DEF WithRow
    <2>3. ~row.live /\ row.status = turn[t].status
      BY <2>1 DEF TurnRow
    <2>4. \A g \in Holders : holder'[g] = holder[g] \/ holder'[g].pc # "launch"
      <3>1. holder \in [Holders -> HolderRow]
        BY DEF Inv1, TablesFit
      <3> QED
        BY <1>3, <3>1, IdleRow
    <2> HIDE DEF row, t
    <2>5. Unnoticed(t, row)
      BY <2>3 DEF Unnoticed
    <2>6. \A u \in TurnIds : NoNewSteers(u)
      BY <1>3, CommandsAlone
    <2> QED
      BY <1>1, <2>2, <2>4, <2>5, <2>6, OneRowReads
  <1> QED
    BY <1>2, <1>3 DEF Stop

(* A message that was not sent yet is given a turn.                        *)
LEMMA GivenKeeps ==
    ASSUME Inv1, NEW m \in Messages, item[m] = None, NEW y, item' = [item EXCEPT ![m] = y]
    PROVE  \A u \in TurnIds : KeepsItems(u)
  <1>1. \A u \in TurnIds : u # None
    BY Names, NoneAssumption
  <1>2. item \in [Messages -> TurnIds \cup {None}]
    BY DEF Inv1, TablesFit
  <1> QED
    BY <1>1, <1>2 DEF KeepsItems, SteeredItems

(* A message is sent.                                                      *)
LEMMA SendReads ==
    ASSUME Inv1, Inv3, Timely, NEW m \in Messages, NEW mode, Send(m, mode)
    PROVE  Inv3'
  <1>1. attempt' = attempt /\ holder' = holder /\ runner' = runner
    BY DEF Send
  <1>2. Own(m) \in TurnIds /\ turn[Own(m)].status = "none" /\ item[m] = None
    BY Names DEF Inv1, ItemsFit, Send
  <1>3. Leases /\ \A u \in TurnIds : Steady(u)
    <2>1. CASE turn' = turn
      BY <2>1, TurnsSteady
    <2> DEFINE T == [turn EXCEPT ![Own(m)] = NewTurn(LastOrdinal(turn) + 1, 0)]
               U == [StopActive(turn) EXCEPT ![Own(m)] = NewTurn(LastOrdinal(turn) + 1, 1)]
    <2>2. /\ ~NewTurn(LastOrdinal(turn) + 1, 0).live /\ ~NewTurn(LastOrdinal(turn) + 1, 1).live
          /\ NewTurn(LastOrdinal(turn) + 1, 0).status = "queued"
          /\ NewTurn(LastOrdinal(turn) + 1, 1).status = "queued"
      BY DEF NewTurn, Absent
    <2>3. CASE turn' = T
      <3>1. \A u \in TurnIds : T[u] = IF u = Own(m) THEN NewTurn(LastOrdinal(turn) + 1, 0) ELSE turn[u]
        BY DEF Inv1, TurnsFit
      <3> HIDE DEF T
      <3> QED
        BY <1>2, <2>2, <2>3, <3>1 DEF Leases, Steady, Active
    <2>4. CASE turn' = U
      <3>1. \A u \in TurnIds : StopActive(turn)[u].status = turn[u].status
                /\ StopActive(turn)[u].live = turn[u].live /\ StopActive(turn)[u].token = turn[u].token
        BY StopActiveKeeps DEF Inv1
      <3>2. \A u \in TurnIds : U[u] = IF u = Own(m) THEN NewTurn(LastOrdinal(turn) + 1, 1)
                                      ELSE StopActive(turn)[u]
        BY DEF StopActive
      <3> HIDE DEF U
      <3> QED
        BY <1>2, <2>2, <2>4, <3>1, <3>2 DEF Leases, Steady, Active
    <2> QED
      BY <2>1, <2>3, <2>4 DEF Send
  <1>4. \A u \in TurnIds : KeepsItems(u)
    <2>1. \E y : item' = [item EXCEPT ![m] = y]
      BY DEF Send
    <2> QED
      BY <1>2, <2>1, GivenKeeps
  <1>5. \A u \in TurnIds : QuietSteers(u)
    <2>1. CASE command' = command
      BY <2>1 DEF QuietSteers
    <2>2. CASE command' = InterruptCommands
      BY <2>2, InterruptsSteerNot DEF QuietSteers, NoNewSteers
    <2>3. ASSUME NEW t \in ActiveTurns, item' = [item EXCEPT ![m] = t], turn' = turn,
                 command' = [command EXCEPT ![t] = @ \cup {<<"steer", m>>}]
          PROVE  \A u \in TurnIds : QuietSteers(u)
      <3>1. t # Own(m) /\ t \in TurnIds /\ turn'[t].status \in Active
        BY <1>2, <2>3 DEF ActiveTurns, Active
      <3>2. m \in SteeredItems(t)'
        BY <2>3, <3>1 DEF SteeredItems, Inv1, TablesFit
      <3>3. \A u \in TurnIds : command'[u] = IF u = t THEN command[t] \cup {<<"steer", m>>} ELSE command[u]
        BY <2>3, <3>1 DEF Inv1, TablesFit
      <3>4. \A x \in Messages : <<"steer", x>> = <<"steer", m>> => x = m
        OBVIOUS
      <3> QED
        BY <1>2, <3>1, <3>2, <3>3, <3>4 DEF QuietSteers
    <2> QED
      BY <2>1, <2>2, <2>3 DEF Send
  <1>6. \A u \in TurnIds : QuietAttempts(u) /\ QuietRunners(u)
    BY <1>1, RecordsAlone, RunnersSilent
  <1>7. \A u \in TurnIds : TurnReads(u)'
    BY <1>3, <1>4, <1>5, <1>6, QuietReads DEF Inv3
  <1>8. \A u \in ActiveTurns : QuietAttempts(u) /\ KeepsItems(u)
    BY <1>4, <1>6 DEF ActiveTurns
  <1> QED
    BY <1>1, <1>3, <1>7, <1>8, OutsideReads

(* What the messages that are requeued leave.                              *)
LEMMA RequeuedLeave ==
    ASSUME Inv1, NEW S, item' = RequeuedItems(S)
    PROVE  /\ \A u \in TurnIds : u \notin S => KeepsItems(u)
           /\ \A u \in TurnIds : \A m \in SteeredItems(u) \ Unread(u) : m \in SteeredItems(u)'
  <1>1. \A m \in Messages : item'[m] = IF \E t \in S : m \in Unread(t) THEN Own(m) ELSE item[m]
    BY DEF RequeuedItems
  <1>2. \A u \in TurnIds : \A m \in SteeredItems(u) : \A t \in S : m \in Unread(t) => u = t
    BY DEF Unread, SteeredItems
  <1>3. \A u \in TurnIds : \A m \in SteeredItems(u) : (\A t \in S : m \notin Unread(t)) => m \in SteeredItems(u)'
    BY <1>1 DEF SteeredItems
  <1> QED
    BY <1>2, <1>3 DEF KeepsItems

(* What stops is stopped, and what waits to be tried again is interrupted. *)
LEMMA InterruptReads ==
    ASSUME Inv1, Inv3, Timely, Interrupt
    PROVE  Inv3'
  <1> DEFINE waiting == {t \in TurnIds : WaitsToRetry(t)}
             ended == [t \in TurnIds |->
                         IF t \in waiting THEN [turn[t] EXCEPT !.status = "interrupted"]
                         ELSE turn[t]]
  <1>1. attempt' = attempt /\ holder' = holder /\ runner' = runner /\ command' = InterruptCommands
    BY DEF Interrupt
  <1>2. turn' = StopActive(RequeueSteers(ended, waiting)) /\ item' = RequeuedItems(waiting)
    BY Zenon DEF Interrupt
  <1>3. \A u \in TurnIds : /\ ended[u].live = turn[u].live /\ ended[u].token = turn[u].token
                           /\ ended[u].status = IF u \in waiting THEN "interrupted" ELSE turn[u].status
                           /\ {"status", "live", "token"} \subseteq DOMAIN ended[u]
    <2>1. \A u \in TurnIds : turn[u] \in TurnRow
      BY Rows
    <2>2. \A u \in TurnIds : ended[u] = IF u \in waiting THEN [turn[u] EXCEPT !.status = "interrupted"]
                                        ELSE turn[u]
      OBVIOUS
    <2> HIDE DEF ended, waiting
    <2> QED
      BY <2>1, <2>2 DEF TurnRow
  <1>4. \A m \in Moved(waiting) : turn[Own(m)].status = "none"
    BY MovedAbsent DEF Inv1
  <1> DEFINE U == RequeueSteers(ended, waiting)
  <1>5. \A u \in TurnIds : \/ U[u] = ended[u]
                           \/ /\ turn[u].status = "none" /\ ~U[u].live /\ U[u].status = "queued"
                              /\ {"status", "live", "token"} \subseteq DOMAIN U[u]
    <2>1. \A u \in TurnIds : U[u] = IF \E m \in Moved(waiting) : u = Own(m) THEN U[u] ELSE ended[u]
      BY DEF RequeueSteers, Moved
    <2>2. \A u \in TurnIds : (\E m \in Moved(waiting) : u = Own(m)) =>
            ~U[u].live /\ U[u].status = "queued" /\ {"status", "live", "token"} \subseteq DOMAIN U[u]
      <3>1. ASSUME NEW x, NEW y
            PROVE  /\ ~NewTurn(x, y).live /\ {"status", "live", "token"} \subseteq DOMAIN NewTurn(x, y)
                   /\ NewTurn(x, y).status = "queued"
        BY DEF NewTurn, Absent
      <3>2. \A u \in TurnIds : (\E m \in Moved(waiting) : u = Own(m)) => \E x : U[u] = NewTurn(x, 0)
        BY DEF RequeueSteers, Moved
      <3> HIDE DEF U
      <3> QED
        BY <3>1, <3>2
    <2> HIDE DEF U, ended, waiting
    <2> QED
      BY <1>4, <2>1, <2>2
  <1>6. \A u \in TurnIds : turn'[u] = IF U[u].status \in Active THEN [U[u] EXCEPT !.stop = TRUE] ELSE U[u]
    BY <1>2 DEF StopActive
  <1>7. \A u \in waiting : u \in TurnIds /\ turn[u].status \notin Active
    BY DEF WaitsToRetry, Active
  <1>8. waiting \subseteq TurnIds
    OBVIOUS
  <1> HIDE DEF U, ended, waiting
  <1>9. \A u \in TurnIds : /\ turn'[u].live = U[u].live /\ turn'[u].token = U[u].token
                           /\ turn'[u].status = U[u].status
    BY <1>3, <1>5, <1>6
  <1>10. Leases /\ \A u \in TurnIds : Steady(u)
    BY <1>3, <1>5, <1>7, <1>9 DEF Leases, Steady, Active
  <1>11. \A u \in TurnIds : QuietAttempts(u) /\ QuietRunners(u) /\ NoNewSteers(u)
    BY <1>1, RecordsAlone, RunnersSilent, InterruptsSteerNot
  <1>12. /\ \A u \in TurnIds : u \notin waiting => KeepsItems(u)
         /\ \A u \in TurnIds : \A m \in SteeredItems(u) \ Unread(u) : m \in SteeredItems(u)'
    BY <1>2, RequeuedLeave
  <1>13. ASSUME NEW u \in TurnIds, u \notin waiting PROVE TurnReads(u)'
    <2>1. QuietSteers(u)
      BY <1>11 DEF QuietSteers, NoNewSteers
    <2> QED
      BY <1>10, <1>11, <1>12, <1>13, <2>1, QuietReads DEF Inv3
  <1>14. ASSUME NEW u \in TurnIds, u \in waiting PROVE TurnReads(u)'
    <2>1. TurnReads(u) /\ turn[u].status \notin Active
      BY <1>7, <1>14 DEF Inv3
    <2>2. \A m \in Messages : <<"steer", m>> \notin command'[u]
      BY <1>11, <2>1 DEF TurnReads, SteersJoin, NoNewSteers
    <2>3. turn'[u].status # "running"
      BY <1>10, <2>1 DEF Steady, Active
    <2> QED
      BY <1>11, <1>12, <2>1, <2>2, <2>3, ClosedReads
  <1>15. \A u \in ActiveTurns : QuietAttempts(u) /\ KeepsItems(u)
    BY <1>7, <1>11, <1>12 DEF ActiveTurns
  <1>16. \A u \in TurnIds : TurnReads(u)'
    BY <1>13, <1>14
  <1> QED
    BY <1>1, <1>10, <1>15, <1>16, OutsideReads

(* People.                                                                 *)
LEMMA PeopleReads ==
    ASSUME Inv1, Inv3, Timely, People
    PROVE  Inv3'
  <1>1. CASE \E m \in Messages, mode \in Modes : Send(m, mode)
    BY <1>1, SendReads
  <1>2. CASE Interrupt
    BY <1>2, InterruptReads
  <1>3. CASE \E t \in TurnIds : CancelQueued(t) \/ Hold(t) \/ Unhold(t) \/ Retry(t)
    BY <1>3, WaitingReads
  <1>4. CASE \E t \in TurnIds : SendNow(t)
    BY <1>4, SendNowReads
  <1>5. CASE \E m \in Messages : SteerNow(m)
    BY <1>5, SteerNowReads
  <1>6. CASE \E x \in Harnesses : SwitchHarness(x)
    <2>1. /\ turn' = turn /\ attempt' = attempt /\ holder' = holder /\ runner' = runner
          /\ item' = item /\ command' = command
      BY <1>6 DEF SwitchHarness
    <2> QED
      BY <2>1, TurnsSteady, CommandsAlone, StillReads
  <1> QED
    BY <1>1, <1>2, <1>3, <1>4, <1>5, <1>6 DEF People

-----------------------------------------------------------------------------
(* Steps of a holder that read and send nothing.                           *)

(* A holder goes on, and is not about to launch.                           *)
LEMMA HolderQuiet ==
    ASSUME Inv1, NEW h \in Holders, NEW v, holder' = [holder EXCEPT ![h] = v], v.pc # "launch"
    PROVE  \A g \in Holders : holder'[g] = holder[g] \/ holder'[g].pc # "launch"
  BY DEF Inv1, TablesFit

(* Where a holder goes on, and what it knows of it.                        *)
LEMMA PlaceReads ==
    ASSUME Inv1, Inv3, Timely, NEW h \in Holders,
           Load(h) \/ Refuse(h) \/ FinalizeFails(h) \/ Exited(h) \/ RetryFailureDue(h)
    PROVE  Inv3'
  <1>1. /\ turn' = turn /\ attempt' = attempt /\ runner' = runner /\ item' = item /\ command' = command
        /\ holder[h].pc # "launch"
    BY DEF Load, Refuse, FinalizeFails, Exited, RetryFailureDue
  <1>2. holder[h] \in HolderRow /\ holder \in [Holders -> HolderRow]
    BY DEF Inv1, TablesFit
  <1>3. \E v : holder' = [holder EXCEPT ![h] = v] /\ v.pc # "launch"
    <2>1. CASE Load(h)
      <3>1. PICK p, n : /\ p # "launch"
                        /\ \/ holder' = [holder EXCEPT ![h].pc = p, ![h].n = n]
                           \/ \E o : holder' = [[holder EXCEPT ![h].pc = p, ![h].n = n]
                                                  EXCEPT ![h].outcome = o]
        <4>1. PICK t : t = holder[h].turn
          OBVIOUS
        <4>2. PICK n : n = Len(attempt[t])
          OBVIOUS
        <4>3. PICK o : o = AttemptOutcome(attempt[t][n])
          OBVIOUS
        <4>4. \/ holder' = [holder EXCEPT ![h].pc = "attempt", ![h].n = n]
              \/ holder' = [holder EXCEPT ![h].pc = "attach", ![h].n = n]
              \/ holder' = [[holder EXCEPT ![h].pc = "settle", ![h].n = n] EXCEPT ![h].outcome = o]
          BY <2>1, <4>1, <4>2, <4>3 DEF Load
        <4> QED
          BY <4>4
      <3> DEFINE v == [holder[h] EXCEPT !.pc = p, !.n = n]
      <3>2. v.pc = p /\ \A o : [v EXCEPT !.outcome = o].pc = p
        BY <1>2 DEF HolderRow
      <3>3. [holder EXCEPT ![h].pc = p, ![h].n = n] = [holder EXCEPT ![h] = v]
        BY <1>2
      <3>4. \A o : [[holder EXCEPT ![h].pc = p, ![h].n = n] EXCEPT ![h].outcome = o]
                     = [holder EXCEPT ![h] = [v EXCEPT !.outcome = o]]
        BY <1>2
      <3> HIDE DEF v
      <3> QED
        BY <3>1, <3>2, <3>3, <3>4
    <2>2. CASE Refuse(h)
      <3> DEFINE v == [holder[h] EXCEPT !.pc = "refuse", !.outcome = "failed"]
      <3>1. holder' = [holder EXCEPT ![h] = v] /\ v.pc = "refuse"
        BY <1>2, <2>2 DEF Refuse, HolderRow
      <3> QED
        BY <3>1
    <2>3. CASE FinalizeFails(h)
      <3> DEFINE v == [holder[h] EXCEPT !.outcome = "failed"]
      <3>1. holder' = [holder EXCEPT ![h] = v] /\ v.pc = holder[h].pc
        BY <1>2, <2>3 DEF FinalizeFails, HolderRow
      <3> QED
        BY <1>1, <3>1
    <2>4. CASE Exited(h)
      <3> DEFINE v == [holder[h] EXCEPT !.pc = "lose"]
      <3>1. holder' = [holder EXCEPT ![h] = v] /\ v.pc = "lose"
        BY <1>2, <2>4 DEF Exited, HolderRow
      <3> QED
        BY <3>1
    <2>5. CASE RetryFailureDue(h)
      <3> DEFINE x == [holder[h] EXCEPT !.pc = "killed", !.outcome = "interrupted"]
                 y == [Idle EXCEPT !.pc = "attempt", !.turn = holder[h].turn]
      <3>1. holder' = [holder EXCEPT ![h] = x] \/ holder' = [holder EXCEPT ![h] = y]
        BY <2>5 DEF RetryFailureDue
      <3>2. x.pc = "killed" /\ y.pc = "attempt"
        BY <1>2 DEF HolderRow, Idle
      <3> HIDE DEF x, y
      <3> QED
        BY <3>1, <3>2
    <2> QED
      BY <2>1, <2>2, <2>3, <2>4, <2>5
  <1>4. \A g \in Holders : holder'[g] = holder[g] \/ holder'[g].pc # "launch"
    BY <1>3, HolderQuiet
  <1> QED
    BY <1>1, <1>4, TurnsSteady, CommandsAlone, StillReads

(* A runner's row changes, and it says and is sent nothing.                *)
LEMMA RunnerSilent ==
    ASSUME NEW t, NEW c, NEW row, RunnerPut(t, c, row), Silent(runner[t][c], row)
    PROVE  \A u \in TurnIds : QuietRunners(u)
  <1>1. ASSUME NEW u \in TurnIds, NEW i \in 1 .. Len(runner[u]) PROVE Silent(runner[u][i], runner'[u][i])
    <2>1. runner'[u][i] = runner[u][i] \/ (u = t /\ i = c)
      BY <1>1 DEF RunnerPut
    <2>2. runner'[t][c] = row
      BY DEF RunnerPut
    <2> QED
      BY <2>1, <2>2 DEF Silent
  <1> QED
    BY <1>1 DEF QuietRunners

(* A runner is started, or stopped.                                        *)
LEMMA PhaseSilent ==
    ASSUME Inv1, NEW t \in TurnIds, NEW c \in 1 .. Len(runner[t]), NEW p \in Phases,
           runner' = [runner EXCEPT ![t][c].phase = p]
    PROVE  \A u \in TurnIds : QuietRunners(u)
  <1> DEFINE row == [runner[t][c] EXCEPT !.phase = p]
  <1>1. TablesFit /\ runner[t][c] \in RunnerRow
    BY Lengths DEF Inv1
  <1>2. row \in RunnerRow /\ Silent(runner[t][c], row)
    <2>1. PICK r \in RunnerRow : r = runner[t][c]
      BY <1>1
    <2>2. [r EXCEPT !.phase = p] \in RunnerRow
      BY <2>1 DEF RunnerRow
    <2>3. Silent(r, [r EXCEPT !.phase = p])
      BY <2>1 DEF RunnerRow, Silent
    <2> QED
      BY <2>1, <2>2, <2>3
  <1>3. runner' = WithPlace(runner, t, c, row)
    BY DEF WithPlace
  <1> HIDE DEF row
  <1>4. RunnerPut(t, c, row)
    BY <1>1, <1>2, <1>3, RunnerWrite
  <1> QED
    BY <1>2, <1>4, RunnerSilent

(* The kill of a channel.                                                  *)
LEMMA KilledSilent ==
    ASSUME Inv1, NEW t \in TurnIds, NEW c \in 1 .. Len(runner[t]), runner' \in Killed(t, c)
    PROVE  \A u \in TurnIds : QuietRunners(u)
  <1>1. TablesFit /\ runner[t][c] \in RunnerRow
    BY Lengths DEF Inv1
  <1>2. PICK row \in RunnerRow :
            /\ RunnerPut(t, c, row)
            /\ \/ row = [runner[t][c] EXCEPT !.phase = "gone"]
               \/ row = [runner[t][c] EXCEPT !.left = TRUE]
    BY <1>1, KilledKeeps
  <1>3. Silent(runner[t][c], row)
    BY <1>1, <1>2 DEF RunnerRow, Silent
  <1> QED
    BY <1>2, <1>3, RunnerSilent

(* Runners left to themselves.                                             *)
LEMMA AbandonedSilent ==
    ASSUME Inv1, NEW t \in TurnIds, runner' = Abandoned(t)
    PROVE  \A u \in TurnIds : QuietRunners(u)
  <1>1. TablesFit
    BY DEF Inv1
  <1>2. /\ \A u \in TurnIds : u # t => runner'[u] = runner[u]
        /\ \A c \in 1 .. Len(runner[t]) :
                runner'[t][c] = [runner[t][c] EXCEPT
                    !.left = runner[t][c].left \/ runner[t][c].phase \in {"up", "told", "began"}]
    BY <1>1, AbandonedKeeps
  <1>3. ASSUME NEW c \in 1 .. Len(runner[t]) PROVE Silent(runner[t][c], runner'[t][c])
    <2>1. PICK l : l = (runner[t][c].left \/ runner[t][c].phase \in {"up", "told", "began"})
      OBVIOUS
    <2>2. runner'[t][c] = [runner[t][c] EXCEPT !.left = l]
      BY <1>2, <2>1
    <2>3. runner[t][c] \in RunnerRow
      BY <1>1, Lengths
    <2> QED
      BY <2>2, <2>3 DEF RunnerRow, Silent
  <1> QED
    BY <1>2, <1>3 DEF QuietRunners, Silent

(* The row of an attempt changes, and it records the same.                 *)
LEMMA AttemptSame ==
    ASSUME NEW t, NEW n, NEW row, AttemptPut(t, n, row), Same(attempt[t][n].runner, row.runner)
    PROVE  \A u \in TurnIds : QuietAttempts(u)
  <1>1. ASSUME NEW u \in TurnIds, NEW i \in 1 .. Len(attempt[u])
        PROVE  Same(attempt[u][i].runner, attempt'[u][i].runner)
    <2>1. attempt'[u][i] = attempt[u][i] \/ (u = t /\ i = n)
      BY <1>1 DEF AttemptPut
    <2>2. attempt'[t][n] = row
      BY DEF AttemptPut
    <2> QED
      BY <2>1, <2>2 DEF Same
  <1> QED
    BY <1>1 DEF QuietAttempts, AttemptPut

(* Only the phase of a runner changes.                                     *)
LEMMA PhaseReads ==
    ASSUME Inv1, Inv3, Timely, turn' = turn, attempt' = attempt, item' = item, command' = command,
           \A u \in TurnIds : QuietRunners(u),
           NEW h \in Holders, NEW v, holder' = [holder EXCEPT ![h] = v], v.pc # "launch"
    PROVE  Inv3'
  <1>1. \A u \in TurnIds : QuietAttempts(u) /\ NoNewSteers(u) /\ Steady(u)
    BY RecordsAlone, CommandsAlone, TurnsSteady
  <1>2. Leases /\ \A g \in Holders : holder'[g] = holder[g] \/ holder'[g].pc # "launch"
    BY HolderQuiet, TurnsSteady
  <1> QED
    BY <1>1, <1>2, QuietReadsStep

(* The start of a runner is sent.                                          *)
LEMMA StartReads ==
    ASSUME Inv1, Inv3, Timely, NEW h \in Holders, Start(h)
    PROVE  Inv3'
  <1> DEFINE v == [holder[h] EXCEPT !.pc = "pump"]
             c == holder[h].chan
             p == IF runner[holder[h].turn][c].phase = "up" THEN "told"
                  ELSE runner[holder[h].turn][c].phase
  <1>1. /\ turn' = turn /\ attempt' = attempt /\ item' = item /\ command' = command
        /\ holder' = [holder EXCEPT ![h] = v]
        /\ holder[h].turn \in TurnIds /\ c \in 1 .. Len(runner[holder[h].turn])
        /\ runner[holder[h].turn][c] \in RunnerRow /\ holder[h] \in HolderRow
    BY InPlace DEF Start
  <1>2. runner' = [runner EXCEPT ![holder[h].turn][c].phase = p]
    BY Zenon DEF Start
  <1>3. PICK t \in TurnIds : t = holder[h].turn
    BY <1>1
  <1>4. p \in Phases
    <2>1. runner[t][c].phase \in Phases
      BY <1>1, <1>3 DEF RunnerRow
    <2> QED
      BY <1>3, <2>1 DEF Phases
  <1>5. v.pc = "pump"
    BY <1>1 DEF HolderRow
  <1> HIDE DEF p, v, c
  <1>6. \A u \in TurnIds : QuietRunners(u)
    BY <1>1, <1>2, <1>3, <1>4, PhaseSilent
  <1> QED
    BY <1>1, <1>5, <1>6, PhaseReads

(* A deaf harness is killed.                                               *)
LEMMA KillReads ==
    ASSUME Inv1, Inv3, Timely, NEW h \in Holders, Kill(h)
    PROVE  Inv3'
  <1> DEFINE v == [holder[h] EXCEPT !.pc = "killed", !.outcome = "interrupted"]
  <1>1. /\ holder[h].pc = "pump" /\ turn' = turn /\ attempt' = attempt
        /\ item' = item /\ command' = command /\ holder[h] \in HolderRow
        /\ holder' = [holder EXCEPT ![h] = v]
    BY InPlace DEF Kill
  <1>2. PICK t \in TurnIds : t = holder[h].turn
    BY <1>1, InPlace
  <1>3. PICK c \in 1 .. Len(runner[t]) : c = holder[h].chan
    BY <1>1, <1>2, InPlace
  <1>4. v.pc = "killed"
    BY <1>1 DEF HolderRow
  <1>5. runner' \in Killed(t, c)
    BY <1>2, <1>3 DEF Kill
  <1>6. \A u \in TurnIds : QuietRunners(u)
    BY <1>5, KilledSilent
  <1> HIDE DEF v
  <1> QED
    BY <1>1, <1>4, <1>6, PhaseReads

(* A step threw: the runner is told to stop, or left to itself.            *)
LEMMA FailUnexpectedlyReads ==
    ASSUME Inv1, Inv3, Timely, NEW h \in Holders, FailUnexpectedly(h)
    PROVE  Inv3'
  <1>1. /\ Owns(h) /\ holder[h].pc # "idle" /\ turn' = turn /\ attempt' = attempt
        /\ item' = item /\ command' = command
    BY DEF FailUnexpectedly, Owns
  <1>2. PICK t \in TurnIds : t = holder[h].turn
    BY <1>1, InPlace
  <1>3. PICK n : n = Len(attempt[t])
    OBVIOUS
  <1> DEFINE found == holder[h].pc = "attach" /\ attempt[t][n].runner # None
             v == [holder[h] EXCEPT !.pc = "settle", !.n = n, !.outcome = "failed"]
  <1>4. PICK c : c = IF found THEN attempt[t][n].runner.at ELSE holder[h].chan
    OBVIOUS
  <1>5. /\ \/ c # 0 /\ runner' = [runner EXCEPT ![t][c].phase = "gone"]
           \/ runner' = Abandoned(t)
        /\ holder' = [holder EXCEPT ![h] = v]
    BY <1>2, <1>3, <1>4 DEF FailUnexpectedly
  <1>6. TablesFit /\ holder[h] \in HolderRow
    BY <1>1, InPlace
  <1>7. n \in Nat /\ Len(runner[t]) \in Nat
    BY <1>3, <1>6, Lengths
  <1>8. v.pc = "settle"
    BY <1>6 DEF HolderRow
  <1> HIDE DEF v
  <1>9. CASE runner' = Abandoned(t)
    <2>1. \A u \in TurnIds : QuietRunners(u)
      BY <1>9, AbandonedSilent
    <2> QED
      BY <1>1, <1>5, <1>8, <2>1, PhaseReads
  <1>10. CASE c # 0 /\ runner' = [runner EXCEPT ![t][c].phase = "gone"]
    <2>1. c \in 1 .. Len(runner[t])
      <3>1. CASE found
        <4>1. holder[h].n \in 1 .. Len(attempt[t])
          BY <1>1, <1>2, <3>1, InPlace
        <4>2. n \in 1 .. Len(attempt[t])
          BY <1>3, <1>7, <4>1
        <4> QED
          BY <1>4, <3>1, <4>2 DEF Inv1, AttemptsFit
      <3>2. CASE ~found
        <4>1. holder[h].chan \in 0 .. Len(runner[t])
          BY <1>1, <1>2, InPlace
        <4>2. c = holder[h].chan
          BY <1>4, <3>2
        <4> QED
          BY <1>7, <1>10, <4>1, <4>2
      <3> QED
        BY <3>1, <3>2
    <2>2. "gone" \in Phases
      BY DEF Phases
    <2>3. \A u \in TurnIds : QuietRunners(u)
      BY <1>10, <2>1, <2>2, PhaseSilent
    <2> QED
      BY <1>1, <1>5, <1>8, <2>3, PhaseReads
  <1> QED
    BY <1>5, <1>9, <1>10

(* The owner of a turn at rest puts it where it belongs.                   *)
LEMMA PutsReads ==
    ASSUME Inv1, Inv2, Inv3, Timely, NEW h \in Holders, holder[h].pc \in {"ended", "killed"}, May(h),
           NEW t \in TurnIds, t = holder[h].turn, NEW s \in Active \ {"running"}, turn' = PutActive(t, s),
           runner' = runner, item' = item, \A u \in TurnIds : QuietAttempts(u) /\ NoNewSteers(u),
           NEW v, holder' = [holder EXCEPT ![h] = v], v.pc # "launch"
    PROVE  Inv3'
  <1>1. holder[h].pc \in Writers /\ 0 \in Nat /\ s \in Active
    BY DEF Writers
  <1>2. /\ Leases /\ turn'[t].status = s
        /\ \A u \in TurnIds : u # t => turn'[u] = turn[u]
    <2>1. Leases /\ turn'[t].status = s
      BY <1>1, PutsOwned
    <2>2. \A u \in TurnIds : u # t => turn'[u] = turn[u]
      BY <1>1, PutActiveKeeps
    <2> QED
      BY <2>1, <2>2
  <1>3. \A u \in TurnIds : Steady(u)
    BY <1>1, <1>2 DEF Steady
  <1>4. \A g \in Holders : holder'[g] = holder[g] \/ holder'[g].pc # "launch"
    BY HolderQuiet
  <1> QED
    BY <1>2, <1>3, <1>4, RunnersSilent, QuietReadsStep

(* An attempt that is to start again gives way to the next.                *)
LEMMA RestartReads ==
    ASSUME Inv1, Inv2, Inv3, Timely, NEW h \in Holders, Restart(h)
    PROVE  Inv3'
  <1>1. /\ holder[h].pc \in {"ended", "killed"} /\ May(h) /\ runner' = runner /\ item' = item
        /\ holder[h].pc = "ended" /\ TablesFit
    BY InPlace DEF Restart, Restarts
  <1>2. PICK t \in TurnIds : t = holder[h].turn
    BY <1>1, OwnerHas
  <1>3. PICK n : n = holder[h].n
    OBVIOUS
  <1>4. n \in 1 .. Len(attempt[t]) /\ attempt[t][n] \in AttemptRow
    BY <1>1, <1>2, <1>3, InPlace
  <1> DEFINE row == [attempt[t][n] EXCEPT !.status = "superseded"]
             v == [Idle EXCEPT !.pc = "attempt", !.turn = t]
  <1>5. /\ attempt' = WithPlace(attempt, t, n, row)
        /\ turn' = PutActive(t, "preparing")
        /\ holder' = [holder EXCEPT ![h] = v]
        /\ command' = [command EXCEPT ![t] = {}]
    <2>1. /\ attempt' = [attempt EXCEPT ![t][n].status = "superseded"]
          /\ turn' = PutActive(t, "preparing")
          /\ holder' = [holder EXCEPT ![h] = v]
          /\ command' = [command EXCEPT ![t] = {}]
      BY <1>2, <1>3, Zenon DEF Restart
    <2> QED
      BY <2>1 DEF WithPlace
  <1>6. row \in AttemptRow /\ Same(attempt[t][n].runner, row.runner)
    BY <1>4 DEF AttemptRow, AttemptStatuses, Same
  <1>7. v.pc = "attempt"
    BY DEF Idle
  <1> HIDE DEF row, v
  <1>8. AttemptPut(t, n, row)
    BY <1>1, <1>4, <1>5, <1>6, AttemptWrite
  <1>9. \A u \in TurnIds : QuietAttempts(u)
    BY <1>6, <1>8, AttemptSame
  <1>10. \A u \in TurnIds : NoNewSteers(u)
    BY <1>1, <1>5 DEF NoNewSteers, TablesFit
  <1>11. "preparing" \in Active \ {"running"}
    BY DEF Active
  <1> QED
    BY <1>1, <1>2, <1>5, <1>7, <1>9, <1>10, <1>11, PutsReads

(* A passing failure is tried once more, or a turn saves what it did.      *)
LEMMA RestReads ==
    ASSUME Inv1, Inv2, Inv3, Timely, NEW h \in Holders, RetryFailure(h) \/ Finalize(h)
    PROVE  Inv3'
  <1> DEFINE x == [holder[h] EXCEPT !.pc = "waits", !.inflight = FALSE]
             y == [holder[h] EXCEPT !.pc = "settle", !.inflight = FALSE]
  <1>1. /\ holder[h].pc \in {"ended", "killed"} /\ May(h) /\ runner' = runner /\ attempt' = attempt
        /\ item' = item /\ holder[h] \in HolderRow /\ TablesFit
        /\ holder' = [holder EXCEPT ![h] = x] \/ holder' = [holder EXCEPT ![h] = y]
        /\ \/ turn' = PutActive(holder[h].turn, "preparing")
           \/ turn' = PutActive(holder[h].turn, "finalizing")
    BY InPlace DEF RetryFailure, Finalize
  <1>2. PICK t \in TurnIds : t = holder[h].turn
    BY <1>1, OwnerHas
  <1>3. x.pc = "waits" /\ y.pc = "settle"
    BY <1>1 DEF HolderRow
  <1> HIDE DEF x, y
  <1>4. \E v : holder' = [holder EXCEPT ![h] = v] /\ v.pc # "launch"
    BY <1>1, <1>3
  <1>5. \E s \in Active \ {"running"} : turn' = PutActive(t, s)
    BY <1>1, <1>2 DEF Active
  <1>6. \A u \in TurnIds : NoNewSteers(u)
    <2>1. \A u \in TurnIds : command'[u] \subseteq command[u]
      <3>1. CASE command' = command
        BY <3>1
      <3>2. CASE RetryFailure(h)
        <4>1. \E S : S \subseteq command[t] /\ command' = [command EXCEPT ![t] = S]
          BY <1>2, <3>2 DEF RetryFailure
        <4> QED
          BY <1>1, <4>1 DEF TablesFit
      <3> QED
        BY <3>1, <3>2 DEF Finalize
    <2> QED
      BY <2>1 DEF NoNewSteers
  <1>7. \A u \in TurnIds : QuietAttempts(u)
    BY <1>1, RecordsAlone
  <1> QED
    BY <1>1, <1>2, <1>4, <1>5, <1>6, <1>7, PutsReads

(* A refused message is to be in the next attempt.                         *)
LEMMA RestartWithReads ==
    ASSUME Inv1, Inv2, Inv3, Timely, NEW h \in Holders, RestartWith(h)
    PROVE  Inv3'
  <1>1. /\ holder[h].pc = "refused" /\ May(h) /\ turn' = turn /\ runner' = runner /\ item' = item
        /\ holder[h].pc # "idle"
    BY DEF RestartWith
  <1>2. PICK t \in TurnIds : t = holder[h].turn
    BY <1>1, OwnerHas
  <1>3. PICK n : n = holder[h].n
    OBVIOUS
  <1>4. PICK mem : mem = holder[h].mem
    OBVIOUS
  <1>5. /\ TablesFit /\ holder[h] \in HolderRow
        /\ n \in 1 .. Len(attempt[t]) /\ attempt[t][n] \in AttemptRow
        /\ attempt[t][n].runner = mem
        /\ mem \in RunnerStates /\ holder[h].outcome \in Messages
    BY <1>1, <1>2, <1>3, <1>4, Pumping, InPlace
  <1>6. PICK now \in RunnerStates : now = [mem EXCEPT !.restartWith = @ \cup {holder[h].outcome}]
                                    /\ Same(mem, now)
    <2> DEFINE x == mem.restartWith \cup {holder[h].outcome}
               y == [mem EXCEPT !.restartWith = x]
    <2>1. x \in SUBSET Messages
      BY <1>5 DEF RunnerStates
    <2>2. y = [mem EXCEPT !.restartWith = @ \cup {holder[h].outcome}]
      OBVIOUS
    <2> HIDE DEF x
    <2>3. y \in RunnerStates /\ y.at = mem.at /\ y.cursor = mem.cursor /\ y.started = mem.started
          /\ y.consumed = mem.consumed /\ y.continuing = mem.continuing
      BY <1>5, <2>1 DEF RunnerStates
    <2> HIDE DEF y
    <2>4. mem # None /\ y # None
      BY <1>5, <2>3, NoneAssumption
    <2> QED
      BY <2>2, <2>3, <2>4 DEF Same
  <1> DEFINE row == [attempt[t][n] EXCEPT !.runner = now]
             v == [holder[h] EXCEPT !.pc = "pump", !.mem = now, !.outcome = None, !.inflight = FALSE]
  <1>7. attempt' = WithPlace(attempt, t, n, row) /\ holder' = [holder EXCEPT ![h] = v]
        /\ command' = [command EXCEPT ![t] = @ \cup {<<"interrupt">>}]
    <2>1. /\ attempt' = [attempt EXCEPT ![t][n].runner = now]
          /\ command' = [command EXCEPT ![t] = @ \cup {<<"interrupt">>}]
          /\ holder' = [holder EXCEPT ![h] =
                [@ EXCEPT !.pc = "pump", !.mem = now, !.outcome = None, !.inflight = FALSE]]
      BY <1>2, <1>3, <1>4, <1>6, Zenon DEF RestartWith
    <2> QED
      BY <2>1 DEF WithPlace
  <1>8. row \in AttemptRow /\ row.runner = now
    BY <1>5 DEF AttemptRow
  <1>9. v.pc = "pump"
    BY <1>5 DEF HolderRow
  <1> HIDE DEF row, v
  <1>10. AttemptPut(t, n, row)
    BY <1>5, <1>7, <1>8, AttemptWrite
  <1>11. \A u \in TurnIds : QuietAttempts(u)
    BY <1>5, <1>6, <1>8, <1>10, AttemptSame
  <1>12. \A u \in TurnIds : NoNewSteers(u)
    <2>1. \A m \in Messages : <<"steer", m>> # <<"interrupt">>
      OBVIOUS
    <2> QED
      BY <1>5, <1>7, <2>1 DEF NoNewSteers, TablesFit
  <1>13. Leases /\ \A u \in TurnIds : Steady(u)
    BY <1>1, TurnsSteady
  <1>14. \A g \in Holders : holder'[g] = holder[g] \/ holder'[g].pc # "launch"
    BY <1>7, <1>9, HolderQuiet
  <1> QED
    BY <1>1, <1>11, <1>12, <1>13, <1>14, RunnersSilent, QuietReadsStep

-----------------------------------------------------------------------------
(* A turn is taken, and its attempt is prepared and launched.              *)

(* A turn gets a new owner, with no prompt yet.                            *)
LEMMA ClaimReads ==
    ASSUME Inv1, Inv3, Timely, NEW h \in Holders, Claim(h)
    PROVE  Inv3'
  <1>1. /\ holder[h].pc = "idle" /\ attempt' = attempt /\ runner' = runner /\ item' = item
        /\ command' = command /\ TablesFit
    BY DEF Claim, Inv1
  <1>2. PICK t \in Claimable :
           /\ turn' = [turn EXCEPT
                ![t].status = IF @ = "queued" THEN "preparing" ELSE @,
                ![t].stop = IF turn[t].status = "queued" THEN FALSE ELSE @,
                ![t].token = h, ![t].live = TRUE]
           /\ holder' = [holder EXCEPT ![h] = [Idle EXCEPT !.pc = "load", !.turn = t]]
    BY DEF Claim
  <1>3. /\ t \in TurnIds
        /\ \/ turn[t].status \in Active /\ ~turn[t].live
           \/ turn[t].status = "queued" /\ ActiveTurns = {}
    BY <1>2 DEF Claimable, ActiveTurns, Ready
  <1>4. turn \in [TurnIds -> TurnRow] /\ turn[t] \in TurnRow
    BY <1>3 DEF Inv1, TurnsFit
  <1>5. /\ \A u \in TurnIds : u # t => turn'[u] = turn[u]
        /\ turn'[t].status = IF turn[t].status = "queued" THEN "preparing" ELSE turn[t].status
        /\ turn'[t].token = h
    BY <1>2, <1>3, <1>4, SMTT(60) DEF TurnRow
  <1> DEFINE v == [Idle EXCEPT !.pc = "load", !.turn = t]
  <1>6. v \in HolderRow /\ v.pc = "load" /\ holder' = [holder EXCEPT ![h] = v]
    <2>1. "load" \in Places
      BY DEF Places
    <2> QED
      BY <1>2, <1>3, <2>1, IdleRow
  <1> HIDE DEF v
  <1>7. holder'[h] = v /\ \A g \in Holders : g # h => holder'[g] = holder[g]
    BY <1>1, <1>6, HolderKeeps
  <1>8. \A u \in TurnIds : Steady(u)
    BY <1>5 DEF Steady, Active
  <1>9. \A u \in TurnIds : TurnReads(u)'
    <2>1. \A u \in TurnIds : NoNewSteers(u)
      BY <1>1, CommandsAlone
    <2> QED
      BY <1>1, <1>8, <2>1, AloneReads DEF Inv3
  <1>10. ASSUME NEW g \in Holders, g # h PROVE PromptFits(g)'
    <2> SUFFICES ASSUME Owns(g)', holder'[g].pc = "launch"
                 PROVE  Carries(holder[g])'
      BY DEF PromptFits, Carries
    <2>1. /\ holder'[g] = holder[g] /\ holder[g].pc # "idle"
          /\ turn'[holder[g].turn].token = g /\ turn'[holder[g].turn].live
      BY <1>7, <1>10 DEF Owns
    <2>2. holder[g].turn \in TurnIds
      BY <2>1, Driven
    <2>3. holder[g].turn # t
      BY <1>5, <1>10, <2>1
    <2>4. Owns(g) /\ holder[g].pc = "launch"
      BY <1>5, <2>1, <2>2, <2>3 DEF Owns
    <2>5. Carries(holder[g])
      BY <2>4 DEF Inv3, PromptFits
    <2> QED
      BY <1>1, <2>1, <2>5 DEF Carries, Fresh, SteeredItems
  <1>11. PromptFits(h)'
    BY <1>6, <1>7, NoPrompt
  <1> QED
    BY <1>9, <1>10, <1>11 DEF Inv3

(* A prompt carries what its attempt may take in.                          *)
LEMMA InputFresh ==
    ASSUME TablesFit, NEW t \in TurnIds, NEW n, NEW x, x.continuing \in BOOLEAN
    PROVE  AttemptInput(t, n, x.continuing) = Fresh(t, n, x)
  <1>1. DOMAIN attempt[t] = 1 .. Len(attempt[t])
    BY Lengths
  <1>2. CASE x.continuing
    BY <1>1, <1>2 DEF AttemptInput, Fresh, Took, ConsumedBy
  <1>3. CASE ~x.continuing
    BY <1>3 DEF AttemptInput, Fresh
  <1> QED
    BY <1>2, <1>3

(* An attempt is prepared.                                                 *)
LEMMA PrepareReads ==
    ASSUME Inv1, Inv3, Timely, NEW h \in Holders, Prepare(h)
    PROVE  Inv3'
  <1>1. /\ turn' = turn /\ attempt' = attempt /\ runner' = runner /\ item' = item /\ command' = command
        /\ holder[h].pc = "prepare" /\ holder[h] \in HolderRow /\ TablesFit
        /\ holder[h].turn \in TurnIds
    BY InPlace DEF Prepare
  <1>2. PICK t \in TurnIds : t = holder[h].turn
    BY <1>1
  <1>3. PICK n : n = holder[h].n
    OBVIOUS
  <1>4. PICK c : c = Len(runner[t]) + 1
    OBVIOUS
  <1> DEFINE on == session.harness \in session.named
             mem == RunnerState(c, session.harness, on, AttemptInput(t, n, on))
             x == [holder[h] EXCEPT !.pc = "refuse", !.outcome = "interrupted"]
             y == [holder[h] EXCEPT !.pc = "launch", !.mem = mem]
  <1>5. holder' = [holder EXCEPT ![h] = x] \/ holder' = [holder EXCEPT ![h] = y]
    BY <1>2, <1>3, <1>4 DEF Prepare
  <1>6. PICK a : /\ a = mem /\ a.consumed = AttemptInput(t, n, a.continuing) /\ a.continuing \in BOOLEAN
                 /\ ~a.started /\ a.cursor = 0
    <2>1. /\ mem.consumed = AttemptInput(t, n, on) /\ mem.continuing = on
          /\ ~mem.started /\ mem.cursor = 0
      BY DEF RunnerState
    <2>2. on \in BOOLEAN
      OBVIOUS
    <2> HIDE DEF mem, on
    <2> QED
      BY <2>1, <2>2
  <1> HIDE DEF mem
  <1>7. x.pc = "refuse" /\ y.turn = t /\ y.n = n /\ y.mem = a
    BY <1>1, <1>2, <1>3, <1>6 DEF HolderRow
  <1> HIDE DEF x, y
  <1>8. holder'[h] \in {x, y} /\ \A g \in Holders : g # h => holder'[g] = holder[g]
    BY <1>1, <1>5 DEF TablesFit
  <1>9. Fresh(t, n, a)' = Fresh(t, n, a)
    BY <1>1 DEF Fresh, SteeredItems
  <1>10. PromptFits(h)'
    <2> SUFFICES ASSUME holder'[h].pc = "launch" PROVE Carries(holder[h])'
      BY DEF PromptFits, Carries
    <2>1. PICK w : w = y
      OBVIOUS
    <2>2. holder'[h] = w /\ w.turn = t /\ w.n = n /\ w.mem = a
      BY <1>7, <1>8, <2>1
    <2>3. w.mem.consumed \subseteq Fresh(t, n, a)' /\ ~w.mem.started /\ w.mem.cursor = 0
      BY <1>1, <1>6, <1>9, <2>2, InputFresh
    <2> QED
      BY <2>2, <2>3 DEF Carries
  <1>11. \A g \in Holders : holder'[g] = holder[g] \/ PromptFits(g)'
    BY <1>8, <1>10
  <1>12. \A u \in TurnIds : NoNewSteers(u) /\ Steady(u) /\ QuietAttempts(u) /\ KeepsItems(u)
    BY <1>1, CommandsAlone, TurnsSteady, RecordsAlone DEF KeepsItems, SteeredItems
  <1>13. \A u \in TurnIds : TurnReads(u)'
    BY <1>1, <1>12, AloneReads DEF Inv3
  <1>14. \A u \in ActiveTurns : QuietAttempts(u) /\ KeepsItems(u)
    BY <1>12 DEF ActiveTurns
  <1>15. Leases
    BY <1>1, TurnsSteady
  <1> QED
    BY <1>11, <1>13, <1>14, <1>15, OutsideReads

(* Steers that waited wait on.                                             *)
LEMMA SteersStay ==
    ASSUME NEW t, SteersJoin(t), NoNewSteers(t), item' = item, turn'[t].status \in Active
    PROVE  SteersJoin(t)'
  BY DEF SteersJoin, NoNewSteers, SteeredItems

(* The last attempt is written: it took in what it might.                  *)
LEMMA LastWritten ==
    ASSUME NEW t \in TurnIds, NEW n, n = Len(attempt[t]), NEW row, AttemptPut(t, n, row), item' = item,
           AttemptsRead(t), NoNewSteers(t), n \in Nat, NEW x, row.runner # None => row.runner = x,
           ConsumedBy(row) \subseteq Fresh(t, n, x),
           \A m \in Took(row) : <<"steer", m>> \notin command'[t]
    PROVE  AttemptsRead(t)' /\ Fresh(t, n, x)' = Fresh(t, n, x)
  <1>1. /\ Len(attempt'[t]) = n /\ attempt'[t][n] = row
        /\ \A i \in 1 .. n : i # n => attempt'[t][i] = attempt[t][i]
    BY DEF AttemptPut
  <1>2. SteeredItems(t)' = SteeredItems(t) /\ \A m \in SteeredItems(t) : m \in Messages
    BY DEF SteeredItems
  <1>3. Fresh(t, n, x)' = Fresh(t, n, x)
    BY <1>1, <1>2 DEF Fresh
  <1>4. \A y : Took(y) \subseteq ConsumedBy(y)
    BY DEF Took, ConsumedBy
  <1>5. \A i \in 1 .. n : ConsumedBy(attempt'[t][i]) \subseteq SteeredItems(t)'
    <2>1. ConsumedBy(row) \subseteq SteeredItems(t)
      BY DEF Fresh
    <2> QED
      BY <1>1, <1>2, <2>1 DEF AttemptsRead
  <1>6. ASSUME NEW i \in 1 .. n, NEW k \in 1 .. n, i < k, Continues(attempt'[t][k])
        PROVE  Took(attempt'[t][i]) \cap ConsumedBy(attempt'[t][k]) = {}
    <2>1. attempt'[t][i] = attempt[t][i] /\ i # n
      BY <1>1, <1>6
    <2>2. CASE k # n
      <3>1. attempt'[t][k] = attempt[t][k]
        BY <1>1, <2>2
      <3> QED
        BY <1>6, <2>1, <3>1 DEF AttemptsRead
    <2>3. CASE k = n
      BY <1>1, <1>6, <2>1, <2>3 DEF Fresh, Continues
    <2> QED
      BY <2>2, <2>3
  <1>7. ASSUME NEW i \in 1 .. n, NEW m \in Took(attempt'[t][i])
        PROVE  <<"steer", m>> \notin command'[t]
    <2>1. CASE i = n
      BY <1>1, <1>7, <2>1
    <2>2. CASE i # n
      <3>1. m \in Took(attempt[t][i])
        BY <1>1, <1>7, <2>2
      <3>2. m \in Messages /\ <<"steer", m>> \notin command[t]
        BY <1>2, <1>4, <3>1 DEF AttemptsRead
      <3> QED
        BY <3>2 DEF NoNewSteers
    <2> QED
      BY <2>1, <2>2
  <1>8. AttemptsRead(t)'
    BY <1>1, <1>5, <1>6, <1>7 DEF AttemptsRead
  <1> QED
    BY <1>3, <1>8

(* A new attempt has read nothing.                                         *)
LEMMA NewReads ==
    ASSUME NEW t \in TurnIds, NEW row, AttemptNew(t, row), row.runner = None, item' = item,
           Len(attempt[t]) \in Nat, AttemptsRead(t), NoNewSteers(t)
    PROVE  AttemptsRead(t)'
  <1>1. PICK n \in Nat : n = Len(attempt[t])
    OBVIOUS
  <1>2. /\ Len(attempt'[t]) = n + 1 /\ attempt'[t][n + 1] = row
        /\ \A i \in 1 .. n : attempt'[t][i] = attempt[t][i]
    BY <1>1 DEF AttemptNew
  <1>3. SteeredItems(t)' = SteeredItems(t) /\ \A m \in SteeredItems(t) : m \in Messages
    BY DEF SteeredItems
  <1>4. ConsumedBy(row) = {} /\ Took(row) = {} /\ \A x : Took(x) \subseteq ConsumedBy(x)
    BY DEF ConsumedBy, Took
  <1>5. \A i \in 1 .. n + 1 : i \in 1 .. n \/ i = n + 1
    OBVIOUS
  <1>6. \A i \in 1 .. n + 1 : ConsumedBy(attempt'[t][i]) \subseteq SteeredItems(t)'
    BY <1>1, <1>2, <1>3, <1>4, <1>5 DEF AttemptsRead
  <1>7. ASSUME NEW i \in 1 .. n + 1, NEW k \in 1 .. n + 1, i < k, Continues(attempt'[t][k])
        PROVE  Took(attempt'[t][i]) \cap ConsumedBy(attempt'[t][k]) = {}
    <2>1. CASE k = n + 1
      BY <1>2, <1>4, <2>1
    <2>2. CASE k \in 1 .. n
      <3>1. i \in 1 .. n
        BY <1>7, <2>2
      <3>2. Took(attempt[t][i]) \cap ConsumedBy(attempt[t][k]) = {}
        BY <1>1, <1>2, <1>7, <2>2, <3>1 DEF AttemptsRead
      <3> QED
        BY <1>2, <2>2, <3>1, <3>2
    <2> QED
      BY <1>5, <2>1, <2>2
  <1>8. ASSUME NEW i \in 1 .. n + 1, NEW m \in Took(attempt'[t][i])
        PROVE  <<"steer", m>> \notin command'[t]
    <2>1. i \in 1 .. n /\ m \in Took(attempt[t][i])
      BY <1>2, <1>4, <1>5, <1>8
    <2>2. m \in Messages /\ <<"steer", m>> \notin command[t]
      BY <1>1, <1>3, <1>4, <2>1 DEF AttemptsRead
    <2> QED
      BY <2>2 DEF NoNewSteers
  <1> QED
    BY <1>2, <1>6, <1>7, <1>8 DEF AttemptsRead

(* A turn that does not run follows nothing.                               *)
LEMMA RestsReads ==
    ASSUME NEW t, AttemptsRead(t)', SteersJoin(t)', turn'[t].status # "running"
    PROVE  TurnReads(t)'
  BY DEF TurnReads, RunReads

(* A new attempt.                                                          *)
LEMMA BeginAttemptReads ==
    ASSUME Inv1, Inv2, Inv3, Timely, NEW h \in Holders, BeginAttempt(h)
    PROVE  Inv3'
  <1>1. /\ holder[h].pc = "attempt" /\ May(h) /\ runner' = runner /\ item' = item /\ command' = command
        /\ holder[h] \in HolderRow /\ holder \in [Holders -> HolderRow] /\ TablesFit
    BY InPlace DEF BeginAttempt, TablesFit
  <1>2. PICK t \in TurnIds : t = holder[h].turn /\ Owns(h)
    BY <1>1, OwnerHas
  <1>3. PICK n \in Nat : n = Len(attempt[t])
    BY <1>1, Lengths
  <1> DEFINE x == [holder[h] EXCEPT !.pc = "prepare", !.n = n]
             y == [holder[h] EXCEPT !.pc = "prepare", !.n = n + 1, !.inflight = FALSE]
  <1>4. x.pc = "prepare"
    BY <1>1 DEF HolderRow
  <1>5. \A u \in TurnIds : NoNewSteers(u)
    BY <1>1, CommandsAlone
  <1>6. CASE turn' = turn /\ attempt' = attempt /\ holder' = [holder EXCEPT ![h] = x]
    <2>1. \A g \in Holders : holder'[g] = holder[g] \/ holder'[g].pc # "launch"
      <3> HIDE DEF x
      <3> QED
        BY <1>4, <1>6, HolderQuiet
    <2> QED
      BY <1>1, <1>5, <1>6, <2>1, TurnsSteady, StillReads
  <1>7. CASE /\ attempt' = WithAppended(attempt, t, NewAttempt)
             /\ turn' = [PutActive(t, "preparing") EXCEPT ![t].tries = turn[t].tries + 1]
             /\ holder' = [holder EXCEPT ![h] = y]
    <2>1. y \in HolderRow /\ y.pc = "prepare"
      <3>1. n + 1 \in Nat
        OBVIOUS
      <3> DEFINE k1 == n + 1
      <3> HIDE DEF k1
      <3> QED
        BY <1>1, <3>1 DEF HolderRow, Places, k1
    <2>2. PICK k \in Nat : k = turn[t].tries + 1
      BY Rows, Fields
    <2>3. "preparing" \in Active /\ holder[h].pc \in Writers
      BY <1>1 DEF Active, Writers
    <2>4. Leases /\ turn'[t].status = "preparing"
      BY <1>1, <1>2, <1>7, <2>2, <2>3, PutsOwned
    <2>5. \A u \in TurnIds : u # t => turn'[u] = turn[u]
      BY <1>1, <1>2, <1>7, <2>2, <2>3, PutActiveKeeps
    <2>6. PICK row \in AttemptRow : row = NewAttempt /\ row.runner = None
      <3>1. NewAttempt \in AttemptRow /\ NewAttempt.runner = None
        BY DEF NewAttempt, AttemptRow, AttemptStatuses
      <3> QED
        BY <3>1
    <2>7. AttemptNew(t, row)
      BY <1>1, <1>7, <2>6, AttemptAdded
    <2>8. TurnReads(t)
      BY DEF Inv3
    <2>9. AttemptsRead(t)'
      BY <1>1, <1>3, <1>5, <2>6, <2>7, <2>8, NewReads DEF TurnReads
    <2>10. SteersJoin(t)'
      BY <1>1, <1>5, <2>3, <2>4, <2>8, SteersStay DEF TurnReads
    <2>11. TurnReads(t)'
      BY <2>4, <2>9, <2>10, RestsReads
    <2>12. ReadsAlone(t)
      BY <1>1, <1>5, <2>5, <2>7 DEF ReadsAlone, AttemptNew, Steady
    <2> HIDE DEF y
    <2> QED
      BY <1>1, <1>2, <1>7, <2>1, <2>4, <2>11, <2>12, OwnerReadsOn
  <1> QED
    <2>1. \/ turn' = turn /\ attempt' = attempt /\ holder' = [holder EXCEPT ![h].pc = "prepare", ![h].n = n]
          \/ /\ attempt' = [attempt EXCEPT ![t] = Append(@, NewAttempt)]
             /\ turn' = [PutActive(t, "preparing") EXCEPT ![t].tries = turn[t].tries + 1]
             /\ holder' = [holder EXCEPT ![h].pc = "prepare", ![h].n = n + 1, ![h].inflight = FALSE]
      BY <1>2, <1>3, Zenon DEF BeginAttempt
    <2>2. /\ [holder EXCEPT ![h].pc = "prepare", ![h].n = n] = [holder EXCEPT ![h] = x]
          /\ [holder EXCEPT ![h].pc = "prepare", ![h].n = n + 1, ![h].inflight = FALSE]
               = [holder EXCEPT ![h] = y]
      BY <1>1
    <2>3. [attempt EXCEPT ![t] = Append(@, NewAttempt)] = WithAppended(attempt, t, NewAttempt)
      BY DEF WithAppended
    <2> QED
      BY <1>6, <1>7, <2>1, <2>2, <2>3

(* A runner is up, and recorded with what its prompt carries.              *)
LEMMA LaunchReads ==
    ASSUME Inv1, Inv2, Inv3, Timely, NEW h \in Holders, Launch(h)
    PROVE  Inv3'
  <1>1. /\ holder[h].pc = "launch" /\ May(h) /\ item' = item /\ command' = command
        /\ holder[h] \in HolderRow /\ TablesFit
        /\ holder[h].mem \in RunnerStates
    BY InPlace DEF Launch
  <1>2. PICK t \in TurnIds : t = holder[h].turn /\ Owns(h)
    BY <1>1, OwnerHas
  <1>3. PICK n : n = holder[h].n
    OBVIOUS
  <1>4. n = Len(attempt[t]) /\ n \in Nat /\ n \in 1 .. Len(attempt[t]) /\ attempt[t][n] \in AttemptRow
    <2>1. Relies(h)
      BY <1>1, OwnerHas
    <2>2. n \in 1 .. Len(attempt[t]) /\ attempt[t][n] \in AttemptRow
      BY <1>1, <1>2, <1>3, InPlace
    <2>3. Len(attempt[t]) \in Nat
      BY <1>1, Lengths
    <2> QED
      BY <1>1, <1>2, <1>3, <2>1, <2>2, <2>3 DEF Relies
  <1>5. Len(runner[t]) \in Nat
    BY <1>1, Lengths
  <1>6. PICK c : c = Len(runner[t]) + 1 /\ c \in Nat
    BY <1>5
  <1>7. PICK mem : mem = [holder[h].mem EXCEPT !.at = c]
    OBVIOUS
  <1>8. /\ mem \in RunnerStates /\ mem.at = c /\ mem.consumed \subseteq Fresh(t, n, mem)
        /\ ~mem.started /\ mem.cursor = 0
    <2>1. /\ mem \in RunnerStates /\ mem.at = c /\ mem.consumed = holder[h].mem.consumed
          /\ mem.started = holder[h].mem.started /\ mem.cursor = holder[h].mem.cursor
          /\ mem.continuing = holder[h].mem.continuing
      BY <1>1, <1>6, <1>7 DEF RunnerStates
    <2>2. Carries(holder[h])
      BY <1>1, <1>2 DEF Inv3, PromptFits
    <2>3. PICK old : old = holder[h].mem
      OBVIOUS
    <2>4. mem.consumed \subseteq Fresh(t, n, old) /\ ~mem.started /\ mem.cursor = 0
      BY <1>2, <1>3, <2>1, <2>2, <2>3 DEF Carries
    <2>5. Fresh(t, n, mem) = Fresh(t, n, old)
      BY <2>1, <2>3 DEF Fresh
    <2> QED
      BY <2>1, <2>4, <2>5
  <1> DEFINE row == [attempt[t][n] EXCEPT !.status = "running", !.runner = mem]
             v == [holder[h] EXCEPT !.pc = "start", !.mem = mem, !.chan = mem.at, !.inflight = FALSE]
  <1>9. /\ runner' = WithAppended(runner, t, NewRunner)
        /\ attempt' = WithPlace(attempt, t, n, row)
        /\ turn' = PutActive(t, "running")
        /\ holder' = [holder EXCEPT ![h] = v]
    <2>1. mem = [holder[h].mem EXCEPT !.at = Len(runner[holder[h].turn]) + 1]
      BY <1>2, <1>6, <1>7
    <2>2. attempt' = WithPlace(attempt, t, n, row)
      <3>1. attempt' = [attempt EXCEPT ![holder[h].turn][holder[h].n] =
                            [@ EXCEPT !.status = "running", !.runner = mem]]
        BY <2>1, Zenon DEF Launch
      <3> QED
        BY <1>2, <1>3, <3>1 DEF WithPlace
    <2>3. runner' = WithAppended(runner, t, NewRunner)
      <3>1. runner' = [runner EXCEPT ![holder[h].turn] = Append(@, NewRunner)]
        BY Zenon DEF Launch
      <3> QED
        BY <1>2, <3>1 DEF WithAppended
    <2>4. turn' = PutActive(t, "running")
      BY <1>2, Zenon DEF Launch
    <2>5. holder' = [holder EXCEPT ![h] = v]
      <3>1. holder' = [holder EXCEPT ![h].pc = "start", ![h].mem = mem, ![h].chan = mem.at,
                                     ![h].inflight = FALSE]
        BY <2>1, Zenon DEF Launch
      <3> QED
        BY <1>1, <3>1 DEF TablesFit
    <2> QED
      BY <2>2, <2>3, <2>4, <2>5
  <1>10. row \in AttemptRow /\ row.runner = mem
    BY <1>4, <1>8 DEF AttemptRow, AttemptStatuses
  <1>11. v \in HolderRow /\ v.pc = "start"
    BY <1>1, <1>6, <1>8 DEF HolderRow, Places
  <1> HIDE DEF row, v
  <1>12. AttemptPut(t, n, row)
    BY <1>1, <1>4, <1>9, <1>10, AttemptWrite
  <1>13. NewRunner \in RunnerRow
    <2>1. <<>> \in Seq(Frames)
      BY EmptySeq
    <2> QED
      BY <2>1 DEF NewRunner, RunnerRow, Phases
  <1>14. PICK new : new = NewRunner /\ new.out = <<>> /\ new.inbox = {} /\ new.seen = {}
    <2>1. NewRunner.out = <<>> /\ NewRunner.inbox = {} /\ NewRunner.seen = {}
      BY DEF NewRunner
    <2> QED
      BY <2>1
  <1>15. RunnerNew(t, new)
    BY <1>1, <1>9, <1>13, <1>14, RunnerAdded
  <1>16. "running" \in Active /\ holder[h].pc \in Writers /\ 0 \in Nat
    BY <1>1 DEF Active, Writers
  <1>17. Leases /\ turn'[t].status = "running"
    BY <1>1, <1>2, <1>9, <1>16, PutsOwned
  <1>18. \A u \in TurnIds : u # t => turn'[u] = turn[u]
    BY <1>1, <1>2, <1>9, <1>16, PutActiveKeeps
  <1>19. \A u \in TurnIds : NoNewSteers(u)
    BY <1>1, CommandsAlone
  <1>20. ReadsAlone(t)
    BY <1>12, <1>15, <1>18, <1>19 DEF ReadsAlone, AttemptPut, RunnerNew, Steady
  <1>21. TurnReads(t)
    BY DEF Inv3
  <1>22. AttemptsRead(t)' /\ Fresh(t, n, mem)' = Fresh(t, n, mem)
    <2>1. ConsumedBy(row) \subseteq Fresh(t, n, mem) /\ Took(row) = {}
      BY <1>8, <1>10 DEF ConsumedBy, Took
    <2> QED
      BY <1>1, <1>4, <1>10, <1>12, <1>19, <1>21, <2>1, LastWritten DEF TurnReads
  <1>23. SteersJoin(t)'
    BY <1>1, <1>16, <1>17, <1>19, <1>21, SteersStay DEF TurnReads
  <1>24. RunReads(t)'
    <2>1. n = Len(attempt'[t]) /\ mem = attempt'[t][n].runner
      BY <1>4, <1>10, <1>12 DEF AttemptPut
    <2>2. new = runner'[t][mem.at]
      BY <1>6, <1>8, <1>15 DEF RunnerNew
    <2>3. Len(new.out) = 0 /\ mem.cursor \in 0 .. Len(new.out)
      BY <1>8, <1>14
    <2>4. \A m : ~Acked(new, m, mem.cursor)
      BY <1>8 DEF Acked
    <2>5. RunnerReads(new, Fresh(t, n, mem)')
      BY <1>14, <2>3 DEF RunnerReads
    <2> QED
      BY <2>1, <2>2, <2>3, <2>4, <2>5, Follows
  <1>25. TurnReads(t)'
    BY <1>22, <1>23, <1>24 DEF TurnReads
  <1> QED
    BY <1>1, <1>2, <1>9, <1>11, <1>17, <1>20, <1>25, OwnerReadsOn

(* The runner of an attempt is forgotten: it gets another.                 *)
LEMMA PrepareAgainReads ==
    ASSUME Inv1, Inv2, Inv3, Timely, NEW h \in Holders, PrepareAgain(h)
    PROVE  Inv3'
  <1>1. /\ holder[h].pc = "again" /\ May(h) /\ runner' = runner /\ item' = item /\ command' = command
        /\ holder[h] \in HolderRow /\ TablesFit
    BY InPlace DEF PrepareAgain
  <1>2. PICK t \in TurnIds : t = holder[h].turn /\ Owns(h)
    BY <1>1, OwnerHas
  <1>3. PICK n : n = holder[h].n
    OBVIOUS
  <1>4. n = Len(attempt[t]) /\ n \in Nat /\ n \in 1 .. Len(attempt[t]) /\ attempt[t][n] \in AttemptRow
    <2>1. Relies(h)
      BY <1>1, OwnerHas
    <2>2. n \in 1 .. Len(attempt[t]) /\ attempt[t][n] \in AttemptRow
      BY <1>1, <1>2, <1>3, InPlace
    <2>3. Len(attempt[t]) \in Nat
      BY <1>1, Lengths
    <2> QED
      BY <1>1, <1>2, <1>3, <2>1, <2>2, <2>3 DEF Relies
  <1> DEFINE row == [attempt[t][n] EXCEPT !.status = "preparing", !.runner = None]
             v == [holder[h] EXCEPT !.pc = "attempt", !.mem = None, !.chan = 0, !.inflight = FALSE]
  <1>5. /\ attempt' = WithPlace(attempt, t, n, row)
        /\ turn' = PutActive(t, "preparing")
        /\ holder' = [holder EXCEPT ![h] = v]
    BY <1>1, <1>2, <1>3 DEF PrepareAgain, WithPlace
  <1>6. row \in AttemptRow /\ row.runner = None
    BY <1>4 DEF AttemptRow, AttemptStatuses
  <1>7. v \in HolderRow /\ v.pc = "attempt"
    BY <1>1, <1>2 DEF HolderRow, Places
  <1> HIDE DEF row, v
  <1>8. AttemptPut(t, n, row)
    BY <1>1, <1>4, <1>5, <1>6, AttemptWrite
  <1>9. "preparing" \in Active /\ holder[h].pc \in Writers /\ 0 \in Nat
    BY <1>1 DEF Active, Writers
  <1>10. Leases /\ turn'[t].status = "preparing"
    BY <1>1, <1>2, <1>5, <1>9, PutsOwned
  <1>11. \A u \in TurnIds : u # t => turn'[u] = turn[u]
    BY <1>1, <1>2, <1>5, <1>9, PutActiveKeeps
  <1>12. \A u \in TurnIds : NoNewSteers(u)
    BY <1>1, CommandsAlone
  <1>13. ReadsAlone(t)
    BY <1>1, <1>8, <1>11, <1>12 DEF ReadsAlone, AttemptPut, Steady
  <1>14. TurnReads(t)
    BY DEF Inv3
  <1>15. AttemptsRead(t)'
    <2>1. ConsumedBy(row) = {} /\ Took(row) = {}
      BY <1>6 DEF ConsumedBy, Took
    <2>2. PICK x : x = row.runner
      OBVIOUS
    <2>3. ConsumedBy(row) \subseteq Fresh(t, n, x)
      BY <2>1
    <2> QED
      BY <1>1, <1>4, <1>6, <1>8, <1>12, <1>14, <2>1, <2>2, <2>3, LastWritten DEF TurnReads
  <1>16. SteersJoin(t)'
    BY <1>1, <1>9, <1>10, <1>12, <1>14, SteersStay DEF TurnReads
  <1>17. TurnReads(t)'
    BY <1>10, <1>15, <1>16, RestsReads
  <1> QED
    BY <1>1, <1>2, <1>5, <1>7, <1>10, <1>13, <1>17, OwnerReadsOn

-----------------------------------------------------------------------------
(* A runner is sent messages, and speaks.                                  *)

(* A runner that said what it said, and perhaps more.                      *)
SaysOn(r, s) == /\ Len(s.out) >= Len(r.out) /\ Len(r.out) \in Nat /\ Len(s.out) \in Nat
                /\ \A k \in 1 .. Len(r.out) : s.out[k] = r.out[k]

(* What an attempt reads goes on when a runner goes on.                    *)
LEMMA RunnerWritten ==
    ASSUME Inv1, NEW t \in TurnIds, TurnReads(t), QuietAttempts(t), NoNewSteers(t), item' = item,
           Steady(t), NEW c \in 1 .. Len(runner[t]), NEW row, RunnerPut(t, c, row),
           SaysOn(runner[t][c], row),
           \A x : RunnerReads(runner[t][c], Fresh(t, Len(attempt[t]), x))
                    => RunnerReads(row, Fresh(t, Len(attempt[t]), x))
    PROVE  TurnReads(t)'
  <1>1. /\ Len(attempt'[t]) = Len(attempt[t])
        /\ \A i \in 1 .. Len(attempt[t]) :
             /\ ConsumedBy(attempt'[t][i]) = ConsumedBy(attempt[t][i])
             /\ Took(attempt'[t][i]) = Took(attempt[t][i])
             /\ Continues(attempt'[t][i]) <=> Continues(attempt[t][i])
             /\ Took(attempt[t][i]) \subseteq ConsumedBy(attempt[t][i])
    BY SameTakes DEF QuietAttempts, Took, ConsumedBy
  <1>2. SteeredItems(t)' = SteeredItems(t) /\ \A m \in SteeredItems(t) : m \in Messages
    BY DEF SteeredItems
  <1>3. AttemptsRead(t)'
    <2>1. AttemptsRead(t)
      BY DEF TurnReads
    <2>2. \A i \in 1 .. Len(attempt[t]) : \A m \in Took(attempt[t][i]) : m \in Messages
      BY <1>1, <1>2, <2>1 DEF AttemptsRead
    <2>3. \A i \in 1 .. Len(attempt[t]) : \A m \in Took(attempt[t][i]) :
            <<"steer", m>> \notin command'[t]
      BY <2>1, <2>2 DEF AttemptsRead, NoNewSteers
    <2>4. \A i \in 1 .. Len(attempt'[t]) : ConsumedBy(attempt'[t][i]) \subseteq SteeredItems(t)'
      BY <1>1, <1>2, <2>1 DEF AttemptsRead
    <2>5. \A i \in 1 .. Len(attempt'[t]) : \A k \in 1 .. Len(attempt'[t]) :
            i < k /\ Continues(attempt'[t][k]) => Took(attempt'[t][i]) \cap ConsumedBy(attempt'[t][k]) = {}
      BY <1>1, <2>1 DEF AttemptsRead
    <2>6. \A i \in 1 .. Len(attempt'[t]) : \A m \in Took(attempt'[t][i]) :
            <<"steer", m>> \notin command'[t]
      BY <1>1, <2>3
    <2> QED
      BY <2>4, <2>5, <2>6 DEF AttemptsRead
  <1>4. SteersJoin(t)'
    BY <1>2 DEF TurnReads, SteersJoin, NoNewSteers, Steady
  <1>5. RunReads(t)'
    <2>1. PICK n : n = Len(attempt[t])
      OBVIOUS
    <2>2. PICK a : a = attempt[t][n].runner
      OBVIOUS
    <2>3. PICK b : b = attempt'[t][n].runner
      OBVIOUS
    <2>4. PICK s : s = runner'[t][b.at]
      OBVIOUS
    <2>5. PICK F : F = Fresh(t, n, b)
      OBVIOUS
    <2>7. Fresh(t, n, b)' = F
      BY <1>1, <1>2, <2>1, <2>5 DEF Fresh
    <2>6. ASSUME turn'[t].status = "running", b # None
          PROVE  /\ RunnerReads(s, F)
                 /\ b.cursor \in 0 .. Len(s.out)
                 /\ \A m \in Messages : Acked(s, m, b.cursor) => <<"steer", m>> \notin command'[t]
      <3>1. turn[t].status = "running"
        BY <2>6 DEF Steady
      <3>2. n \in 1 .. n
        BY <2>1, <3>1, RunsOn
      <3>3. Same(a, b)
        BY <2>1, <2>2, <2>3, <3>2 DEF QuietAttempts
      <3>4. a # None /\ b.at = a.at /\ b.cursor = a.cursor
        BY <2>6, <3>3 DEF Same
      <3>5. a.at \in 1 .. Len(runner[t])
        BY <2>1, <2>2, <3>1, <3>4, RunsOn
      <3>6. PICK r : r = runner[t][a.at]
        OBVIOUS
      <3>7. /\ RunnerReads(r, F) /\ a.cursor \in 0 .. Len(r.out)
            /\ \A m \in Messages : Acked(r, m, a.cursor) => <<"steer", m>> \notin command[t]
        <4>1. Fresh(t, n, a) = F
          BY <2>5, <3>3, <3>4 DEF Same, Fresh
        <4> QED
          BY <2>1, <2>2, <3>1, <3>4, <3>6, <4>1 DEF TurnReads, RunReads, Followed
      <3>8. CASE a.at = c
        <4>1. s = row /\ r = runner[t][c]
          BY <2>4, <3>4, <3>6, <3>8 DEF RunnerPut
        <4>2. RunnerReads(s, F) /\ b.cursor \in 0 .. Len(s.out)
          BY <2>1, <2>5, <3>4, <3>7, <4>1 DEF SaysOn
        <4>3. \A k \in 1 .. a.cursor : s.out[k] = r.out[k]
          BY <3>7, <4>1 DEF SaysOn
        <4>4. \A m : Acked(s, m, b.cursor) => Acked(r, m, a.cursor)
          BY <3>4, <4>3 DEF Acked
        <4> QED
          BY <3>7, <4>2, <4>4 DEF NoNewSteers
      <3>9. CASE a.at # c
        <4>1. s = r
          BY <2>4, <3>4, <3>5, <3>6, <3>9 DEF RunnerPut
        <4> QED
          BY <3>4, <3>7, <4>1 DEF NoNewSteers
      <3> QED
        BY <3>8, <3>9
    <2> QED
      BY <1>1, <2>1, <2>3, <2>4, <2>6, <2>7, Follows
  <1> QED
    BY <1>3, <1>4, <1>5 DEF TurnReads

(* A steer that waits was read by no attempt.                              *)
LEMMA WaitsFresh ==
    ASSUME NEW t, TurnReads(t), NEW n, NEW x, NEW m \in Messages, <<"steer", m>> \in command[t]
    PROVE  m \in Fresh(t, n, x)
  BY DEF TurnReads, AttemptsRead, SteersJoin, Fresh

(* A runner that is sent more of what its attempt may take in.             *)
LEMMA SentReads ==
    ASSUME NEW r, NEW F, RunnerReads(r, F), NEW s, NEW x, x \subseteq F, s.inbox = r.inbox \cup x,
           s.seen = r.seen, s.refused = r.refused, s.out = r.out
    PROVE  RunnerReads(s, F)
  BY DEF RunnerReads, Acked

(* A turn taken over: its runner is found again, or given up.              *)
LEMMA AttachReads ==
    ASSUME Inv1, Inv2, Inv3, Timely, NEW h \in Holders, Attach(h)
    PROVE  Inv3'
  <1>1. /\ holder[h].pc = "attach" /\ May(h) /\ turn' = turn /\ attempt' = attempt
        /\ item' = item /\ command' = command
        /\ holder[h] \in HolderRow /\ holder \in [Holders -> HolderRow] /\ TablesFit /\ AttemptsFit
    BY InPlace DEF Attach, TablesFit, Inv1
  <1>2. PICK t \in TurnIds : t = holder[h].turn /\ Owns(h)
    BY <1>1, OwnerHas
  <1>3. PICK n : n = holder[h].n
    OBVIOUS
  <1>4. PICK mem : mem = attempt[t][n].runner
    OBVIOUS
  <1>5. n \in 1 .. Len(attempt[t]) /\ attempt[t][n] \in AttemptRow
    BY <1>1, <1>2, <1>3, InPlace
  <1>6. /\ mem \in RunnerStates \cup {None}
        /\ mem # None => mem \in RunnerStates /\ mem.at \in 1 .. Len(runner[t])
                         /\ runner[t][mem.at] \in RunnerRow
    <2>1. mem \in RunnerStates \cup {None}
      BY <1>4, <1>5 DEF AttemptRow
    <2>2. mem # None => mem.at \in 1 .. Len(runner[t])
      BY <1>1, <1>4, <1>5 DEF AttemptsFit
    <2> QED
      BY <1>1, <2>1, <2>2, Lengths
  <1> DEFINE r == runner[t][mem.at]
             open == {m \in Messages : <<"steer", m>> \in command[t]}
             more == open \ mem.consumed
             goes(pc) == [holder[h] EXCEPT !.pc = pc, !.mem = mem]
             on == [holder[h] EXCEPT !.pc = "pump", !.mem = mem, !.chan = mem.at]
  <1>7. goes("again").pc = "again" /\ goes("lose").pc = "lose" /\ on.pc = "pump"
    BY <1>1 DEF HolderRow
  <1>8. \/ /\ \/ holder' = [holder EXCEPT ![h] = goes("again")]
              \/ holder' = [holder EXCEPT ![h] = goes("lose")]
           /\ runner' = runner
        \/ /\ mem # None
           /\ runner' \in Killed(t, mem.at)
           /\ holder' = [holder EXCEPT ![h] = goes("again")]
        \/ /\ mem # None
           /\ runner' = [runner EXCEPT ![t][mem.at].inbox = @ \cup more]
           /\ holder' = [holder EXCEPT ![h] = on]
    <2>1. t = holder[h].turn /\ n = holder[h].n /\ mem = attempt[holder[h].turn][holder[h].n].runner
      BY <1>2, <1>3, <1>4
    <2>2. \/ /\ \/ holder' = [holder EXCEPT ![h].pc = "again", ![h].mem = mem]
                \/ holder' = [holder EXCEPT ![h].pc = "lose", ![h].mem = mem]
             /\ runner' = runner
          \/ /\ mem # None
             /\ runner' \in Killed(t, mem.at)
             /\ holder' = [holder EXCEPT ![h].pc = "again", ![h].mem = mem]
          \/ /\ mem # None
             /\ runner' = [runner EXCEPT ![t][mem.at].inbox = @ \cup more]
             /\ holder' = [[holder EXCEPT ![h].pc = "pump", ![h].mem = mem] EXCEPT ![h].chan = mem.at]
      BY <2>1 DEF Attach
    <2>3. /\ [holder EXCEPT ![h].pc = "again", ![h].mem = mem] = [holder EXCEPT ![h] = goes("again")]
          /\ [holder EXCEPT ![h].pc = "lose", ![h].mem = mem] = [holder EXCEPT ![h] = goes("lose")]
          /\ [[holder EXCEPT ![h].pc = "pump", ![h].mem = mem] EXCEPT ![h].chan = mem.at]
                = [holder EXCEPT ![h] = on]
      BY <1>1
    <2> HIDE DEF goes, on, more
    <2> QED
      BY <2>2, <2>3
  <1>9. \E v : holder' = [holder EXCEPT ![h] = v] /\ v.pc # "launch"
    <2> HIDE DEF goes, on
    <2> QED
      BY <1>7, <1>8
  <1>10. \A u \in TurnIds : QuietAttempts(u) /\ NoNewSteers(u) /\ Steady(u) /\ KeepsItems(u)
    BY <1>1, RecordsAlone, CommandsAlone, TurnsSteady DEF KeepsItems, SteeredItems
  <1>11. CASE runner' = runner
    <2>1. \A u \in TurnIds : QuietRunners(u)
      BY <1>11, RunnersSilent
    <2> QED
      BY <1>1, <1>9, <2>1, PhaseReads
  <1>12. CASE mem # None /\ runner' \in Killed(t, mem.at)
    <2>1. PICK c \in 1 .. Len(runner[t]) : c = mem.at
      BY <1>6, <1>12
    <2>2. runner' \in Killed(t, c)
      BY <1>12, <2>1
    <2>3. \A u \in TurnIds : QuietRunners(u)
      BY <2>2, KilledSilent
    <2> QED
      BY <1>1, <1>9, <2>3, PhaseReads
  <1>13. CASE mem # None /\ runner' = [runner EXCEPT ![t][mem.at].inbox = @ \cup more]
    <2> DEFINE inbox == r.inbox \cup more
               row == [r EXCEPT !.inbox = inbox]
    <2>1. inbox \in SUBSET Messages
      BY <1>6, <1>13 DEF RunnerRow
    <2>2. runner' = WithPlace(runner, t, mem.at, row)
      BY <1>13 DEF WithPlace
    <2>3. \A x : more \subseteq Fresh(t, Len(attempt[t]), x)
      BY WaitsFresh DEF Inv3
    <2> HIDE DEF inbox
    <2>4. row \in RunnerRow /\ row.inbox = inbox /\ row.seen = r.seen /\ row.refused = r.refused
          /\ row.out = r.out
      BY <1>6, <1>13, <2>1 DEF RunnerRow
    <2> HIDE DEF row
    <2>5. PICK c \in 1 .. Len(runner[t]) : c = mem.at
      BY <1>6, <1>13
    <2>6. RunnerPut(t, c, row)
      BY <1>1, <2>2, <2>4, <2>5, RunnerWrite
    <2>7. row.inbox = runner[t][c].inbox \cup more
      BY <2>4, <2>5 DEF inbox
    <2> HIDE DEF more
    <2>8. \A x : RunnerReads(runner[t][c], Fresh(t, Len(attempt[t]), x))
                    => RunnerReads(row, Fresh(t, Len(attempt[t]), x))
      BY <2>3, <2>4, <2>5, <2>7, SentReads
    <2>9. SaysOn(runner[t][c], row)
      <3>1. Len(r.out) \in Nat
        BY <1>6, <1>13, LenProperties DEF RunnerRow
      <3> QED
        BY <2>4, <2>5, <3>1 DEF SaysOn
    <2>10. TurnReads(t)'
      BY <1>1, <1>10, <2>6, <2>8, <2>9, RunnerWritten DEF Inv3
    <2>11. ASSUME NEW u \in TurnIds, u # t PROVE TurnReads(u)'
      BY <1>1, <1>10, <2>6, <2>11, AloneReads DEF Inv3, RunnerPut
    <2>12. \A u \in TurnIds : TurnReads(u)'
      BY <2>10, <2>11
    <2>13. \A g \in Holders : holder'[g] = holder[g] \/ PromptFits(g)'
      BY <1>9, HolderQuiet, NoPrompt
    <2>14. \A u \in ActiveTurns : QuietAttempts(u) /\ KeepsItems(u)
      BY <1>10 DEF ActiveTurns
    <2>15. Leases
      BY <1>1, TurnsSteady
    <2> QED
      BY <2>12, <2>13, <2>14, <2>15, OutsideReads
  <1> QED
    BY <1>8, <1>11, <1>12, <1>13

(* Commands go to the runner that works.                                   *)
LEMMA SendCommandsReads ==
    ASSUME Inv1, Inv2, Inv3, Timely, NEW h \in Holders, SendCommands(h)
    PROVE  Inv3'
  <1>1. /\ holder[h].pc = "pump" /\ May(h) /\ turn' = turn /\ holder' = holder /\ item' = item
        /\ holder[h].pc # "idle"
    BY DEF SendCommands
  <1>2. PICK t \in TurnIds : t = holder[h].turn
    BY <1>1, OwnerHas
  <1>3. PICK c : c = holder[h].chan
    OBVIOUS
  <1>4. PICK n : n = holder[h].n
    OBVIOUS
  <1>5. /\ TablesFit /\ c \in 1 .. Len(runner[t]) /\ runner[t][c] \in RunnerRow
        /\ n \in 1 .. Len(attempt[t]) /\ attempt[t][n] \in AttemptRow
    BY <1>1, <1>2, <1>3, <1>4, Pumping, InPlace
  <1>7. PICK x, y : /\ runner' = WithPlace(runner, t, c, [runner[t][c] EXCEPT
                                    !.inbox = @ \cup x, !.halt = @ \/ y])
                    /\ (\A a : x \subseteq Fresh(t, Len(attempt[t]), a)) /\ x \subseteq Messages /\ y \in BOOLEAN
    <2> DEFINE r == runner[t][c]
               open == command[t] \ {z \in command[t] : Moot(h, z)}
               x == {m \in Messages : <<"steer", m>> \in open} \ r.seen
               y == (\E z \in open : z[1] = "restart") \/ <<"interrupt">> \in open
    <2>1. runner' = [runner EXCEPT ![t][c] = [r EXCEPT !.inbox = @ \cup x, !.halt = @ \/ y]]
      BY <1>2, <1>3, Zenon DEF SendCommands
    <2>2. x \subseteq Messages /\ y \in BOOLEAN
      OBVIOUS
    <2>3. \A a : x \subseteq Fresh(t, Len(attempt[t]), a)
      BY WaitsFresh DEF Inv3
    <2> HIDE DEF x, y
    <2>4. runner' = WithPlace(runner, t, c, [r EXCEPT !.inbox = @ \cup x, !.halt = @ \/ y])
      BY <2>1, Zenon DEF WithPlace
    <2> QED
      BY <2>2, <2>3, <2>4
  <1>8. PICK z \in BOOLEAN : attempt' = WithPlace(attempt, t, n, [attempt[t][n] EXCEPT !.asked = z])
    <2> DEFINE open == command[t] \ {z \in command[t] : Moot(h, z)}
               asks == \E z \in open : z[1] = "restart"
               z == attempt[t][n].asked \/ asks
    <2>1. attempt' = [attempt EXCEPT ![t][n].asked = @ \/ asks]
      BY <1>2, <1>4, Zenon DEF SendCommands
    <2>2. attempt' = WithPlace(attempt, t, n, [attempt[t][n] EXCEPT !.asked = z])
      <3> HIDE DEF asks
      <3> QED
        BY <2>1 DEF WithPlace
    <2>3. z \in BOOLEAN
      OBVIOUS
    <2> HIDE DEF z
    <2> QED
      BY <2>2, <2>3
  <1> DEFINE row == [runner[t][c] EXCEPT !.inbox = @ \cup x, !.halt = @ \/ y]
             arow == [attempt[t][n] EXCEPT !.asked = z]
  <1>9. /\ row \in RunnerRow /\ row.inbox = runner[t][c].inbox \cup x
        /\ row.seen = runner[t][c].seen /\ row.refused = runner[t][c].refused
        /\ row.out = runner[t][c].out
    <2>1. runner[t][c].inbox \cup x \in SUBSET Messages /\ (runner[t][c].halt \/ y) \in BOOLEAN
      BY <1>5, <1>7 DEF RunnerRow
    <2>2. row \in RunnerRow
      BY <1>5, <2>1 DEF RunnerRow
    <2> QED
      BY <1>5, <2>2 DEF RunnerRow
  <1>10. arow \in AttemptRow /\ Same(attempt[t][n].runner, arow.runner)
    BY <1>5 DEF AttemptRow, Same
  <1>11. runner' = WithPlace(runner, t, c, row) /\ attempt' = WithPlace(attempt, t, n, arow)
    BY <1>7, <1>8
  <1> HIDE DEF row, arow
  <1>12. RunnerPut(t, c, row)
    BY <1>5, <1>9, <1>11, RunnerWrite
  <1>13. AttemptPut(t, n, arow)
    BY <1>5, <1>10, <1>11, AttemptWrite
  <1>14. \A u \in TurnIds : QuietAttempts(u)
    BY <1>10, <1>13, AttemptSame
  <1>15. \A u \in TurnIds : NoNewSteers(u)
    <2>1. \E S : S \subseteq command[t] /\ command' = [command EXCEPT ![t] = S]
      <3> DEFINE S == command[t] \ {k \in command[t] : Moot(h, k)}
      <3>1. command' = [command EXCEPT ![t] = S]
        BY <1>2, Zenon DEF SendCommands
      <3>2. S \subseteq command[t]
        OBVIOUS
      <3> HIDE DEF S
      <3> QED
        BY <3>1, <3>2
    <2> QED
      BY <1>5, <2>1 DEF NoNewSteers, TablesFit
  <1>16. \A u \in TurnIds : Steady(u) /\ KeepsItems(u)
    BY <1>1, TurnsSteady DEF KeepsItems, SteeredItems
  <1>17. \A a : RunnerReads(runner[t][c], Fresh(t, Len(attempt[t]), a))
                    => RunnerReads(row, Fresh(t, Len(attempt[t]), a))
    BY <1>7, <1>9, SentReads
  <1>18. SaysOn(runner[t][c], row)
    <2>1. Len(runner[t][c].out) \in Nat
      BY <1>5, LenProperties DEF RunnerRow
    <2> QED
      BY <1>9, <2>1 DEF SaysOn
  <1>19. TurnReads(t)'
    BY <1>1, <1>5, <1>12, <1>14, <1>15, <1>16, <1>17, <1>18, RunnerWritten DEF Inv3
  <1>20. ASSUME NEW u \in TurnIds, u # t PROVE TurnReads(u)'
    BY <1>1, <1>12, <1>13, <1>15, <1>16, <1>20, AloneReads DEF Inv3, RunnerPut, AttemptPut
  <1>21. \A u \in TurnIds : TurnReads(u)'
    BY <1>19, <1>20
  <1>22. \A g \in Holders : holder'[g] = holder[g] \/ PromptFits(g)'
    BY <1>1
  <1>23. \A u \in ActiveTurns : QuietAttempts(u) /\ KeepsItems(u)
    BY <1>14, <1>16 DEF ActiveTurns
  <1>24. Leases
    BY <1>1, TurnsSteady
  <1> QED
    BY <1>21, <1>22, <1>23, <1>24, OutsideReads

-----------------------------------------------------------------------------
(* What the runner said is recorded.                                       *)

(* What a recorded frame leaves in the attempt's memory.                   *)
LEMMA FrameRecorded ==
    ASSUME NEW mem \in RunnerStates, NEW f \in Frames
    PROVE  /\ AfterFrame(mem, f).cursor = mem.cursor + 1
           /\ AfterFrame(mem, f).at = mem.at /\ AfterFrame(mem, f).continuing = mem.continuing
           /\ AfterFrame(mem, f).consumed = IF f[1] = "took" THEN mem.consumed \cup {f[2]}
                                            ELSE mem.consumed
  <1> DEFINE x == mem.cursor + 1
             y == mem.started \/ f[1] = "began"
             z == IF f[1] = "took" THEN mem.consumed \cup {f[2]} ELSE mem.consumed
  <1>1. AfterFrame(mem, f) = [mem EXCEPT !.cursor = x, !.started = y, !.consumed = z]
    BY DEF AfterFrame, RunnerStates
  <1> HIDE DEF x, y, z
  <1>2. AfterFrame(mem, f).cursor = x /\ AfterFrame(mem, f).consumed = z /\ AfterFrame(mem, f).at = mem.at
        /\ AfterFrame(mem, f).continuing = mem.continuing
    BY <1>1 DEF RunnerStates
  <1> QED
    BY <1>2 DEF x, z

(* The next thing the runner said is recorded: what an attempt took in was *)
(* acknowledged to it before.                                              *)
LEMMA ApplyReads ==
    ASSUME Inv1, Inv2, Inv3, Timely, NEW h \in Holders, Apply(h)
    PROVE  Inv3'
  <1>1. /\ holder[h].pc = "pump" /\ May(h) /\ turn' = turn /\ runner' = runner /\ item' = item
        /\ holder[h].pc # "idle"
    BY DEF Apply
  <1>2. PICK t \in TurnIds : t = holder[h].turn /\ Owns(h)
    BY <1>1, OwnerHas
  <1>3. PICK c : c = holder[h].chan
    OBVIOUS
  <1>4. PICK n : n = holder[h].n
    OBVIOUS
  <1>5. PICK mem : mem = holder[h].mem
    OBVIOUS
  <1>6. /\ TablesFit /\ holder[h] \in HolderRow
        /\ c \in 1 .. Len(runner[t]) /\ runner[t][c] \in RunnerRow
        /\ turn[t].status = "running"
        /\ n = Len(attempt[t]) /\ n \in 1 .. Len(attempt[t]) /\ attempt[t][n] \in AttemptRow
        /\ attempt[t][n].runner = mem
        /\ mem \in RunnerStates /\ mem.at = c
    BY <1>1, <1>2, <1>3, <1>4, <1>5, Pumping, InPlace
  <1>7. PICK k \in Nat : k = mem.cursor
    BY <1>6 DEF RunnerStates
  <1>8. PICK f \in Frames : f = runner[t][c].out[k + 1] /\ k + 1 \in 1 .. Len(runner[t][c].out)
    <2> DEFINE s == runner[t][c].out
    <2>1. k < Len(s)
      BY <1>2, <1>3, <1>5, <1>7 DEF Apply
    <2>2. s \in Seq(Frames)
      BY <1>6 DEF RunnerRow
    <2> HIDE DEF s
    <2>3. Len(s) \in Nat
      BY <2>2, LenProperties
    <2>4. k + 1 \in 1 .. Len(s)
      BY <2>1, <2>3
    <2>5. s[k + 1] \in Frames
      BY <2>2, <2>4, ElementOfSeq
    <2> QED
      BY <2>4, <2>5 DEF s
  <1>9. PICK now \in RunnerStates : now = AfterFrame(mem, f) /\ now.at = mem.at
    BY <1>6, AfterFrameFits
  <1>10. /\ now.cursor = k + 1 /\ now.continuing = mem.continuing /\ now # None /\ mem # None
         /\ now.consumed = IF f[1] = "took" THEN mem.consumed \cup {f[2]} ELSE mem.consumed
    BY <1>6, <1>7, <1>9, FrameRecorded, NoneAssumption
  <1>11. PICK row \in AttemptRow : attempt' = WithPlace(attempt, t, n, row) /\ row.runner = now
    <2> DEFINE y == [attempt[t][n] EXCEPT
                       !.runner = AfterFrame(mem, f),
                       !.status = IF f[1] # "end" THEN @
                                  ELSE IF f[2] = "transient" THEN "failed" ELSE f[2]]
    <2>1. attempt' = [attempt EXCEPT ![t][n] = y]
      BY <1>2, <1>3, <1>4, <1>5, <1>7, <1>8, Zenon DEF Apply, AfterFrame
    <2> DEFINE st == IF f[1] # "end" THEN attempt[t][n].status
                     ELSE IF f[2] = "transient" THEN "failed" ELSE f[2]
    <2>2. st \in AttemptStatuses
      <3>1. attempt[t][n].status \in AttemptStatuses
        BY <1>6 DEF AttemptRow
      <3>2. f[1] = "end" => f[2] \in Outcomes
        BY FrameSays
      <3> QED
        BY <3>1, <3>2 DEF Outcomes, AttemptStatuses
    <2>3. y = [attempt[t][n] EXCEPT !.runner = now, !.status = st]
      BY <1>6, <1>9 DEF AttemptRow
    <2> HIDE DEF st
    <2>4. y \in AttemptRow /\ y.runner = now
      BY <1>6, <2>2, <2>3 DEF AttemptRow
    <2> HIDE DEF y
    <2>5. attempt' = WithPlace(attempt, t, n, y)
      BY <2>1, Zenon DEF WithPlace
    <2> QED
      BY <2>4, <2>5
  <1>12. PICK v \in HolderRow : holder' = [holder EXCEPT ![h] = v] /\ v.pc # "launch"
    <2> DEFINE y == [holder[h] EXCEPT
                       !.mem = AfterFrame(mem, f), !.inflight = FALSE,
                       !.pc = CASE f[1] = "end" -> "ended"
                                [] f[1] = "refused" -> "refused"
                                [] OTHER -> @,
                       !.outcome = IF f[1] \in {"end", "refused"} THEN f[2] ELSE @]
    <2>1. holder' = [holder EXCEPT ![h] = y]
      BY <1>2, <1>3, <1>5, <1>7, <1>8, Zenon DEF Apply, AfterFrame
    <2> DEFINE pc == CASE f[1] = "end" -> "ended" [] f[1] = "refused" -> "refused" [] OTHER -> "pump"
               o == IF f[1] \in {"end", "refused"} THEN f[2] ELSE holder[h].outcome
    <2>2. pc \in Places /\ o \in Outcomes \cup Messages \cup {None}
      <3>1. holder[h].outcome \in Outcomes \cup Messages \cup {None}
        BY <1>6 DEF HolderRow
      <3>2. \/ f[1] = "began" /\ f[2] \in BOOLEAN
            \/ f[1] \in {"ack", "refused", "took"} /\ f[2] \in Messages
            \/ f[1] = "end" /\ f[2] \in Outcomes
        BY FrameSays
      <3> QED
        BY <3>1, <3>2 DEF Places
    <2>3. y = [holder[h] EXCEPT !.mem = now, !.inflight = FALSE, !.pc = pc, !.outcome = o]
      <3> DEFINE x == holder[h]
      <3>1. x \in HolderRow /\ x.pc = "pump"
        BY <1>1, <1>6
      <3> HIDE DEF o
      <3>2. o = IF f[1] \in {"end", "refused"} THEN f[2] ELSE x.outcome
        BY DEF o
      <3> HIDE DEF x
      <3>3. [x EXCEPT !.mem = AfterFrame(mem, f), !.inflight = FALSE,
                      !.pc = CASE f[1] = "end" -> "ended"
                                [] f[1] = "refused" -> "refused"
                                [] OTHER -> @,
                      !.outcome = IF f[1] \in {"end", "refused"} THEN f[2] ELSE @]
            = [x EXCEPT !.mem = now, !.inflight = FALSE, !.pc = pc, !.outcome = o]
        BY <1>9, <3>1, <3>2 DEF HolderRow
      <3> QED
        BY <3>3 DEF x
    <2>4. pc # "launch"
      OBVIOUS
    <2> HIDE DEF pc, o
    <2>5. y \in HolderRow /\ y.pc = pc
      BY <1>6, <2>2, <2>3 DEF HolderRow
    <2> HIDE DEF y
    <2> QED
      BY <2>1, <2>4, <2>5
  <1>13. AttemptPut(t, n, row)
    BY <1>6, <1>11, AttemptWrite
  <1>14. Len(attempt'[t]) = n /\ attempt'[t][n].runner = now
    BY <1>6, <1>11, <1>13 DEF AttemptPut
  <1>15. /\ command' = [command EXCEPT ![t] = IF f[1] = "ack" THEN command[t] \ {<<"steer", f[2]>>}
                                              ELSE command[t]]
         /\ \A m \in mem.consumed : <<"steer", m>> \notin command[t]
    <2>1. /\ command' = [command EXCEPT ![t] = IF f[1] = "ack" THEN @ \ {<<"steer", f[2]>>} ELSE @]
          /\ \A m \in mem.consumed : <<"steer", m>> \notin command[t]
      BY <1>2, <1>3, <1>5, <1>7, <1>8, Zenon DEF Apply
    <2> QED
      BY <2>1
  <1>16. /\ command'[t] = IF f[1] = "ack" THEN command[t] \ {<<"steer", f[2]>>} ELSE command[t]
         /\ \A u \in TurnIds : NoNewSteers(u)
    <2>1. command \in [TurnIds -> SUBSET Commands]
      BY <1>6 DEF TablesFit
    <2> QED
      BY <1>15, <2>1 DEF NoNewSteers
  <1>17. PICK r : r = runner[t][c]
    OBVIOUS
  <1>18. PICK F : F = Fresh(t, n, mem) /\ F = Fresh(t, n, now)
    BY <1>10 DEF Fresh
  <1>19. /\ TurnReads(t) /\ RunnerReads(r, F) /\ k \in 0 .. Len(r.out)
         /\ \A m \in Messages : Acked(r, m, k) => <<"steer", m>> \notin command[t]
    <2>1. TurnReads(t)
      BY DEF Inv3
    <2> QED
      BY <1>6, <1>7, <1>10, <1>17, <1>18, <2>1 DEF TurnReads, RunReads, Followed
  <1>20. f[1] = "took" => /\ f[2] \in Messages /\ f[2] \in F
                          /\ <<"steer", f[2]>> \notin command[t]
    <2>1. ASSUME f[1] = "took"
          PROVE  f[2] \in r.seen /\ Acked(r, f[2], k)
      <3>1. f[2] \in r.seen /\ Acked(r, f[2], k + 1 - 1)
        BY <1>8, <1>17, <1>19, <2>1 DEF RunnerReads
      <3>2. k + 1 - 1 = k
        OBVIOUS
      <3> QED
        BY <3>1, <3>2
    <2>2. f[1] = "took" => f[2] \in Messages
      BY FrameSays
    <2> QED
      BY <1>19, <2>1, <2>2 DEF RunnerReads
  <1>21. mem.consumed \subseteq F
    <2>1. ConsumedBy(attempt[t][n]) = mem.consumed
      BY <1>6, <1>10 DEF ConsumedBy
    <2>2. mem.consumed \subseteq SteeredItems(t)
      BY <1>6, <1>19, <2>1 DEF TurnReads, AttemptsRead
    <2>3. ASSUME NEW i \in 1 .. Len(attempt[t]), i # n, mem.continuing
          PROVE  Took(attempt[t][i]) \cap mem.consumed = {}
      <3>1. i < n /\ Continues(attempt[t][n])
        BY <1>6, <1>10, <2>3 DEF Continues
      <3>2. i < n /\ Continues(attempt[t][n]) => Took(attempt[t][i]) \cap ConsumedBy(attempt[t][n]) = {}
        BY <1>6, <1>19 DEF TurnReads, AttemptsRead
      <3> QED
        BY <2>1, <3>1, <3>2
    <2> QED
      BY <1>18, <2>2, <2>3 DEF Fresh
  <1>22. ConsumedBy(row) = now.consumed /\ Took(row) \subseteq now.consumed
    BY <1>10, <1>11 DEF ConsumedBy, Took
  <1>23. now.consumed \subseteq F /\ \A m \in now.consumed : <<"steer", m>> \notin command'[t]
    BY <1>10, <1>15, <1>16, <1>20, <1>21
  <1>24. AttemptsRead(t)' /\ Fresh(t, n, now)' = F
    <2>1. AttemptsRead(t) /\ n \in Nat
      BY <1>6, <1>19 DEF TurnReads
    <2> QED
      BY <1>1, <1>6, <1>11, <1>13, <1>16, <1>18, <1>22, <1>23, <2>1, LastWritten
  <1>25. SteersJoin(t)'
    <2>1. turn'[t].status \in Active
      BY <1>1, <1>6 DEF Active
    <2> QED
      BY <1>1, <1>16, <1>19, <2>1, SteersStay DEF TurnReads
  <1>26. RunReads(t)'
    <2>1. r = runner'[t][now.at] /\ RunnerReads(r, Fresh(t, n, now)')
      BY <1>1, <1>6, <1>9, <1>17, <1>19, <1>24
    <2>2. now.cursor \in 0 .. Len(r.out)
      BY <1>8, <1>10, <1>17, <1>19
    <2>3. ASSUME NEW m \in Messages, Acked(r, m, now.cursor)
          PROVE  <<"steer", m>> \notin command'[t]
      <3>1. PICK j \in 1 .. k + 1 : r.out[j] = <<"ack", m>>
        BY <1>10, <2>3 DEF Acked
      <3>2. CASE j = k + 1
        <4>1. f = <<"ack", m>>
          BY <1>8, <1>17, <3>1, <3>2
        <4> QED
          BY <1>16, <4>1
      <3>3. CASE j # k + 1
        <4>1. j \in 1 .. k
          BY <3>3
        <4>2. Acked(r, m, k)
          BY <3>1, <4>1 DEF Acked
        <4> QED
          BY <1>16, <1>19, <4>2
      <3> QED
        BY <3>2, <3>3
    <2> QED
      BY <1>14, <2>1, <2>2, <2>3, Follows
  <1>27. TurnReads(t)'
    BY <1>24, <1>25, <1>26 DEF TurnReads
  <1>28. ReadsAlone(t)
    BY <1>1, <1>13, <1>16, TurnsSteady DEF ReadsAlone, AttemptPut
  <1>29. Leases
    BY <1>1, TurnsSteady
  <1> QED
    BY <1>1, <1>2, <1>12, <1>27, <1>28, <1>29, OwnerReadsOn

-----------------------------------------------------------------------------
(* How turns end.                                                          *)

(* The owner of a turn closes it: no attempt runs on, and what nobody read *)
(* leaves it.                                                              *)
LEMMA ClosingReads ==
    ASSUME Inv1, Inv3, Timely, Leases, NEW h \in Holders, Owns(h), NEW t \in TurnIds,
           \A u \in TurnIds : u # t => QuietAttempts(u), runner' = runner,
           QuietAttempts(t) \/ \E row : AttemptNew(t, row) /\ row.runner = None,
           command' = [command EXCEPT ![t] = {}], NEW S, S \subseteq {t}, item' = RequeuedItems(S),
           turn'[t].status # "running", \A u \in TurnIds : u # t => Steady(u),
           holder' = [holder EXCEPT ![h] = Idle]
    PROVE  Inv3'
  <1>1. /\ \A u \in TurnIds : u \notin S => KeepsItems(u)
        /\ \A u \in TurnIds : \A m \in SteeredItems(u) \ Unread(u) : m \in SteeredItems(u)'
    BY RequeuedLeave
  <1>2. command'[t] = {} /\ \A u \in TurnIds : u # t => command'[u] = command[u]
    <2>1. command \in [TurnIds -> SUBSET Commands]
      BY DEF Inv1, TablesFit
    <2> QED
      BY <2>1
  <1>3. TurnReads(t)'
    <2>1. /\ \A m \in Messages : <<"steer", m>> \notin command'[t]
          /\ \A m \in SteeredItems(t) \ Unread(t) : m \in SteeredItems(t)'
          /\ TurnReads(t)
      BY <1>1, <1>2 DEF Inv3
    <2>2. CASE QuietAttempts(t)
      BY <2>1, <2>2, ClosedReads
    <2>3. ASSUME NEW row, AttemptNew(t, row), row.runner = None PROVE TurnReads(t)'
      <3>1. Len(attempt[t]) \in Nat /\ DOMAIN attempt[t] = 1 .. Len(attempt[t])
        BY Lengths DEF Inv1
      <3> QED
        BY <2>1, <2>3, <3>1, ClosedAdds
    <2> QED
      BY <2>2, <2>3
  <1>4. ASSUME NEW u \in TurnIds, u # t PROVE TurnReads(u)'
    <2>1. KeepsItems(u)
      BY <1>1, <1>4
    <2>2. QuietSteers(u)
      BY <1>2, <1>4 DEF QuietSteers
    <2>3. QuietRunners(u)
      BY RunnersSilent
    <2>4. TurnReads(u) /\ Steady(u) /\ QuietAttempts(u)
      BY <1>4 DEF Inv3
    <2> QED
      BY <2>1, <2>2, <2>3, <2>4, QuietReads
  <1>5. \A u \in TurnIds : TurnReads(u)'
    BY <1>3, <1>4
  <1>6. holder'[h] = Idle /\ \A g \in Holders : g # h => holder'[g] = holder[g]
    BY IdleRow, HolderKeeps DEF Inv1
  <1>7. PromptFits(h)'
    BY <1>6, IdleRow, NoPrompt
  <1> QED
    BY <1>5, <1>6, <1>7, OwnerReads

(* A turn requeued over: the others go on.                                 *)
LEMMA RequeueSteady ==
    ASSUME Inv1, NEW t \in TurnIds, turn[t].status # "none", NEW row, NEW S,
           Closes(S, WithRow(turn, t, row)), ClosedOnly(t, row),
           turn' = RequeueSteers(WithRow(turn, t, row), S)
    PROVE  turn'[t] = row /\ \A u \in TurnIds : u # t => Steady(u)
  <1> DEFINE T == WithRow(turn, t, row)
  <1>1. /\ ItemsFit /\ sent \in Seq(Messages) /\ TurnsFit(T)
        /\ \A u \in TurnIds : T[u] = IF u = t THEN row ELSE turn[u]
        /\ \A u \in TurnIds : T[u].status = "none" <=> turn[u].status = "none"
    BY DEF Inv1, TablesFit, Closes, ClosedOnly
  <1> DEFINE U == RequeueSteers(T, S)
  <1> HIDE DEF T
  <1>2. /\ \A m \in Moved(S) : T[Own(m)].status = "none" /\ U[Own(m)].status = "queued"
        /\ \A u \in TurnIds : (\A m \in Moved(S) : u # Own(m)) => U[u] = T[u]
    BY <1>1, RequeueKeeps
  <1>3. turn' = U
    BY DEF T
  <1> HIDE DEF U
  <1>4. turn'[t] = row
    BY <1>1, <1>2, <1>3
  <1>5. ASSUME NEW u \in TurnIds, u # t PROVE Steady(u)
    <2>1. CASE \A m \in Moved(S) : u # Own(m)
      BY <1>1, <1>2, <1>3, <1>5, <2>1 DEF Steady
    <2>2. CASE \E m \in Moved(S) : u = Own(m)
      BY <1>1, <1>2, <1>3, <1>5, <2>2 DEF Steady, Active
    <2> QED
      BY <2>1, <2>2
  <1> QED
    BY <1>4, <1>5

(* Attempts whose runners stay record the same.                            *)
LEMMA StatusReads ==
    ASSUME TablesFit, NEW t \in TurnIds, NEW n \in 1 .. Len(attempt[t]), NEW s \in AttemptStatuses,
           attempt' = [attempt EXCEPT ![t][n].status = s]
    PROVE  \A u \in TurnIds : QuietAttempts(u)
  <1> DEFINE row == [attempt[t][n] EXCEPT !.status = s]
  <1>1. attempt[t][n] \in AttemptRow
    BY Lengths
  <1>2. row \in AttemptRow /\ row.runner = attempt[t][n].runner
    BY <1>1 DEF AttemptRow
  <1>3. attempt' = WithPlace(attempt, t, n, row)
    BY DEF WithPlace
  <1> HIDE DEF row
  <1>4. AttemptPut(t, n, row)
    BY <1>2, <1>3, AttemptWrite
  <1>5. Same(attempt[t][n].runner, row.runner)
    BY <1>2 DEF Same
  <1> QED
    BY <1>4, <1>5, AttemptSame

(* A turn settles.                                                         *)
LEMMA SettleReads ==
    ASSUME Inv1, Inv3, Timely, NEW h \in Holders, Settle(h)
    PROVE  Inv3'
  <1>1. /\ holder[h].pc \in {"settle", "refuse"} /\ May(h) /\ runner' = runner /\ holder[h].pc # "idle"
        /\ holder' = [holder EXCEPT ![h] = Idle] /\ TablesFit
    BY DEF Settle, Inv1
  <1>2. PICK t \in TurnIds : t = holder[h].turn /\ Owns(h) /\ turn[t].status # "none"
    BY <1>1, Driven
  <1>3. turn[t] \in TurnRow /\ holder[h].outcome \in Outcomes
    BY <1>1, <1>2, InPlace, Driven
  <1>4. PICK o : o = holder[h].outcome
    OBVIOUS
  <1>5. PICK status : status = SettledStatus(t, o)
    OBVIOUS
  <1>6. status \in Over \cup {"queued"} /\ (turn[t].stop => status \in Over)
    BY <1>3, <1>4, <1>5 DEF SettledStatus, Outcomes, Over
  <1>7. PICK due \in BOOLEAN : due = (o # "transient")
    OBVIOUS
  <1>8. PICK ends : ends = IF status = "queued" THEN {} ELSE {t}
    OBVIOUS
  <1> DEFINE row == [turn[t] EXCEPT !.status = status, !.stop = FALSE, !.due = due,
                                    !.token = None, !.live = FALSE]
  <1>9. /\ turn' = RequeueSteers(WithRow(turn, t, row), ends)
        /\ item' = RequeuedItems(ends) /\ command' = [command EXCEPT ![t] = {}]
    <2>1. /\ turn' = RequeueSteers([turn EXCEPT ![t] =
                [@ EXCEPT !.status = status, !.stop = FALSE, !.due = o # "transient",
                          !.token = None, !.live = FALSE]], ends)
          /\ item' = RequeuedItems(ends) /\ command' = [command EXCEPT ![t] = {}]
      BY <1>2, <1>4, <1>5, <1>8, Zenon DEF Settle
    <2> QED
      BY <1>7, <2>1, Zenon DEF WithRow
  <1>10. Closed(t, row) /\ row.status = status
    <2>1. status \in Statuses /\ None \in Holders \cup {None}
      BY <1>6 DEF Over, Statuses, Settled
    <2>2. row \in TurnRow /\ row.status = status /\ ~row.stop /\ ~row.live
      BY <1>3, <2>1 DEF TurnRow
    <2> HIDE DEF row
    <2> QED
      BY <1>6, <2>2 DEF Closed
  <1> HIDE DEF row
  <1>11. row.status = "queued" \/ t \in ends
    BY <1>8, <1>10
  <1>12. Closes(ends, WithRow(turn, t, row)) /\ ClosedOnly(t, row)
    BY <1>1, <1>2, <1>10, <1>11, ClosedCloses
  <1>13. Leases
    BY <1>9, <1>10, <1>12, RequeueOwned
  <1>14. turn'[t] = row /\ \A u \in TurnIds : u # t => Steady(u)
    BY <1>2, <1>9, <1>12, RequeueSteady
  <1>15. turn'[t].status # "running"
    BY <1>6, <1>10, <1>14 DEF Over
  <1>16. /\ \A u \in TurnIds : u # t => QuietAttempts(u)
         /\ QuietAttempts(t) \/ \E r : AttemptNew(t, r) /\ r.runner = None
    <2>1. PICK n : n = holder[h].n
      OBVIOUS
    <2> DEFINE new == [NewAttempt EXCEPT !.status = "failed"]
    <2>2. attempt' = IF holder[h].pc = "refuse" THEN attempt
                     ELSE IF n = 0 THEN [attempt EXCEPT ![t] = Append(@, new)]
                     ELSE [attempt EXCEPT ![t][n].status =
                            IF @ \notin {"preparing", "running"} THEN @
                            ELSE IF o = "transient" THEN "failed" ELSE o]
      BY <1>2, <1>4, <2>1, Zenon DEF Settle
    <2>3. CASE attempt' = attempt
      BY <2>3, RecordsAlone
    <2>4. CASE holder[h].pc = "settle" /\ n # 0
      <3>1. n \in 1 .. Len(attempt[t]) /\ attempt[t][n] \in AttemptRow
        <4>1. n \in 0 .. Len(attempt[t]) /\ Len(attempt[t]) \in Nat
          BY <1>1, <1>2, <2>1, InPlace, Lengths
        <4> QED
          BY <1>1, <2>4, <4>1, Lengths
      <3>2. PICK s : s = IF attempt[t][n].status \notin {"preparing", "running"}
                         THEN attempt[t][n].status
                         ELSE IF o = "transient" THEN "failed" ELSE o
        OBVIOUS
      <3>3. s \in AttemptStatuses
        BY <1>3, <1>4, <3>1, <3>2 DEF AttemptRow, Outcomes, AttemptStatuses
      <3>4. attempt' = [attempt EXCEPT ![t][n].status = s]
        BY <1>1, <2>2, <2>4, <3>2
      <3> QED
        BY <1>1, <3>1, <3>3, <3>4, StatusReads
    <2>5. CASE attempt' = [attempt EXCEPT ![t] = Append(@, new)]
      <3>1. new \in AttemptRow /\ new.runner = None
        BY DEF NewAttempt, AttemptRow, AttemptStatuses
      <3>2. attempt' = WithAppended(attempt, t, new)
        BY <2>5, Zenon DEF WithAppended
      <3> HIDE DEF new
      <3>3. AttemptNew(t, new)
        BY <1>1, <3>1, <3>2, AttemptAdded
      <3>4. \A u \in TurnIds : u # t => QuietAttempts(u)
        BY <3>3 DEF AttemptNew, QuietAttempts, Same
      <3> QED
        BY <3>1, <3>3, <3>4
    <2> HIDE DEF new
    <2> QED
      BY <1>1, <2>2, <2>3, <2>4, <2>5
  <1>17. ends \subseteq {t}
    BY <1>8
  <1> QED
    BY <1>1, <1>2, <1>9, <1>13, <1>14, <1>15, <1>16, <1>17, ClosingReads

(* A turn is lost.                                                         *)
LEMMA LoseReads ==
    ASSUME Inv1, Inv3, Timely, NEW h \in Holders, Lose(h)
    PROVE  Inv3'
  <1>1. /\ holder[h].pc = "lose" /\ May(h) /\ runner' = runner /\ holder[h].pc # "idle"
        /\ holder' = [holder EXCEPT ![h] = Idle] /\ TablesFit
    BY DEF Lose, Inv1
  <1>2. PICK t \in TurnIds : t = holder[h].turn /\ Owns(h) /\ turn[t].status # "none"
    BY <1>1, Driven
  <1>3. turn[t] \in TurnRow /\ Continuation(t) \in TurnIds
    BY <1>1, <1>2, Driven DEF Lose
  <1>4. PICK next \in TurnIds : next = Continuation(t)
    BY <1>3
  <1> DEFINE row == [turn[t] EXCEPT !.status = "interrupted", !.stop = FALSE,
                                    !.token = None, !.live = FALSE]
             T == WithRow(turn, t, row)
             new == NewTurn(turn[t].ord + 1, 0)
  <1>5. PICK S : S = {t}
    OBVIOUS
  <1>6. /\ \/ turn' = [T EXCEPT ![next] = new] /\ turn[next].status = "none"
           \/ turn' = RequeueSteers(T, S)
        /\ item' = RequeuedItems(S) /\ command' = [command EXCEPT ![t] = {}]
    <2>1. \E able \in BOOLEAN :
          LET closed == [turn EXCEPT ![t] = [@ EXCEPT !.status = "interrupted", !.stop = FALSE,
                                                      !.token = None, !.live = FALSE]]
              continues == /\ able /\ holder[h].mem # None
                           /\ holder[h].mem.harness \in session.named
                           /\ Unread(t) = {} /\ ~turn[t].stop
                           /\ \A u \in TurnIds : turn[u].ord <= turn[t].ord
                           /\ turn[next].status = "none"
          IN  /\ turn' = IF continues THEN [closed EXCEPT ![next] = new]
                         ELSE RequeueSteers(closed, {t})
              /\ item' = RequeuedItems({t}) /\ command' = [command EXCEPT ![t] = {}]
      BY <1>2, <1>4, Zenon DEF Lose
    <2> QED
      BY <1>5, <2>1, Zenon DEF WithRow
  <1>7. Closed(t, row) /\ row.status = "interrupted"
    <2>1. "interrupted" \in Statuses /\ None \in Holders \cup {None}
      BY DEF Statuses, Settled
    <2>2. row \in TurnRow /\ row.status = "interrupted" /\ ~row.stop /\ ~row.live
      BY <1>3, <2>1 DEF TurnRow
    <2> HIDE DEF row
    <2> QED
      BY <2>2 DEF Closed, Over
  <1> HIDE DEF row
  <1>8. Closes(S, T) /\ ClosedOnly(t, row)
    <2>1. row.status = "queued" \/ t \in S
      BY <1>5
    <2> QED
      BY <1>1, <1>2, <1>7, <2>1, ClosedCloses
  <1>9. Leases /\ turn'[t].status # "running" /\ \A u \in TurnIds : u # t => Steady(u)
    <2>1. CASE turn' = RequeueSteers(T, S)
      <3>1. Leases
        BY <1>7, <1>8, <2>1, RequeueOwned
      <3>2. turn'[t] = row /\ \A u \in TurnIds : u # t => Steady(u)
        BY <1>2, <1>8, <2>1, RequeueSteady
      <3> QED
        BY <1>7, <3>1, <3>2
    <2>2. CASE turn' = [T EXCEPT ![next] = new] /\ turn[next].status = "none"
      <3>1. TurnsFit(T) /\ \A u \in TurnIds : T[u] = IF u = t THEN row ELSE turn[u]
        BY <1>8 DEF Closes, ClosedOnly
      <3>2. ~new.live /\ ~row.live /\ new.status = "queued" /\ next # t
        BY <1>2, <1>7, <2>2 DEF NewTurn, Absent, Closed
      <3>3. T \in [TurnIds -> TurnRow]
        BY <3>1 DEF TurnsFit
      <3> HIDE DEF T, new
      <3>4. \A u \in TurnIds : turn'[u] = IF u = next THEN new ELSE T[u]
        BY <2>2, <3>3
      <3>5. \A u \in TurnIds : turn'[u].live => turn[u].live /\ turn'[u].token = turn[u].token
        BY <3>1, <3>2, <3>4
      <3>6. \A u \in TurnIds : u # t => Steady(u)
        BY <2>2, <3>1, <3>2, <3>4 DEF Steady, Active
      <3>7. turn'[t].status # "running"
        BY <1>7, <3>1, <3>2, <3>4
      <3> QED
        BY <3>5, <3>6, <3>7 DEF Leases
    <2> QED
      BY <1>6, <2>1, <2>2
  <1>10. \A u \in TurnIds : QuietAttempts(u)
    <2>1. PICK n : n = holder[h].n
      OBVIOUS
    <2>2. attempt' = [attempt EXCEPT ![t][n].status = "lost"]
      BY <1>2, <2>1, Zenon DEF Lose
    <2>3. n \in 1 .. Len(attempt[t])
      BY <1>1, <1>2, <2>1, InPlace
    <2>4. "lost" \in AttemptStatuses
      BY DEF AttemptStatuses
    <2> QED
      BY <1>1, <2>2, <2>3, <2>4, StatusReads
  <1>11. S \subseteq {t}
    BY <1>5
  <1> QED
    BY <1>1, <1>2, <1>6, <1>9, <1>10, <1>11, ClosingReads

-----------------------------------------------------------------------------
(* What a harness says.                                                    *)

(* What a harness may say next, and what its runner then remembers.        *)
Says(r, s, f) ==
    /\ s.out = Append(r.out, f) /\ s.inbox \subseteq r.inbox
    /\ r.seen \subseteq s.seen /\ s.seen \subseteq r.seen \cup r.inbox
    /\ \A m \in s.seen \ s.refused : m \in r.seen \ r.refused \/ f = <<"ack", m>>
    /\ f[1] = "ack" => f[2] \in s.seen
    /\ f[1] = "took" => f[2] \in r.seen \ r.refused

(* It says on, and acknowledges a message before the agent reads it.       *)
LEMMA SaysReads ==
    ASSUME NEW r \in RunnerRow, NEW s, NEW f \in Frames, Says(r, s, f), NEW F
    PROVE  SaysOn(r, s) /\ (RunnerReads(r, F) => RunnerReads(s, F))
  <1>1. r.out \in Seq(Frames)
    BY DEF RunnerRow
  <1>2. PICK k : k = Len(r.out)
    OBVIOUS
  <1>3. /\ k \in Nat /\ Len(s.out) = k + 1 /\ s.out[k + 1] = f
        /\ \A i \in 1 .. k : s.out[i] = r.out[i]
    BY <1>1, <1>2, AppendProperties, LenProperties DEF Says
  <1>4. SaysOn(r, s)
    BY <1>2, <1>3 DEF SaysOn
  <1>5. ASSUME RunnerReads(r, F) PROVE RunnerReads(s, F)
    <2>1. s.inbox \subseteq F /\ s.seen \subseteq F
      BY <1>5 DEF RunnerReads, Says
    <2>2. \A m : \A j \in 0 .. k : Acked(r, m, j) => Acked(s, m, j)
      BY <1>3 DEF Acked
    <2>3. \A m : Acked(s, m, k) => Acked(s, m, k + 1)
      BY <1>3 DEF Acked
    <2>4. ASSUME NEW m \in s.seen \ s.refused PROVE Acked(s, m, k + 1)
      <3>1. CASE f = <<"ack", m>>
        BY <1>3, <3>1 DEF Acked
      <3>2. CASE m \in r.seen \ r.refused
        <4>1. Acked(r, m, k)
          BY <1>2, <1>5, <3>2 DEF RunnerReads
        <4> QED
          BY <1>3, <2>2, <2>3, <4>1
      <3> QED
        BY <3>1, <3>2 DEF Says
    <2>5. ASSUME NEW i \in 1 .. k + 1
          PROVE  /\ s.out[i][1] = "ack" => s.out[i][2] \in s.seen
                 /\ s.out[i][1] = "took" => s.out[i][2] \in s.seen /\ Acked(s, s.out[i][2], i - 1)
      <3>1. CASE i = k + 1
        <4>1. s.out[i] = f /\ i - 1 = k
          BY <1>3, <3>1
        <4>2. f[1] = "ack" => f[2] \in s.seen
          BY DEF Says
        <4>3. ASSUME f[1] = "took" PROVE f[2] \in s.seen /\ Acked(s, f[2], k)
          <5>1. f[2] \in r.seen \ r.refused /\ f[2] \in s.seen
            BY <4>3 DEF Says
          <5>2. Acked(r, f[2], k)
            BY <1>2, <1>5, <5>1 DEF RunnerReads
          <5> QED
            BY <1>3, <2>2, <5>1, <5>2
        <4> QED
          BY <4>1, <4>2, <4>3
      <3>2. CASE i \in 1 .. k
        <4>1. s.out[i] = r.out[i] /\ i - 1 \in 0 .. k
          BY <1>3, <3>2
        <4>2. /\ r.out[i][1] = "ack" => r.out[i][2] \in r.seen
              /\ r.out[i][1] = "took" => r.out[i][2] \in r.seen /\ Acked(r, r.out[i][2], i - 1)
          BY <1>2, <1>5, <3>2 DEF RunnerReads
        <4> QED
          BY <2>2, <4>1, <4>2 DEF Says
      <3> QED
        BY <1>3, <3>1, <3>2
    <2> QED
      BY <1>3, <2>1, <2>4, <2>5 DEF RunnerReads
  <1> QED
    BY <1>4, <1>5

(* What a harness does is to say something, or to stop.                    *)
LEMMA HarnessSpeaks ==
    ASSUME Inv1, NEW t \in TurnIds, NEW c \in DOMAIN runner[t], Harness(t, c)
    PROVE  \E row \in RunnerRow :
             /\ runner' = WithPlace(runner, t, c, row)
             /\ Silent(runner[t][c], row) \/ \E f \in Frames : Says(runner[t][c], row, f)
  <1> DEFINE r == runner[t][c]
  <1>1. TablesFit /\ c \in 1 .. Len(runner[t]) /\ r \in RunnerRow
    BY Lengths DEF Inv1
  <1>2. CASE HarnessBegins(t, c)
    <2>1. PICK named \in BOOLEAN : runner' = [runner EXCEPT ![t][c] =
                        [HarnessSays(t, c, <<"began", named>>) EXCEPT !.phase = "began"]]
      BY <1>2 DEF HarnessBegins
    <2> DEFINE f == <<"began", named>>
               row == [HarnessSays(t, c, f) EXCEPT !.phase = "began"]
    <2>2. f \in Frames /\ "began" \in Phases /\ f[1] \notin {"ack", "took"}
      BY DEF Frames, Phases
    <2>6. runner' = [runner EXCEPT ![t][c] = row]
      BY <2>1
    <2> HIDE DEF f
    <2>3. row \in RunnerRow
      BY <1>1, <2>2, SaysFits
    <2>4. /\ row.out = Append(r.out, f) /\ row.inbox = r.inbox /\ row.seen = r.seen
          /\ row.refused = r.refused
      BY <1>1 DEF HarnessSays, RunnerRow
    <2> HIDE DEF row
    <2>5. Says(r, row, f)
      BY <2>2, <2>4 DEF Says
    <2> QED
      BY <2>2, <2>3, <2>5, <2>6 DEF WithPlace
  <1>3. CASE HarnessTakes(t, c)
    <2>1. PICK m \in r.seen \ (r.refused \cup r.taken) :
            runner' = [runner EXCEPT ![t][c] =
                   [HarnessSays(t, c, <<"took", m>>) EXCEPT !.taken = @ \cup {m}]]
      BY <1>3 DEF HarnessTakes
    <2> DEFINE f == <<"took", m>>
               row == [HarnessSays(t, c, f) EXCEPT !.taken = @ \cup {m}]
    <2>2. runner' = [runner EXCEPT ![t][c] = row] /\ f[1] # "ack" /\ f[2] = m
      BY <2>1
    <2>3. m \in Messages
      BY <1>1 DEF RunnerRow
    <2>4. f \in Frames
      BY <2>3 DEF Frames
    <2>5. f # <<"ack", m>>
      OBVIOUS
    <2> HIDE DEF f
    <2>6. row \in RunnerRow
      BY <1>1, <2>3, <2>4, SaysFits
    <2>7. /\ row.out = Append(r.out, f) /\ row.inbox = r.inbox /\ row.seen = r.seen
          /\ row.refused = r.refused
      BY <1>1 DEF HarnessSays, RunnerRow
    <2> HIDE DEF row
    <2>8. Says(r, row, f)
      BY <2>1, <2>2, <2>7 DEF Says
    <2> QED
      BY <2>2, <2>4, <2>6, <2>8 DEF WithPlace
  <1>4. CASE HarnessAcks(t, c)
    <2> DEFINE Said(kind, m) == [HarnessSays(t, c, <<kind, m>>) EXCEPT
                                    !.inbox = @ \ {m}, !.seen = @ \cup {m}]
    <2>1. PICK m \in r.inbox :
            \/ m \notin r.refused /\ runner' = [runner EXCEPT ![t][c] = Said("ack", m)]
            \/ runner' = [runner EXCEPT ![t][c] = [Said("refused", m) EXCEPT !.refused = @ \cup {m}]]
      BY <1>4, Zenon DEF HarnessAcks
    <2>2. m \in Messages
      BY <1>1 DEF RunnerRow
    <2>3. <<"ack", m>> \in Frames /\ <<"refused", m>> \in Frames
      BY <2>2 DEF Frames
    <2>4. Said("ack", m) \in RunnerRow /\ \E g \in Frames : Says(r, Said("ack", m), g)
      <3> DEFINE f == <<"ack", m>>
                 row == [HarnessSays(t, c, f) EXCEPT !.inbox = @ \ {m}, !.seen = @ \cup {m}]
      <3>1. f \in Frames /\ f[1] # "took" /\ f[2] = m /\ f = <<"ack", m>>
        BY <2>3
      <3> HIDE DEF f
      <3>2. row \in RunnerRow
        BY <1>1, <2>2, <3>1, SaysFits
      <3>3. /\ row.out = Append(r.out, f) /\ row.inbox = r.inbox \ {m}
            /\ row.seen = r.seen \cup {m} /\ row.refused = r.refused
        BY <1>1 DEF HarnessSays, RunnerRow
      <3> HIDE DEF row
      <3>4. Says(r, row, f)
        BY <2>1, <3>1, <3>3 DEF Says
      <3> QED
        BY <3>1, <3>2, <3>4 DEF f, row
    <2>5. LET y == [Said("refused", m) EXCEPT !.refused = @ \cup {m}]
          IN  y \in RunnerRow /\ \E g \in Frames : Says(r, y, g)
      <3> DEFINE f == <<"refused", m>>
                 row == [[HarnessSays(t, c, f) EXCEPT !.inbox = @ \ {m}, !.seen = @ \cup {m}]
                           EXCEPT !.refused = @ \cup {m}]
      <3>1. f \in Frames /\ f[1] \notin {"ack", "took"}
        BY <2>3
      <3> HIDE DEF f
      <3>2. row \in RunnerRow
        BY <1>1, <2>2, <3>1, SaysFits
      <3>3. /\ row.out = Append(r.out, f) /\ row.inbox = r.inbox \ {m}
            /\ row.seen = r.seen \cup {m} /\ row.refused = r.refused \cup {m}
        BY <1>1 DEF HarnessSays, RunnerRow
      <3> HIDE DEF row
      <3>4. Says(r, row, f)
        BY <2>1, <3>1, <3>3 DEF Says
      <3> QED
        BY <3>1, <3>2, <3>4 DEF f, row
    <2> DEFINE x == Said("ack", m)
               y == [Said("refused", m) EXCEPT !.refused = @ \cup {m}]
    <2>6. /\ x \in RunnerRow /\ y \in RunnerRow
          /\ (\E g \in Frames : Says(r, x, g)) /\ (\E g \in Frames : Says(r, y, g))
          /\ runner' = [runner EXCEPT ![t][c] = x] \/ runner' = [runner EXCEPT ![t][c] = y]
      BY <2>1, <2>4, <2>5
    <2> HIDE DEF x, y
    <2> QED
      BY <2>6 DEF WithPlace
  <1>5. CASE \E how \in {"completed", "interrupted", "failed", "transient"} : HarnessEnds(t, c, how)
    <2>1. PICK how \in {"completed", "interrupted", "failed", "transient"} : HarnessEnds(t, c, how)
      BY <1>5
    <2> DEFINE f == <<"end", how>>
               row == [HarnessSays(t, c, f) EXCEPT !.phase = "exited"]
    <2>2. runner' = [runner EXCEPT ![t][c] = row]
      BY <2>1 DEF HarnessEnds
    <2>3. f \in Frames /\ "exited" \in Phases /\ f[1] \notin {"ack", "took"}
      BY DEF Frames, Phases, Outcomes
    <2> HIDE DEF f
    <2>4. row \in RunnerRow
      BY <1>1, <2>3, SaysFits
    <2>5. /\ row.out = Append(r.out, f) /\ row.inbox = r.inbox /\ row.seen = r.seen
          /\ row.refused = r.refused
      BY <1>1 DEF HarnessSays, RunnerRow
    <2> HIDE DEF row
    <2>6. Says(r, row, f)
      BY <2>3, <2>5 DEF Says
    <2> QED
      BY <2>2, <2>3, <2>4, <2>6 DEF WithPlace
  <1>6. CASE RunnerStops(t, c)
    <2>1. PICK p \in {"exited", "gone"} : runner' = [runner EXCEPT ![t][c].phase = p]
      BY <1>6 DEF RunnerStops
    <2> DEFINE row == [r EXCEPT !.phase = p]
    <2>2. row \in RunnerRow
      BY <1>1 DEF RunnerRow, Phases
    <2>3. Silent(r, row)
      BY <1>1 DEF RunnerRow, Silent
    <2>4. runner' = WithPlace(runner, t, c, row)
      BY <2>1 DEF WithPlace
    <2> HIDE DEF row
    <2> QED
      BY <2>2, <2>3, <2>4
  <1> QED
    BY <1>2, <1>3, <1>4, <1>5, <1>6 DEF Harness

(* A step of a harness.                                                    *)
LEMMA HarnessReads ==
    ASSUME Inv1, Inv3, Timely, NEW t \in TurnIds, NEW c \in DOMAIN runner[t], Harness(t, c)
    PROVE  Inv3'
  <1>1. /\ TablesFit /\ c \in 1 .. Len(runner[t]) /\ runner[t][c] \in RunnerRow
        /\ turn' = turn /\ attempt' = attempt /\ item' = item /\ command' = command /\ holder' = holder
    BY Lengths DEF Inv1, Harness
  <1>2. PICK row \in RunnerRow :
             /\ runner' = WithPlace(runner, t, c, row)
             /\ Silent(runner[t][c], row) \/ \E f \in Frames : Says(runner[t][c], row, f)
    BY HarnessSpeaks
  <1>3. RunnerPut(t, c, row)
    BY <1>1, <1>2, RunnerWrite
  <1>4. Leases /\ \A u \in TurnIds : QuietAttempts(u) /\ NoNewSteers(u) /\ Steady(u) /\ KeepsItems(u)
    BY <1>1, RecordsAlone, CommandsAlone, TurnsSteady DEF KeepsItems, SteeredItems
  <1>5. CASE Silent(runner[t][c], row)
    <2>1. \A u \in TurnIds : QuietRunners(u)
      BY <1>3, <1>5, RunnerSilent
    <2> QED
      BY <1>1, <1>4, <2>1, QuietReadsStep
  <1>6. CASE \E f \in Frames : Says(runner[t][c], row, f)
    <2>1. PICK f \in Frames : Says(runner[t][c], row, f)
      BY <1>6
    <2>2. \A F : SaysOn(runner[t][c], row) /\ (RunnerReads(runner[t][c], F) => RunnerReads(row, F))
      BY <1>1, <2>1, SaysReads
    <2>3. SaysOn(runner[t][c], row)
      BY <2>2
    <2>4. TurnReads(t)'
      BY <1>1, <1>3, <1>4, <2>2, <2>3, RunnerWritten DEF Inv3
    <2>5. ASSUME NEW u \in TurnIds, u # t PROVE TurnReads(u)'
      BY <1>1, <1>3, <1>4, <2>5, AloneReads DEF Inv3, RunnerPut
    <2>6. \A u \in TurnIds : TurnReads(u)'
      BY <2>4, <2>5
    <2>7. \A g \in Holders : holder'[g] = holder[g] \/ PromptFits(g)'
      BY <1>1
    <2>8. \A u \in ActiveTurns : QuietAttempts(u) /\ KeepsItems(u)
      BY <1>4 DEF ActiveTurns
    <2> QED
      BY <1>4, <2>6, <2>7, <2>8, OutsideReads
  <1> QED
    BY <1>2, <1>5, <1>6

-----------------------------------------------------------------------------
(* The third layer holds.                                                  *)

(* At the start nothing was read, and nothing was sent.                    *)
LEMMA InitReads == Init => Inv3
  <1> SUFFICES ASSUME Init PROVE Inv3
    OBVIOUS
  <1>1. ASSUME NEW t \in TurnIds PROVE TurnReads(t)
    <2>1. Len(attempt[t]) = 0 /\ command[t] = {} /\ turn[t].status # "running"
      BY EmptySeq DEF Init, Absent
    <2> QED
      BY <2>1 DEF TurnReads, AttemptsRead, SteersJoin, RunReads
  <1>2. ASSUME NEW h \in Holders PROVE PromptFits(h)
    BY IdleRow DEF Init, PromptFits
  <1> QED
    BY <1>1, <1>2 DEF Inv3

(* Every step keeps the third layer.                                       *)
LEMMA NextReads == Inv1 /\ Inv2 /\ Inv3 /\ [Next]_vars => Inv3'
  <1> SUFFICES ASSUME Inv1, Inv2, Inv3, [Next]_vars, Timely' PROVE Inv3'
    BY DEF Inv3
  <1>1. Timely
    BY FaultsStay DEF Timely
  <1>2. CASE People
    BY <1>1, <1>2, PeopleReads
  <1>3. ASSUME NEW t \in TurnIds, Lapse(t) \/ FallsDue(t) PROVE Inv3'
    BY <1>1, <1>3, WaitingReads
  <1>4. ASSUME NEW h \in Holders, Drive(h) PROVE Inv3'
    <2>1. CASE Claim(h) \/ Leave(h) \/ Load(h) \/ BeginAttempt(h) \/ Prepare(h)
      BY <1>1, <2>1, ClaimReads, LeavingReads, PlaceReads, BeginAttemptReads, PrepareReads
    <2>2. CASE Launch(h) \/ Start(h) \/ Disconnected(h) \/ Attach(h) \/ PrepareAgain(h)
      BY <1>1, <2>2, LaunchReads, StartReads, LeavingReads, AttachReads, PrepareAgainReads
    <2>3. CASE SendCommands(h) \/ Apply(h) \/ RestartWith(h) \/ Restart(h)
      BY <1>1, <2>3, SendCommandsReads, ApplyReads, RestartWithReads, RestartReads
    <2>4. CASE RetryFailure(h) \/ RetryFailureDue(h) \/ Exited(h) \/ Finalize(h)
      BY <1>1, <2>4, RestReads, PlaceReads
    <2>5. CASE Settle(h) \/ Lose(h)
      BY <1>1, <2>5, SettleReads, LoseReads
    <2> QED
      BY <1>4, <2>1, <2>2, <2>3, <2>4, <2>5 DEF Drive
  <1>5. ASSUME NEW h \in Holders, GoesWrong(h) PROVE Inv3'
    <2>1. CASE Crash(h) \/ Stop(h) \/ Refuse(h)
      BY <1>1, <2>1, LeavingReads, StopReads, PlaceReads
    <2>2. CASE Kill(h) \/ FailUnexpectedly(h) \/ FinalizeFails(h)
      BY <1>1, <2>2, KillReads, FailUnexpectedlyReads, PlaceReads
    <2>3. ~Stall(h)
      BY StallNotTimely
    <2> QED
      BY <1>5, <2>1, <2>2, <2>3 DEF GoesWrong
  <1>6. ASSUME NEW t \in TurnIds, NEW c \in DOMAIN runner[t], Harness(t, c) PROVE Inv3'
    BY <1>1, <1>6, HarnessReads
  <1>7. CASE UNCHANGED vars
    <2>1. /\ attempt' = attempt /\ runner' = runner /\ turn' = turn /\ holder' = holder
          /\ item' = item /\ command' = command
      BY <1>7 DEF vars
    <2>2. Leases /\ \A u \in TurnIds : Steady(u) /\ NoNewSteers(u)
      BY <2>1, TurnsSteady, CommandsAlone
    <2>3. \A g \in Holders : holder'[g] = holder[g] \/ holder'[g].pc # "launch"
      BY <2>1
    <2> QED
      BY <1>1, <2>1, <2>2, <2>3, StillReads
  <1> QED
    BY <1>2, <1>3, <1>4, <1>5, <1>6, <1>7 DEF Next

(* The third layer holds: what attempts took in joined their turn, one     *)
(* that continues a thread took in nothing an earlier one read             *)
(* (attemptInput), and nothing read waits to be sent.                      *)
THEOREM ReadsFit == Spec => [](Inv3)
  <1>1. Init => SessionFits /\ Inv1 /\ Inv2 /\ Inv3
    BY InitFits, InitOwners, InitReads
  <1>2. SessionFits /\ Inv1 /\ Inv2 /\ Inv3 /\ [Next]_vars => SessionFits' /\ Inv1' /\ Inv2' /\ Inv3'
    BY NextKeeps, NextSession, NextOwners, NextReads
  <1> QED
    BY <1>1, <1>2, PTL DEF Spec

(* A message steered into a turn and read there stays with that turn, and  *)
(* no later attempt that continues a thread reads it again, through        *)
(* restarts, takeovers, requeues, resent commands and changes of harness   *)
(* (attemptInput, sendCommands, applyFrames, requeueSteers), while no      *)
(* transaction stalls.  An attempt on a thread of its own may.             *)
THEOREM ReadOnceHolds == Spec => []ReadOnce
  <1>1. Inv1 /\ Inv3 => ReadOnce
    <2> SUFFICES ASSUME Inv1, Inv3, Timely, NEW m \in Messages, NEW t \in TurnIds \ {Own(m)}
                 PROVE  /\ ReadBy(t, m) # {} => item[m] = t
                        /\ \A i, j \in ReadBy(t, m) : i < j => ~attempt[t][j].runner.continuing
      BY DEF ReadOnce
    <2>1. /\ AttemptsRead(t) /\ DOMAIN attempt[t] = 1 .. Len(attempt[t])
          /\ Len(attempt[t]) \in Nat
      BY Lengths DEF Inv1, Inv3, TurnReads
    <2>2. \A i \in ReadBy(t, m) :
            /\ i \in 1 .. Len(attempt[t]) /\ attempt[t][i].runner # None
            /\ m \in Took(attempt[t][i]) /\ m \in ConsumedBy(attempt[t][i])
      BY <2>1 DEF ReadBy, Took, ConsumedBy
    <2>3. ASSUME NEW i \in ReadBy(t, m) PROVE item[m] = t
      BY <2>1, <2>2 DEF AttemptsRead, SteeredItems
    <2>4. ASSUME NEW i \in ReadBy(t, m), NEW j \in ReadBy(t, m), i < j, attempt[t][j].runner.continuing
          PROVE  FALSE
      <3>1. Continues(attempt[t][j])
        BY <2>2, <2>4 DEF Continues
      <3>2. Took(attempt[t][i]) \cap ConsumedBy(attempt[t][j]) = {}
        BY <2>1, <2>2, <2>4, <3>1 DEF AttemptsRead
      <3> QED
        BY <2>2, <3>2
    <2> QED
      BY <2>3, <2>4
  <1> QED
    BY <1>1, Invariance, ReadsFit, PTL

=============================================================================
