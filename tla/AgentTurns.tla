------------------------------ MODULE AgentTurns ------------------------------
(***************************************************************************)
(* The turns of one agent session: what people send and ask of it          *)
(* (services/agent-sessions-service.ts), the queue that leases a turn to   *)
(* one replica (services/sessions/turn-queue.ts, agent-turn-leases.ts), and *)
(* the engine that drives it (services/sessions/turn-engine.ts): prepare an *)
(* attempt, start its runner, ingest its frames, deliver commands, settle,  *)
(* and take a turn over when its holder's lease lapsed.                     *)
(*                                                                         *)
(* A turn is named by its input: <<m, 0>> is the turn message m started,   *)
(* <<m, k>> the k-th continuation after its machine stopped.  Status       *)
(* "waiting" (on a question) is "running" here.  A holder is one run() of  *)
(* one claim, so its lease token is its own name.  Every transaction takes *)
(* the session's row lock and is one step.  A native thread is known by    *)
(* its harness: what matters is whether an attempt continues one.          *)
(***************************************************************************)
EXTENDS Integers, Sequences, FiniteSets, SequencesExt

CONSTANTS
    Messages,       \* what people send
    Holders,        \* claims being driven at once, on any replica
    Harnesses,      \* what the session's agent may run on
    None,
    Modes,          \* how messages are dispatched: "queue", "steer", "interrupt"
    Acts,           \* what else people do: "stop", "cancel", "hold", "retry", ...
    MaxActs,        \* how often, in all
    Faults,         \* what may go wrong, each once
    MaxFaults,      \* how many of them in one behaviour
    MaxTries        \* MAX_TRANSIENT_RETRIES

ASSUME BoundsAssumption == /\ Harnesses # {} /\ MaxActs \in Nat /\ MaxFaults \in Nat
                           /\ MaxTries \in Nat \ {0}
                           /\ Modes \subseteq {"queue", "steer", "interrupt"}

VARIABLES
    session,    \* the harness its agent runs on (external), and the harnesses whose
                \* native thread is recorded (agent_provider_threads)
    turn,       \* agent_turns
    item,       \* agent_items: the turn a message belongs to, None before it is sent
    sent,       \* the messages in the order of their positions
    attempt,    \* agent_turn_attempts of each turn, by ordinal
    command,    \* the open agent_turn_commands of each turn
    holder,     \* the memory of each run()
    runner,     \* the runners launched for each turn, in order (external)
    acts, faults

vars == <<session, turn, item, sent, attempt, command, holder, runner, acts, faults>>

TurnIds == Messages \X (0 .. MaxFaults)
Own(m) == <<m, 0>>
Continuation(t) == <<t[1], t[2] + 1>>

Active == {"preparing", "running", "finalizing"}
Settled == {"completed", "failed", "interrupted", "cancelled"}
Statuses == {"none", "queued", "held"} \cup Active \cup Settled

ActiveTurns == {t \in TurnIds : turn[t].status \in Active}

Absent == [status |-> "none", ord |-> 0, prio |-> 0, tries |-> 0, due |-> TRUE,
           fresh |-> FALSE, stop |-> FALSE, token |-> None, live |-> FALSE]
NewTurn(ord, prio) ==
    [Absent EXCEPT !.status = "queued", !.ord = ord, !.prio = prio]

LastOrdinal(T) == Max({0} \cup {T[t].ord : t \in TurnIds})

NewAttempt == [status |-> "preparing", runner |-> None, asked |-> FALSE]
RunnerState(at, harness, continuing, carried) ==
    [at |-> at, harness |-> harness, continuing |-> continuing, cursor |-> 0,
     started |-> FALSE, consumed |-> carried, restartWith |-> {}]
NewRunner == [phase |-> "up", inbox |-> {}, seen |-> {}, refused |-> {},
              taken |-> {}, halt |-> FALSE, out |-> <<>>,
              left |-> FALSE]   \* it was to be stopped and may not have been

Idle == [pc |-> "idle", turn |-> None, n |-> 0, chan |-> 0, mem |-> None,
         outcome |-> None, inflight |-> FALSE]

Init ==
    /\ session \in [harness : Harnesses, named : {{}}]
    /\ turn = [t \in TurnIds |-> Absent]
    /\ item = [m \in Messages |-> None]
    /\ sent = <<>>
    /\ attempt = [t \in TurnIds |-> <<>>]
    /\ command = [t \in TurnIds |-> {}]
    /\ holder = [h \in Holders |-> Idle]
    /\ runner = [t \in TurnIds |-> <<>>]
    /\ acts = 0
    /\ faults = {}

Fault(k) ==
    /\ k \in Faults \ faults
    /\ Cardinality(faults) < MaxFaults
    /\ faults' = faults \cup {k}

Act(k) ==
    /\ k \in Acts
    /\ acts < MaxActs
    /\ acts' = acts + 1

-----------------------------------------------------------------------------
(* Steered messages                                                        *)

(* Messages that joined t and are not its input.                           *)
SteeredItems(t) == {m \in Messages : item[m] = t /\ t # Own(m)}

ConsumedBy(a) == IF a.runner = None THEN {} ELSE a.runner.consumed

(* Steered into t and in no attempt's consumed list.                       *)
Unread(t) == SteeredItems(t)
             \ UNION {ConsumedBy(attempt[t][i]) : i \in DOMAIN attempt[t]}

(* Mutant of RequeueSteers: the messages leave the turn and get none.      *)
RequeueSteersNever(T, S) == T

(* Unread messages of the turns S become turns of their own, in order.     *)
RequeueSteers(T, S) ==
    LET moved == {m \in Messages : \E t \in S : m \in Unread(t)}
        place(m) == Cardinality({i \in DOMAIN sent : /\ sent[i] \in moved
                                                     /\ \A k \in 1 .. i - 1 : sent[k] # m})
        last == LastOrdinal(T)
    IN  [t \in TurnIds |-> IF \E m \in moved : t = Own(m)
                           THEN NewTurn(last + place(t[1]), 0) ELSE T[t]]
RequeuedItems(S) ==
    [m \in Messages |-> IF \E t \in S : m \in Unread(t) THEN Own(m) ELSE item[m]]

-----------------------------------------------------------------------------
(* What people do                                                          *)

StopActive(T) ==
    [t \in TurnIds |-> IF T[t].status \in Active THEN [T[t] EXCEPT !.stop = TRUE]
                       ELSE T[t]]
InterruptCommands ==
    [t \in TurnIds |-> IF turn[t].status \in Active
                       THEN command[t] \cup {<<"interrupt">>} ELSE command[t]]

(* deliver: a steer joins the turn that works, if one does; anything else  *)
(* is a turn of its own, and an interrupt stops the one that works.        *)
Send(m, mode) ==
    /\ item[m] = None
    /\ sent' = Append(sent, m)
    /\ \/ /\ mode = "steer"
          /\ \E t \in ActiveTurns :
               /\ item' = [item EXCEPT ![m] = t]
               /\ command' = [command EXCEPT ![t] = @ \cup {<<"steer", m>>}]
          /\ UNCHANGED turn
       \/ /\ mode = "queue" \/ (mode = "steer" /\ ActiveTurns = {})
          /\ turn' = [turn EXCEPT ![Own(m)] = NewTurn(LastOrdinal(turn) + 1, 0)]
          /\ item' = [item EXCEPT ![m] = Own(m)]
          /\ UNCHANGED command
       \/ /\ mode = "interrupt"
          /\ turn' = [StopActive(turn) EXCEPT
                        ![Own(m)] = NewTurn(LastOrdinal(turn) + 1, 1)]
          /\ item' = [item EXCEPT ![m] = Own(m)]
          /\ command' = InterruptCommands
    /\ UNCHANGED <<session, attempt, holder, runner, acts, faults>>

(* interruptIn without a turn: the turn that works is asked to stop, and a *)
(* turn waiting to be tried again is interrupted.                          *)
WaitsToRetry(t) == turn[t].status \in {"queued", "held"} /\ turn[t].tries > 0
Interrupt ==
    LET waiting == {t \in TurnIds : WaitsToRetry(t)}
        ended == [t \in TurnIds |->
                    IF t \in waiting THEN [turn[t] EXCEPT !.status = "interrupted"]
                    ELSE turn[t]]
    IN  /\ Act("stop")
        /\ waiting # {} \/ ActiveTurns # {}
        /\ turn' = StopActive(RequeueSteers(ended, waiting))
        /\ item' = RequeuedItems(waiting)
        /\ command' = InterruptCommands
        /\ UNCHANGED <<session, sent, attempt, holder, runner, faults>>

(* cancel_queued of changeQueuedIn.                                        *)
CancelQueued(t) ==
    /\ Act("cancel")
    /\ turn[t].status \in {"queued", "held"}
    /\ turn' = [turn EXCEPT ![t].status = "cancelled"]
    /\ UNCHANGED <<session, item, sent, attempt, command, holder, runner, faults>>

(* edit_queued: held while its author edits it, then queued again.         *)
Hold(t) ==
    /\ Act("hold")
    /\ turn[t].status = "queued"
    /\ turn' = [turn EXCEPT ![t].status = "held", ![t].fresh = TRUE]
    /\ UNCHANGED <<session, item, sent, attempt, command, holder, runner, faults>>
Unhold(t) ==
    /\ turn[t].status = "held"
    /\ turn' = [turn EXCEPT ![t].status = "queued", ![t].fresh = FALSE]
    /\ UNCHANGED <<session, item, sent, attempt, command, holder, runner, acts, faults>>

(* send_now: to the front of the queue, stopping the turn that works.      *)
SendNow(t) ==
    /\ Act("send_now")
    /\ turn[t].status \in {"queued", "held"}
    /\ turn' = [StopActive(turn) EXCEPT ![t].status = "queued", ![t].prio = 1,
                                        ![t].fresh = FALSE]
    /\ command' = InterruptCommands
    /\ UNCHANGED <<session, item, sent, attempt, holder, runner, faults>>

(* steerNowIn: stop the attempt so that it starts again with message m.    *)
SteerNow(m) ==
    /\ Act("steer_now")
    /\ \E t \in TurnIds :
         /\ m \in Unread(t)
         /\ turn[t].status = "running" /\ ~turn[t].stop
         /\ command' = [command EXCEPT ![t] =
                          @ \cup {<<"restart", m, Len(attempt[t])>>}]
    /\ UNCHANGED <<session, turn, item, sent, attempt, holder, runner, faults>>

(* retryIn: a failed or interrupted turn runs again, first.                *)
Retry(t) ==
    /\ Act("retry")
    /\ turn[t].status \in {"failed", "interrupted"}
    /\ ActiveTurns = {}
    /\ turn' = [turn EXCEPT ![t].status = "queued", ![t].prio = 1,
                            ![t].due = TRUE, ![t].stop = FALSE]
    /\ UNCHANGED <<session, item, sent, attempt, command, holder, runner, faults>>

(* The session's agent runs on another harness from now on (external).     *)
SwitchHarness(x) ==
    /\ Act("switch")
    /\ x # session.harness
    /\ session' = [session EXCEPT !.harness = x]
    /\ UNCHANGED <<turn, item, sent, attempt, command, holder, runner, faults>>

People ==
    \/ \E m \in Messages, mode \in Modes : Send(m, mode)
    \/ Interrupt
    \/ \E t \in TurnIds : \/ CancelQueued(t) \/ Hold(t) \/ Unhold(t)
                          \/ SendNow(t) \/ Retry(t)
    \/ \E m \in Messages : SteerNow(m)
    \/ \E x \in Harnesses : SwitchHarness(x)

-----------------------------------------------------------------------------
(* The queue and its leases                                                *)

(* A held message, or one waiting to be tried again, keeps its place.      *)
Blocks(u, t) ==
    /\ turn[u].ord < turn[t].ord /\ turn[u].prio >= turn[t].prio
    /\ \/ turn[u].status = "held" /\ turn[u].fresh
       \/ turn[u].status = "queued" /\ turn[u].tries > 0 /\ ~turn[u].due
Ready == {t \in TurnIds : /\ turn[t].status = "queued" /\ turn[t].due
                          /\ ~\E u \in TurnIds : Blocks(u, t)}
Ahead(t, u) == \/ turn[t].prio > turn[u].prio
               \/ turn[t].prio = turn[u].prio /\ turn[t].ord <= turn[u].ord

(* Mutants of Claimable: the head although another turn works; the turn    *)
(* whose holder died is nobody's.                                          *)
ClaimableBeside == {t \in Ready : \A u \in Ready : Ahead(t, u)}
                   \cup {t \in ActiveTurns : ~turn[t].live}
ClaimableIdle ==
    IF ActiveTurns # {} THEN {} ELSE {t \in Ready : \A u \in Ready : Ahead(t, u)}

(* A lapsed turn first; otherwise the head, when no turn works.            *)
Claimable ==
    LET lapsed == {t \in ActiveTurns : ~turn[t].live}
    IN  IF lapsed # {} THEN lapsed
        ELSE IF ActiveTurns # {} THEN {}
        ELSE {t \in Ready : \A u \in Ready : Ahead(t, u)}

Claim(h) ==
    /\ holder[h].pc = "idle"
    /\ \E t \in Claimable :
         /\ turn' = [turn EXCEPT
                ![t].status = IF @ = "queued" THEN "preparing" ELSE @,
                ![t].stop = IF turn[t].status = "queued" THEN FALSE ELSE @,
                ![t].token = h, ![t].live = TRUE]
         /\ holder' = [holder EXCEPT ![h] = [Idle EXCEPT !.pc = "load", !.turn = t]]
    /\ UNCHANGED <<session, item, sent, attempt, command, runner, acts, faults>>

(* owns: what every transaction of the engine asks first (assertOwned).    *)
Owns(h) == LET t == holder[h].turn
           IN  holder[h].pc # "idle" /\ turn[t].token = h /\ turn[t].live

(* The index agent_turns_one_active refuses a second working turn.         *)
Clash(h) == /\ holder[h].pc \in {"attempt", "launch", "again", "ended", "killed"}
            /\ turn[holder[h].turn].status \notin Settled
            /\ ActiveTurns \ {holder[h].turn} # {}

(* A transaction may write: the lease is held, or was when it looked and   *)
(* the transaction has waited for the session's lock since.                *)
May(h) == (Owns(h) \/ holder[h].inflight) /\ ~Clash(h)

(* The lease ended: a failed assertOwned or a renewal that no longer names *)
(* this holder.  A start already on its way is still sent.                 *)
Leave(h) ==
    /\ holder[h].pc \notin {"idle", "start"}
    /\ ~May(h)
    /\ holder' = [holder EXCEPT ![h] = Idle]
    /\ UNCHANGED <<session, turn, item, sent, attempt, command, runner, acts, faults>>

(* No renewal for LEASE_SECONDS: nobody runs the turn any more.            *)
Lapse(t) ==
    /\ turn[t].live
    /\ ~\E h \in Holders : holder[h].turn = t /\ turn[t].token = h
    /\ turn' = [turn EXCEPT ![t].live = FALSE]
    /\ UNCHANGED <<session, item, sent, attempt, command, holder, runner, acts, faults>>

(* The process dies, or gives the turn up after safeLeaseMs unrenewed.     *)
Crash(h) ==
    /\ Fault("crash")
    /\ holder[h].pc # "idle"
    /\ holder' = [holder EXCEPT ![h] = Idle]
    /\ UNCHANGED <<session, turn, item, sent, attempt, command, runner, acts>>

Writing == {"attempt", "launch", "again", "pump", "refused", "ended", "killed",
            "settle", "refuse", "lose"}

(* The process stalls in a transaction, past assertOwned, until its lease  *)
(* is over.                                                                *)
Stall(h) ==
    /\ Fault("stall")
    /\ holder[h].pc \in Writing /\ May(h)
    /\ turn' = [turn EXCEPT ![holder[h].turn].live = FALSE]
    /\ holder' = [holder EXCEPT ![h].inflight = TRUE]
    /\ UNCHANGED <<session, item, sent, attempt, command, runner, acts>>

(* Time: a retry falls due; a hold left for HOLD_BLOCKS_QUEUE_SECONDS no   *)
(* longer keeps the queue waiting.                                         *)
FallsDue(t) ==
    /\ \/ /\ turn[t].status = "queued" /\ ~turn[t].due
          /\ turn' = [turn EXCEPT ![t].due = TRUE]
       \/ /\ turn[t].status = "held" /\ turn[t].fresh
          /\ turn' = [turn EXCEPT ![t].fresh = FALSE]
    /\ UNCHANGED <<session, item, sent, attempt, command, holder, runner, acts, faults>>

-----------------------------------------------------------------------------
(* The engine: one attempt after another                                   *)

(* drive: where the turn stands decides where its holder goes on.  A turn  *)
(* taken over while it finalizes ends the way its attempt did.             *)
AttemptOutcome(a) ==
    CASE a.status = "completed" -> "completed"
      [] a.status \in {"interrupted", "superseded", "lost"} -> "interrupted"
      [] OTHER -> "failed"
Load(h) ==
    /\ holder[h].pc = "load" /\ May(h)
    /\ LET t == holder[h].turn
           n == Len(attempt[t])
           at(pc) == [holder EXCEPT ![h].pc = pc, ![h].n = n]
       IN  \/ /\ turn[t].status = "preparing"
              /\ holder' = at("attempt")
           \/ /\ turn[t].status = "running"
              /\ holder' = at("attach")
           \/ /\ turn[t].status = "finalizing"
              /\ holder' = [at("settle") EXCEPT
                              ![h].outcome = AttemptOutcome(attempt[t][n])]
    /\ UNCHANGED <<session, turn, item, sent, attempt, command, runner, acts, faults>>

(* Mutant of PutActive: the write of a holder that read the turn earlier.  *)
PutActiveStale(t, status) == [turn EXCEPT ![t].status = status]

(* A turn's status as an engine's write leaves it (currentTurns): a settled *)
(* turn is never put back to work, and a stop is never withdrawn.           *)
PutActive(t, status) ==
    [turn EXCEPT ![t].status = IF @ \in Settled THEN @ ELSE status]

(* prepareAndLaunch, 1: a new attempt, or the one whose preparation died.  *)
BeginAttempt(h) ==
    /\ holder[h].pc = "attempt" /\ May(h)
    /\ LET t == holder[h].turn
           n == Len(attempt[t])
           died == n > 0 /\ attempt[t][n].status = "preparing"
       IN  \/ /\ died
              /\ UNCHANGED <<turn, attempt>>
              /\ holder' = [holder EXCEPT ![h].pc = "prepare", ![h].n = n]
           \/ /\ ~died
              /\ attempt' = [attempt EXCEPT ![t] = Append(@, NewAttempt)]
              /\ turn' = [PutActive(t, "preparing") EXCEPT
                            ![t].tries = turn[t].tries + 1]
              /\ holder' = [holder EXCEPT ![h].pc = "prepare", ![h].n = n + 1,
                                          ![h].inflight = FALSE]
    /\ UNCHANGED <<session, item, sent, command, runner, acts, faults>>

(* Mutant of AttemptInput: what an earlier attempt read is given again.    *)
AttemptInputAll(t, n, continuing) == SteeredItems(t)

(* attemptInput: steered messages that no attempt whose harness began the  *)
(* turn took in; on a thread that starts with this attempt, all of them.   *)
AttemptInput(t, n, continuing) ==
    SteeredItems(t)
    \ UNION {ConsumedBy(attempt[t][i]) : i \in
               {j \in DOMAIN attempt[t] : /\ continuing /\ j # n
                                          /\ attempt[t][j].runner # None
                                          /\ attempt[t][j].runner.started}}

(* prepareAndLaunch, 2: a thread is bound, the one recorded for the        *)
(* harness or a fresh one, and the workspace prepared; a stop made         *)
(* meanwhile ends the turn, otherwise its input is read.                   *)
Prepare(h) ==
    /\ holder[h].pc = "prepare" /\ May(h)
    /\ LET t == holder[h].turn
           continuing == session.harness \in session.named
       IN  \/ /\ turn[t].stop
              /\ holder' = [holder EXCEPT ![h].pc = "refuse",
                                          ![h].outcome = "interrupted"]
           \/ /\ ~turn[t].stop
              /\ holder' = [holder EXCEPT
                    ![h].pc = "launch",
                    ![h].mem = RunnerState(Len(runner[t]) + 1, session.harness, continuing,
                                           AttemptInput(t, holder[h].n, continuing))]
    /\ UNCHANGED <<session, turn, item, sent, attempt, command, runner, acts, faults>>

(* The agent's harness is unavailable, or the chat waited too long for a   *)
(* machine: the turn fails with that.                                      *)
Refuse(h) ==
    /\ Fault("refuse")
    /\ holder[h].pc = "prepare" /\ May(h)
    /\ holder' = [holder EXCEPT ![h].pc = "refuse", ![h].outcome = "failed"]
    /\ UNCHANGED <<session, turn, item, sent, attempt, command, runner, acts>>

(* prepareAndLaunch, 3: a runner is up, and recorded with what its prompt  *)
(* carries.                                                                *)
Launch(h) ==
    /\ holder[h].pc = "launch" /\ May(h)
    /\ LET t == holder[h].turn
           mem == [holder[h].mem EXCEPT !.at = Len(runner[t]) + 1]
       IN  /\ runner' = [runner EXCEPT ![t] = Append(@, NewRunner)]
           /\ attempt' = [attempt EXCEPT ![t][holder[h].n] =
                            [@ EXCEPT !.status = "running", !.runner = mem]]
           /\ turn' = PutActive(t, "running")
           /\ holder' = [holder EXCEPT ![h].pc = "start", ![h].mem = mem,
                                       ![h].chan = mem.at, ![h].inflight = FALSE]
    /\ UNCHANGED <<session, item, sent, command, acts, faults>>

(* prepareAndLaunch, 4: its start is sent.                                 *)
Start(h) ==
    /\ holder[h].pc = "start"
    /\ LET t == holder[h].turn
           c == holder[h].chan
       IN  /\ runner[t][c].phase # "gone"
           /\ runner' = [runner EXCEPT ![t][c].phase = IF @ = "up" THEN "told" ELSE @]
           /\ holder' = [holder EXCEPT ![h].pc = "pump"]
    /\ UNCHANGED <<session, turn, item, sent, attempt, command, acts, faults>>

(* The machine cannot be reached: the turn is handed back as it is.        *)
Disconnected(h) ==
    /\ holder[h].pc \in {"start", "pump"}
    /\ LET t == holder[h].turn
       IN  /\ runner[t][holder[h].chan].phase = "gone"
           /\ turn' = IF turn[t].token = h THEN [turn EXCEPT ![t].live = FALSE]
                      ELSE turn
    /\ holder' = [holder EXCEPT ![h] = Idle]
    /\ UNCHANGED <<session, item, sent, attempt, command, runner, acts, faults>>

(* Mutant of Killed: nobody kills it.                                      *)
KilledNot(t, c) == {runner}

(* The kill of a channel: the runner goes away, or the signal is lost and  *)
(* nobody hears of it, for the error is swallowed.                         *)
Killed(t, c) ==
    {[runner EXCEPT ![t][c].phase = "gone"], [runner EXCEPT ![t][c].left = TRUE]}

(* pump, taken over: the recorded runner is found again, with what was     *)
(* sent and not acknowledged sent again.  One that never got its start, or *)
(* went away before its harness began the turn, is prepared again; one     *)
(* that went away later is lost.                                           *)
Attach(h) ==
    /\ holder[h].pc = "attach" /\ May(h)
    /\ LET t == holder[h].turn
           mem == attempt[t][holder[h].n].runner
           r == runner[t][mem.at]
           unheard == r.phase \in {"up", "told"} /\ mem.cursor = 0 /\ r.out = <<>>
           open == {m \in Messages : <<"steer", m>> \in command[t]}
           goes(pc) == [holder EXCEPT ![h].pc = pc, ![h].mem = mem]
       IN  \/ /\ mem = None \/ (mem # None /\ r.phase = "gone")
              /\ holder' = goes(IF mem # None /\ ~mem.started THEN "again" ELSE "lose")
              /\ UNCHANGED runner
           \/ /\ mem # None /\ unheard
              /\ runner' \in Killed(t, mem.at)
              /\ holder' = goes("again")
           \/ /\ mem # None /\ r.phase # "gone" /\ ~(unheard /\ r.phase = "up")
              /\ runner' = [runner EXCEPT ![t][mem.at].inbox =
                              @ \cup (open \ mem.consumed)]
              /\ holder' = [goes("pump") EXCEPT ![h].chan = mem.at]
    /\ UNCHANGED <<session, turn, item, sent, attempt, command, acts, faults>>

(* prepareAgain: the same attempt from the start, its runner forgotten.    *)
PrepareAgain(h) ==
    /\ holder[h].pc = "again" /\ May(h)
    /\ LET t == holder[h].turn
       IN  /\ attempt' = [attempt EXCEPT ![t][holder[h].n] =
                            [@ EXCEPT !.status = "preparing", !.runner = None]]
           /\ turn' = PutActive(t, "preparing")
    /\ holder' = [holder EXCEPT ![h].pc = "attempt", ![h].mem = None,
                                ![h].chan = 0, ![h].inflight = FALSE]
    /\ UNCHANGED <<session, item, sent, command, runner, acts, faults>>

-----------------------------------------------------------------------------
(* The engine: commands out, frames in                                     *)

(* Commands with nobody left to reach: a message the attempt has, a stop   *)
(* for a message that was read or for an earlier attempt.                  *)
Moot(h, c) ==
    \/ c[1] \in {"steer", "restart"} /\ c[2] \in holder[h].mem.consumed
    \/ c[1] = "restart" /\ c[3] # holder[h].n

(* sendCommands, when some command has not reached this runner yet.        *)
SendCommands(h) ==
    /\ holder[h].pc = "pump" /\ May(h)
    /\ LET t == holder[h].turn
           r == runner[t][holder[h].chan]
           moot == {c \in command[t] : Moot(h, c)}
           open == command[t] \ moot
           steers == {m \in Messages : <<"steer", m>> \in open} \ r.seen
           asks == \E c \in open : c[1] = "restart"
           halts == asks \/ <<"interrupt">> \in open
       IN  /\ r.phase # "gone"
           /\ \/ moot # {}
              \/ /\ r.phase \in {"told", "began"}
                 /\ ~(steers \subseteq r.inbox) \/ (halts /\ ~r.halt)
           /\ command' = [command EXCEPT ![t] = open]
           /\ runner' = [runner EXCEPT ![t][holder[h].chan] =
                           [r EXCEPT !.inbox = @ \cup steers, !.halt = @ \/ halts]]
           /\ attempt' = [attempt EXCEPT ![t][holder[h].n].asked = @ \/ asks]
    /\ UNCHANGED <<session, turn, item, sent, holder, acts, faults>>

(* applyFrames: the next frame is recorded with the cursor that read it.   *)
(* pump sends commands before it first reads, so a steer the prompt        *)
(* carried is dropped by then.                                             *)
Apply(h) ==
    /\ holder[h].pc = "pump" /\ May(h)
    /\ LET t == holder[h].turn
           mem == holder[h].mem
           r == runner[t][holder[h].chan]
           f == r.out[mem.cursor + 1]
           now == [mem EXCEPT !.cursor = @ + 1,
                              !.started = @ \/ f[1] = "began",
                              !.consumed = IF f[1] = "took" THEN @ \cup {f[2]} ELSE @]
       IN  /\ r.phase # "gone" /\ mem.cursor < Len(r.out)
           /\ ~\E m \in mem.consumed : <<"steer", m>> \in command[t]
           /\ command' = [command EXCEPT ![t] =
                IF f[1] = "ack" THEN @ \ {<<"steer", f[2]>>} ELSE @]
           /\ attempt' = [attempt EXCEPT ![t][holder[h].n] =
                [attempt[t][holder[h].n] EXCEPT
                    !.runner = now,
                    !.status = IF f[1] # "end" THEN @
                               ELSE IF f[2] = "transient" THEN "failed" ELSE f[2]]]
           /\ holder' = [holder EXCEPT ![h] =
                [holder[h] EXCEPT
                    !.mem = now, !.inflight = FALSE,
                    !.pc = CASE f[1] = "end" -> "ended"
                             [] f[1] = "refused" -> "refused"
                             [] OTHER -> @,
                    !.outcome = IF f[1] \in {"end", "refused"} THEN f[2] ELSE @]]
           /\ session' = IF f[1] = "began" /\ f[2]
                         THEN [session EXCEPT !.named = @ \cup {mem.harness}] ELSE session
    /\ UNCHANGED <<turn, item, sent, runner, acts, faults>>

(* A person's message the harness refused: the attempt is stopped, to      *)
(* start again with it.                                                    *)
RestartWith(h) ==
    /\ holder[h].pc = "refused" /\ May(h)
    /\ LET t == holder[h].turn
           now == [holder[h].mem EXCEPT !.restartWith = @ \cup {holder[h].outcome}]
       IN  /\ attempt' = [attempt EXCEPT ![t][holder[h].n].runner = now]
           /\ command' = [command EXCEPT ![t] = @ \cup {<<"interrupt">>}]
           /\ holder' = [holder EXCEPT ![h] =
                [@ EXCEPT !.pc = "pump", !.mem = now, !.outcome = None,
                          !.inflight = FALSE]]
    /\ UNCHANGED <<session, turn, item, sent, runner, acts, faults>>

(* The attempt ended interrupted because it is to start again.             *)
Restarts(h) ==
    /\ holder[h].pc = "ended"
    /\ holder[h].outcome = "interrupted"
    /\ \/ holder[h].mem.restartWith # {}
       \/ attempt[holder[h].turn][holder[h].n].asked
Restart(h) ==
    /\ Restarts(h) /\ May(h)
    /\ LET t == holder[h].turn
       IN  /\ ~turn[t].stop
           /\ attempt' = [attempt EXCEPT ![t][holder[h].n].status = "superseded"]
           /\ command' = [command EXCEPT ![t] = {}]
           /\ turn' = PutActive(t, "preparing")
    /\ holder' = [holder EXCEPT ![h] =
            [Idle EXCEPT !.pc = "attempt", !.turn = holder[h].turn]]
    /\ UNCHANGED <<session, item, sent, runner, acts, faults>>

(* retryFailure: the host knows the failure is passing, and no attempt of  *)
(* the turn failed before: one more attempt after a pause.  An interrupt   *)
(* that the runner acknowledged is not sent to the next one.               *)
RetryFailure(h) ==
    /\ holder[h].pc = "ended" /\ holder[h].outcome = "failed" /\ May(h)
    /\ LET t == holder[h].turn
       IN  /\ ~turn[t].stop
           /\ \A i \in DOMAIN attempt[t] : attempt[t][i].status = "failed" => i = holder[h].n
           /\ turn' = PutActive(t, "preparing")
           /\ command' = [command EXCEPT ![t] =
                IF runner[t][holder[h].chan].halt THEN @ \ {<<"interrupt">>} ELSE @]
    /\ holder' = [holder EXCEPT ![h].pc = "waits", ![h].inflight = FALSE]
    /\ UNCHANGED <<session, item, sent, attempt, runner, acts, faults>>

(* The pause is over, or a stop ended it: a person's, or that of the       *)
(* process.                                                                *)
RetryFailureDue(h) ==
    /\ holder[h].pc = "waits" /\ May(h)
    /\ LET t == holder[h].turn
       IN  \/ /\ turn[t].stop \/ "stop" \in faults
              /\ holder' = [holder EXCEPT ![h].pc = "killed", ![h].outcome = "interrupted"]
           \/ /\ ~turn[t].stop
              /\ holder' = [holder EXCEPT ![h] = [Idle EXCEPT !.pc = "attempt", !.turn = t]]
    /\ UNCHANGED <<session, turn, item, sent, attempt, command, runner, acts, faults>>

(* A harness that ignores its interrupt for INTERRUPT_GRACE_MS is killed.  *)
Kill(h) ==
    /\ Fault("deaf")
    /\ holder[h].pc = "pump" /\ May(h)
    /\ LET t == holder[h].turn
           c == holder[h].chan
       IN  /\ runner[t][c].halt /\ runner[t][c].phase \in {"told", "began"}
           /\ runner' \in Killed(t, c)
    /\ holder' = [holder EXCEPT ![h].pc = "killed", ![h].outcome = "interrupted"]
    /\ UNCHANGED <<session, turn, item, sent, attempt, command, acts>>

(* The runner exited and everything it said was read: the turn is lost.    *)
Exited(h) ==
    /\ holder[h].pc = "pump" /\ May(h)
    /\ LET r == runner[holder[h].turn][holder[h].chan]
       IN  r.phase = "exited" /\ holder[h].mem.cursor = Len(r.out)
    /\ holder' = [holder EXCEPT ![h].pc = "lose"]
    /\ UNCHANGED <<session, turn, item, sent, attempt, command, runner, acts, faults>>

(* Nobody in this process reaches the runners of t that are at work.       *)
Abandoned(t) ==
    [runner EXCEPT ![t] = [c \in DOMAIN runner[t] |->
        [runner[t][c] EXCEPT !.left = @ \/ runner[t][c].phase \in {"up", "told", "began"}]]]

(* failUnexpectedly: a step threw, at any place.  The turn is to fail with *)
(* the attempt that is recorded for it.  A runner this holder has a        *)
(* channel to is told to stop, which may go unheard; one it has taken over *)
(* and not found again is left to itself.                                  *)
FailUnexpectedly(h) ==
    /\ Fault("error")
    /\ Owns(h)
    /\ LET t == holder[h].turn
           n == Len(attempt[t])
           found == holder[h].pc = "attach" /\ attempt[t][n].runner # None
           c == IF found THEN attempt[t][n].runner.at ELSE holder[h].chan
       IN  /\ \/ c # 0 /\ runner' = [runner EXCEPT ![t][c].phase = "gone"]
              \/ runner' = Abandoned(t)
           /\ holder' = [holder EXCEPT ![h] =
                [@ EXCEPT !.pc = "settle", !.n = n, !.outcome = "failed"]]
    /\ UNCHANGED <<session, turn, item, sent, attempt, command, acts>>

-----------------------------------------------------------------------------
(* The engine: settling                                                    *)

(* finalize: the turn saves its changes, and settles after.                *)
Finalize(h) ==
    /\ holder[h].pc \in {"ended", "killed"} /\ May(h)
    /\ ~Restarts(h) \/ turn[holder[h].turn].stop
    /\ turn' = PutActive(holder[h].turn, "finalizing")
    /\ holder' = [holder EXCEPT ![h].pc = "settle", ![h].inflight = FALSE]
    /\ UNCHANGED <<session, item, sent, attempt, command, runner, acts, faults>>

FinalizeFails(h) ==
    /\ Fault("finalize")
    /\ holder[h].pc = "settle" /\ turn[holder[h].turn].status = "finalizing"
    /\ holder' = [holder EXCEPT ![h].outcome = "failed"]
    /\ UNCHANGED <<session, turn, item, sent, attempt, command, runner, acts>>

(* Mutant of SettledStatus: a stop made meanwhile is not looked at.        *)
SettledStatusRetrying(t, outcome) ==
    CASE outcome # "transient" -> outcome
      [] turn[t].tries >= MaxTries -> "failed"
      [] OTHER -> "queued"

(* How a turn ends: a passing failure is tried again later, unless it was  *)
(* tried often enough or a person stopped it.                              *)
SettledStatus(t, outcome) ==
    CASE outcome # "transient" -> outcome
      [] turn[t].tries >= MaxTries -> "failed"
      [] turn[t].stop -> "interrupted"
      [] OTHER -> "queued"

(* settle.  A turn refused or stopped while it prepared leaves its         *)
(* attempt's row as it is.                                                 *)
Settle(h) ==
    /\ holder[h].pc \in {"settle", "refuse"} /\ May(h)
    /\ LET t == holder[h].turn
           status == SettledStatus(t, holder[h].outcome)
           ends == IF status = "queued" THEN {} ELSE {t}
           closed == [turn EXCEPT ![t] =
                [@ EXCEPT !.status = status, !.stop = FALSE,
                          !.due = holder[h].outcome # "transient",
                          !.token = None, !.live = FALSE]]
       IN  /\ turn' = RequeueSteers(closed, ends)
           /\ item' = RequeuedItems(ends)
           /\ command' = [command EXCEPT ![t] = {}]
           /\ attempt' = IF holder[h].pc = "refuse" THEN attempt
                         ELSE IF holder[h].n = 0
                         THEN [attempt EXCEPT ![t] = Append(@, [NewAttempt EXCEPT !.status = "failed"])]
                         ELSE [attempt EXCEPT ![t][holder[h].n].status =
                                IF @ \notin {"preparing", "running"} THEN @
                                ELSE IF holder[h].outcome = "transient" THEN "failed"
                                ELSE holder[h].outcome]
    /\ holder' = [holder EXCEPT ![h] = Idle]
    /\ UNCHANGED <<session, sent, runner, acts, faults>>

(* lose: the attempt is lost and its turn interrupted; with nothing newer  *)
(* to do, the turn is continued, once, by one that follows it, if its      *)
(* thread is recorded, the harness recovers by continuing and the session  *)
(* is active.                                                              *)
Lose(h) ==
    /\ holder[h].pc = "lose" /\ May(h)
    /\ Continuation(holder[h].turn) \in TurnIds     \* bound
    /\ \E able \in BOOLEAN :
       LET t == holder[h].turn
           next == Continuation(t)
           continues == /\ able /\ holder[h].mem # None
                        /\ holder[h].mem.harness \in session.named
                        /\ Unread(t) = {} /\ ~turn[t].stop
                        /\ \A u \in TurnIds : turn[u].ord <= turn[t].ord
                        /\ turn[next].status = "none"
           closed == [turn EXCEPT ![t] =
                [@ EXCEPT !.status = "interrupted", !.stop = FALSE,
                          !.token = None, !.live = FALSE]]
       IN  /\ turn' = IF continues
                      THEN [closed EXCEPT ![next] = NewTurn(turn[t].ord + 1, 0)]
                      ELSE RequeueSteers(closed, {t})
           /\ item' = RequeuedItems({t})
           /\ command' = [command EXCEPT ![t] = {}]
           /\ attempt' = [attempt EXCEPT ![t][holder[h].n].status = "lost"]
    /\ holder' = [holder EXCEPT ![h] = Idle]
    /\ UNCHANGED <<session, sent, runner, acts, faults>>

Finalizes(h) ==
    \/ turn[holder[h].turn].status = "finalizing"
    \/ holder[h].pc \in {"ended", "killed"} /\ ~Restarts(h)

(* stop: hand the turn back, unless it finalizes, or ask its runner to     *)
(* stop and settle here.                                                   *)
Stop(h) ==
    /\ Fault("stop")
    /\ Owns(h)
    /\ LET t == holder[h].turn
       IN  \/ /\ ~Finalizes(h)
              /\ turn' = [turn EXCEPT ![t].live = FALSE]
              /\ holder' = [holder EXCEPT ![h] =
                               IF @.pc = "start" THEN @ ELSE Idle]
              /\ UNCHANGED command
           \/ /\ command' = [command EXCEPT ![t] = @ \cup {<<"interrupt">>}]
              /\ UNCHANGED <<turn, holder>>
    /\ UNCHANGED <<session, item, sent, attempt, runner, acts>>

-----------------------------------------------------------------------------
(* The runner and its harness (external)                                   *)

HarnessSays(t, c, frame) == [runner[t][c] EXCEPT !.out = Append(@, frame)]

(* The harness begins the turn: the prompt is on its thread, which it      *)
(* names, if it ever does, by then.                                        *)
HarnessBegins(t, c) ==
    /\ runner[t][c].phase = "told"
    /\ \E named \in BOOLEAN :
         /\ runner' = [runner EXCEPT ![t][c] =
                        [HarnessSays(t, c, <<"began", named>>) EXCEPT !.phase = "began"]]
         /\ IF named THEN UNCHANGED faults ELSE Fault("nameless")

(* A steer is acknowledged, or refused; a command id the runner has seen   *)
(* is acknowledged again the same way and otherwise ignored.               *)
HarnessAcks(t, c) ==
    /\ runner[t][c].phase = "began"
    /\ \E m \in runner[t][c].inbox :
         LET again == m \in runner[t][c].seen
             says(kind) == [HarnessSays(t, c, <<kind, m>>) EXCEPT
                              !.inbox = @ \ {m}, !.seen = @ \cup {m}]
         IN  \/ /\ m \notin runner[t][c].refused
                /\ runner' = [runner EXCEPT ![t][c] = says("ack")]
                /\ UNCHANGED faults
             \/ /\ IF again THEN m \in runner[t][c].refused /\ UNCHANGED faults
                   ELSE Fault("unsteerable")
                /\ runner' = [runner EXCEPT ![t][c] =
                                [says("refused") EXCEPT !.refused = @ \cup {m}]]

(* The agent reads a steered message at its next step.                     *)
HarnessTakes(t, c) ==
    /\ runner[t][c].phase = "began"
    /\ \E m \in runner[t][c].seen \ (runner[t][c].refused \cup runner[t][c].taken) :
         runner' = [runner EXCEPT ![t][c] =
                     [HarnessSays(t, c, <<"took", m>>) EXCEPT !.taken = @ \cup {m}]]

(* It ends: it finished, was stopped, or failed, for good or for now; the  *)
(* runner exits after it, and what it said can still be read.              *)
HarnessEnds(t, c, how) ==
    /\ runner[t][c].phase \in {"told", "began"}
    /\ runner' = [runner EXCEPT ![t][c] =
                    [HarnessSays(t, c, <<"end", how>>) EXCEPT !.phase = "exited"]]
    /\ \/ how = "completed" /\ runner[t][c].phase = "began" /\ UNCHANGED faults
       \/ how = "interrupted" /\ runner[t][c].halt /\ UNCHANGED faults
       \/ how \in {"failed", "transient"} /\ Fault(how)

(* Its process dies, or its whole machine goes away.                       *)
RunnerStops(t, c) ==
    \/ /\ Fault("exit")
       /\ runner[t][c].phase \in {"up", "told", "began"}
       /\ runner' = [runner EXCEPT ![t][c].phase = "exited"]
    \/ /\ Fault("vanish")
       /\ runner[t][c].phase \in {"up", "told", "began"}
       /\ runner' = [runner EXCEPT ![t][c].phase = "gone"]

Harness(t, c) ==
    /\ \/ HarnessTakes(t, c) /\ UNCHANGED faults
       \/ HarnessBegins(t, c) \/ HarnessAcks(t, c)
       \/ \E how \in {"completed", "interrupted", "failed", "transient"} :
            HarnessEnds(t, c, how)
       \/ RunnerStops(t, c)
    /\ UNCHANGED <<session, turn, item, sent, attempt, command, holder, acts>>

-----------------------------------------------------------------------------
(* What a holder does when nothing goes wrong, and what may.               *)
Drive(h) ==
    \/ Claim(h) \/ Leave(h) \/ Load(h) \/ BeginAttempt(h) \/ Prepare(h)
    \/ Launch(h) \/ Start(h) \/ Disconnected(h) \/ Attach(h) \/ PrepareAgain(h)
    \/ SendCommands(h) \/ Apply(h) \/ RestartWith(h) \/ Restart(h)
    \/ RetryFailure(h) \/ RetryFailureDue(h)
    \/ Exited(h) \/ Finalize(h) \/ Settle(h) \/ Lose(h)
GoesWrong(h) ==
    \/ Crash(h) \/ Stall(h) \/ Stop(h) \/ Refuse(h) \/ Kill(h)
    \/ FailUnexpectedly(h) \/ FinalizeFails(h)

Next ==
    \/ People
    \/ \E t \in TurnIds : Lapse(t) \/ FallsDue(t)
    \/ \E h \in Holders : Drive(h) \/ GoesWrong(h)
    \/ \E t \in TurnIds : \E c \in DOMAIN runner[t] : Harness(t, c)

Spec == Init /\ [][Next]_vars

(* What the system does by itself: drainSession claims and drives, leases  *)
(* lapse, retries fall due, and a harness that was started ends.           *)
Proceed ==
    \/ \E h \in Holders : Drive(h)
    \/ \E t \in TurnIds : Lapse(t) \/ FallsDue(t)
    \/ \E t \in TurnIds : \E c \in DOMAIN runner[t] :
         Harness(t, c) /\ UNCHANGED faults
FairSpec == Spec /\ WF_vars(Proceed)

-----------------------------------------------------------------------------
(* Types                                                                   *)

Commands == {<<"interrupt">>} \cup ({"steer"} \X Messages)
            \cup ({"restart"} \X Messages \X Nat)
Outcomes == {"completed", "failed", "interrupted", "transient"}
RunnerStates == [at : Nat, harness : Harnesses, continuing : BOOLEAN, cursor : Nat, started : BOOLEAN,
                 consumed : SUBSET Messages, restartWith : SUBSET Messages]
ASSUME NoneAssumption == None \notin Messages \X Nat /\ None \notin RunnerStates
Phases == {"up", "told", "began", "exited", "gone"}

TypeOK ==
    /\ session \in [harness : Harnesses, named : SUBSET Harnesses]
    /\ turn \in [TurnIds -> [status : Statuses, ord : Nat, prio : {0, 1},
                             tries : Nat, due : BOOLEAN, fresh : BOOLEAN,
                             stop : BOOLEAN, token : Holders \cup {None},
                             live : BOOLEAN]]
    /\ item \in [Messages -> TurnIds \cup {None}]
    /\ sent \in Seq(Messages)
    /\ \A t \in TurnIds :
         /\ \A i \in DOMAIN attempt[t] :
              /\ attempt[t][i].status \in {"preparing", "running", "superseded",
                                           "lost"} \cup (Outcomes \ {"transient"})
              /\ attempt[t][i].runner \in RunnerStates \cup {None}
         /\ command[t] \subseteq Commands
         /\ \A c \in DOMAIN runner[t] : runner[t][c].phase \in Phases
         (* Only a turn that works is leased, and only one works at a time. *)
         /\ turn[t].live => turn[t].status \in Active
    /\ Cardinality(ActiveTurns) <= 1
    /\ \A h \in Holders :
         /\ holder[h].turn \in TurnIds \cup {None}
         /\ holder[h].mem \in RunnerStates \cup {None}
         /\ holder[h].outcome \in Outcomes \cup Messages \cup {None}
    /\ acts \in 0 .. MaxActs
    /\ faults \subseteq Faults

-----------------------------------------------------------------------------
(* Properties                                                              *)

(* No transaction outlived the lease it was begun under.  The engine asks   *)
(* owns before it takes the session's lock and never after, so a stalled    *)
(* one writes over its successor's work: the properties below are about     *)
(* behaviours without one, unless they say otherwise.                       *)
Timely == "stall" \notin faults

(* A person's message is never dropped (requeueSteers): a message that was *)
(* sent is a turn of its own, or is with a turn that still works, or was   *)
(* read by an attempt of the turn it joined, however that turn ended.      *)
(* Cancelling a queued turn is another matter: see MessagesNeverDropped.   *)
SteersKept ==
    Timely => \A m \in ToSet(sent) :
        LET t == item[m]
        IN  IF t = Own(m) THEN turn[t].status # "none"
            ELSE turn[t].status \in {"completed", "failed", "interrupted"}
                    => m \notin Unread(t)

(* The same of every turn that settled, a cancelled one included.          *)
MessagesNeverDropped ==
    \A t \in TurnIds : turn[t].status \in Settled => Unread(t) = {}

(* A steered message belongs to the turn that read it, and is read once on *)
(* a thread, through restarts, takeovers and retries: an attempt that      *)
(* continues a thread does not read what an earlier attempt of its turn    *)
(* did.  One on a thread of its own is given all of it again               *)
(* (attemptInput: "one bound fresh ... holds nothing of the turn").        *)
ReadBy(t, m) == {i \in DOMAIN attempt[t] :
                    /\ attempt[t][i].runner # None
                    /\ attempt[t][i].runner.started
                    /\ m \in attempt[t][i].runner.consumed}
ReadOnce ==
    Timely =>
        \A m \in Messages : \A t \in TurnIds \ {Own(m)} :
            /\ ReadBy(t, m) # {} => item[m] = t
            /\ \A i, j \in ReadBy(t, m) : i < j => ~attempt[t][j].runner.continuing

(* No harness works unwatched: one that was started and has not ended      *)
(* belongs to a turn that works, and is the runner its last attempt        *)
(* records, so two never work on a session's files.  The exception is one  *)
(* that was left: its kill was lost, or its turn failed unexpectedly       *)
(* before the holder that took it over had found its runner again.         *)
HarnessAccounted ==
    Timely =>
        \A t \in TurnIds : \A c \in DOMAIN runner[t] :
            runner[t][c].phase \in {"told", "began"} /\ ~runner[t][c].left =>
                /\ turn[t].status = "running"
                /\ Last(attempt[t]).runner # None
                /\ Last(attempt[t]).runner.at = c

(* A person's stop stands: it ends the turn, and is neither withdrawn by a *)
(* holder that had read the turn before nor outlived by a retry, even when *)
(* a transaction stalls.                                                   *)
StopStands ==
    [][\A t \in TurnIds :
            turn[t].stop => (turn'[t].stop \/ turn'[t].status \in Settled)]_vars

(* A settled turn keeps its outcome until a person retries it.  Not even a *)
(* stalled transaction puts it back to work (currentTurns), though its     *)
(* settle may overwrite the outcome.                                       *)
SettledIsFinal ==
    [][\A t \in TurnIds : turn[t].status \in Settled =>
        /\ turn'[t].status \notin Active
        /\ Timely => \/ turn'[t].status = turn[t].status
                     \/ turn'[t].status = "queued" /\ acts' # acts]_vars

(* Every turn that is due or works settles, or is held by its author,      *)
(* whatever crashed, stalled or failed on the way.                         *)
TurnsSettle ==
    \A t \in TurnIds :
        turn[t].status \in {"queued"} \cup Active
            ~> turn[t].status \in Settled \cup {"held"}
=============================================================================
