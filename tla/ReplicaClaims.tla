--------------------------- MODULE ReplicaClaims ---------------------------
(***************************************************************************)
(* withReplicaClaim (replica-claims.ts): calls in several processes run an *)
(* operation under one named claim, a row of replica_claims that expires   *)
(* Ttl after it was last taken or renewed.  A statement runs in the        *)
(* database at one moment and its answer arrives at another; a call stops  *)
(* its work by a timer of its own.                                         *)
(*                                                                         *)
(* Clocks run at one rate, and a timer fires on time: the events of an     *)
(* instant come after the timers that are due at it.                       *)
(***************************************************************************)
EXTENDS Integers

CONSTANTS
    Calls,      \* calls of withReplicaClaim; each has a holder id of its own
    NoCall,
    Ttl,        \* ttlSeconds
    MaxTime     \* bound: the last instant

ASSUME CallsAssumption == NoCall \notin Calls
ASSUME TimeAssumption == Ttl \in Nat \ {0} /\ MaxTime \in Nat

VARIABLES
    now,
    holder,     \* the row's holder, NoCall if there is no row
    expires,    \* the row's expires_at
    call,       \* call[c]: where c is
    deadline,   \* deadline[c]: when c's expiry timer fires
    renewed,    \* history: renewed[c], the timer was set by a renewal
    renewing,   \* renewing[c]: c's renewal in flight
    dispatched  \* dispatched[c]: when that renewal was sent

vars == <<now, holder, expires, call, deadline, renewed, renewing, dispatched>>

TypeOK ==
    /\ now \in Nat
    /\ holder \in Calls \cup {NoCall}
    /\ expires \in Nat
    /\ call \in [Calls -> {"waiting", "taken", "working", "ending", "done"}]
    /\ deadline \in [Calls -> Nat]
    /\ renewed \in [Calls -> BOOLEAN]
    /\ renewing \in [Calls -> {"none", "sent", "held", "refused"}]
    /\ dispatched \in [Calls -> Nat]

Init ==
    /\ now = 0
    /\ holder = NoCall
    /\ expires = 0
    /\ call = [c \in Calls |-> "waiting"]
    /\ deadline = [c \in Calls |-> 0]
    /\ renewed = [c \in Calls |-> FALSE]
    /\ renewing = [c \in Calls |-> "none"]
    /\ dispatched = [c \in Calls |-> 0]

(* takeReplicaClaim runs and finds the claim free or lapsed.               *)
TakeReplicaClaim(c) ==
    /\ call[c] = "waiting"
    /\ holder = NoCall \/ expires <= now
    /\ holder' = c
    /\ expires' = now + Ttl
    /\ call' = [call EXCEPT ![c] = "taken"]
    /\ UNCHANGED <<now, deadline, renewed, renewing, dispatched>>

(* The claim is held and the wait is over: ReplicaClaimBusyError.          *)
Busy(c) ==
    /\ call[c] = "waiting"
    /\ holder # NoCall /\ expires > now
    /\ call' = [call EXCEPT ![c] = "done"]
    /\ UNCHANGED <<now, holder, expires, deadline, renewed, renewing, dispatched>>

(* The answer of the take arrives: the timer is set and the work starts.   *)
StartWork(c) ==
    /\ call[c] = "taken"
    /\ call' = [call EXCEPT ![c] = "working"]
    /\ deadline' = [deadline EXCEPT ![c] = now + Ttl]
    /\ UNCHANGED <<now, holder, expires, renewed, renewing, dispatched>>

(* The interval fires: a renewal is sent unless one is in flight.          *)
SendRenewal(c) ==
    /\ call[c] = "working"
    /\ renewing[c] = "none"
    /\ renewing' = [renewing EXCEPT ![c] = "sent"]
    /\ dispatched' = [dispatched EXCEPT ![c] = now]
    /\ UNCHANGED <<now, holder, expires, call, deadline, renewed>>

(* renewReplicaClaim runs.                                                 *)
RenewReplicaClaim(c) ==
    LET held == holder = c /\ expires > now
    IN  /\ renewing[c] = "sent"
        /\ renewing' = [renewing EXCEPT ![c] = IF held THEN "held" ELSE "refused"]
        /\ expires' = IF held THEN now + Ttl ELSE expires
        /\ UNCHANGED <<now, holder, call, deadline, renewed, dispatched>>

(* Mutant: the timer starts when the answer arrives.                       *)
RenewalAnswersLate(c) ==
    LET live == renewing[c] = "held" /\ call[c] = "working"
    IN  /\ renewing[c] \in {"held", "refused"}
        /\ renewing' = [renewing EXCEPT ![c] = "none"]
        /\ deadline' = [deadline EXCEPT ![c] = IF live THEN now + Ttl ELSE @]
        /\ renewed' = [renewed EXCEPT ![c] = @ \/ live]
        /\ call' = [call EXCEPT ![c] = IF @ = "working" /\ ~live THEN "ending" ELSE @]
        /\ UNCHANGED <<now, holder, expires, dispatched>>

(* The renewal's answer arrives: the timer is set again, measured from the *)
(* dispatch, and fires at once if that is past; a refusal loses the claim. *)
RenewalAnswers(c) ==
    LET until == dispatched[c] + Ttl
        live == renewing[c] = "held" /\ call[c] = "working" /\ until > now
    IN  /\ renewing[c] \in {"held", "refused"}
        /\ renewing' = [renewing EXCEPT ![c] = "none"]
        /\ deadline' = [deadline EXCEPT ![c] = IF live THEN until ELSE @]
        /\ renewed' = [renewed EXCEPT ![c] = @ \/ live]
        /\ call' = [call EXCEPT ![c] = IF @ = "working" /\ ~live THEN "ending" ELSE @]
        /\ UNCHANGED <<now, holder, expires, dispatched>>

(* The renewal fails, before or after it ran, and is only logged.          *)
RenewalThrows(c) ==
    /\ renewing[c] # "none"
    /\ renewing' = [renewing EXCEPT ![c] = "none"]
    /\ UNCHANGED <<now, holder, expires, call, deadline, renewed, dispatched>>

EndWork(c) ==
    /\ call[c] = "working"
    /\ call' = [call EXCEPT ![c] = "ending"]
    /\ UNCHANGED <<now, holder, expires, deadline, renewed, renewing, dispatched>>

(* The finally block: no renewal is in flight when the claim is given back; *)
(* the release may fail.                                                   *)
ReleaseReplicaClaim(c) ==
    /\ call[c] = "ending"
    /\ renewing[c] = "none"
    /\ call' = [call EXCEPT ![c] = "done"]
    /\ \/ holder = c /\ holder' = NoCall
       \/ holder' = holder
    /\ UNCHANGED <<now, expires, deadline, renewed, renewing, dispatched>>

(* The process dies; a renewal it sent may still run.                      *)
Crash(c) ==
    /\ call[c] \in {"taken", "working", "ending"}
    /\ call' = [call EXCEPT ![c] = "done"]
    /\ UNCHANGED <<now, holder, expires, deadline, renewed, renewing, dispatched>>

(* Time passes and the expiry timers that are due fire (loseClaim).        *)
Tick ==
    /\ now < MaxTime
    /\ now' = now + 1
    /\ call' = [c \in Calls |-> IF call[c] = "working" /\ deadline[c] <= now + 1
                                THEN "ending" ELSE call[c]]
    /\ UNCHANGED <<holder, expires, deadline, renewed, renewing, dispatched>>

Next ==
    \/ \E c \in Calls :
        \/ TakeReplicaClaim(c) \/ Busy(c) \/ StartWork(c)
        \/ SendRenewal(c) \/ RenewReplicaClaim(c) \/ RenewalAnswers(c) \/ RenewalThrows(c)
        \/ EndWork(c) \/ ReleaseReplicaClaim(c) \/ Crash(c)
    \/ Tick

Spec == Init /\ [][Next]_vars

-----------------------------------------------------------------------------
(* Once a renewal has set a call's timer, the call works only while the    *)
(* database holds the claim for it, at least until the timer fires: hung,  *)
(* lost and late renewals included ("a hung renewal cannot keep the work   *)
(* going past the claim's expiry").                                        *)
RenewedWorkHolds ==
    \A c \in Calls : call[c] = "working" /\ renewed[c] =>
        holder = c /\ deadline[c] <= expires /\ now < expires

-----------------------------------------------------------------------------
(* The facts that make RenewedWorkHolds inductive.  The answer of a renewal *)
(* that landed still carries the claim until Ttl after its dispatch: the   *)
(* statement ran later than that, so the row cannot have lapsed since.     *)
RenewalCarries(c) ==
    renewing[c] = "held" /\ now < dispatched[c] + Ttl =>
        holder = c /\ dispatched[c] + Ttl <= expires

SentInThePast(c) == renewing[c] # "none" => dispatched[c] <= now

TimerAhead(c) == call[c] = "working" => now < deadline[c]

(* Only a call that works renews.                                          *)
NotYetRenewed(c) ==
    call[c] \in {"waiting", "taken"} => ~renewed[c] /\ renewing[c] = "none"

(* A renewal never shortens the claim.                                     *)
ExpiryAhead == expires <= now + Ttl

IInv ==
    /\ TypeOK
    /\ ExpiryAhead
    /\ \A c \in Calls : /\ RenewalCarries(c) /\ SentInThePast(c)
                         /\ TimerAhead(c) /\ NotYetRenewed(c)
    /\ RenewedWorkHolds
=============================================================================
