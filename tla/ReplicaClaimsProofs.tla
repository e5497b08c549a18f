------------------------ MODULE ReplicaClaimsProofs ------------------------
(***************************************************************************)
(* RenewedWorkHolds for every set of calls, every time to live and however *)
(* long statements and answers take.                                       *)
(***************************************************************************)
EXTENDS ReplicaClaims, TLAPS

USE CallsAssumption, TimeAssumption

(* Initially nobody works and no renewal is in flight.                     *)
LEMMA InitIInv == Init => IInv
BY DEF Init, IInv, TypeOK, RenewalCarries, SentInThePast, TimerAhead,
       NotYetRenewed,
       ExpiryAhead, RenewedWorkHolds

(* Every statement, answer, timer and crash of withReplicaClaim keeps the  *)
(* types of the state.                                                     *)
LEMMA NextTypeOK == TypeOK /\ [Next]_vars => TypeOK'
<1> SUFFICES ASSUME TypeOK, [Next]_vars PROVE TypeOK'
  OBVIOUS
<1> USE DEF TypeOK
<1>1. ASSUME NEW c \in Calls, TakeReplicaClaim(c) PROVE TypeOK'
  BY <1>1 DEF TakeReplicaClaim
<1>2. ASSUME NEW c \in Calls, Busy(c) PROVE TypeOK'
  BY <1>2 DEF Busy
<1>3. ASSUME NEW c \in Calls, StartWork(c) PROVE TypeOK'
  BY <1>3 DEF StartWork
<1>4. ASSUME NEW c \in Calls, SendRenewal(c) PROVE TypeOK'
  BY <1>4 DEF SendRenewal
<1>5. ASSUME NEW c \in Calls, RenewReplicaClaim(c) PROVE TypeOK'
  BY <1>5 DEF RenewReplicaClaim
<1>6. ASSUME NEW c \in Calls, RenewalAnswers(c) PROVE TypeOK'
  BY <1>6 DEF RenewalAnswers
<1>7. ASSUME NEW c \in Calls, RenewalThrows(c) PROVE TypeOK'
  BY <1>7 DEF RenewalThrows
<1>8. ASSUME NEW c \in Calls, EndWork(c) PROVE TypeOK'
  BY <1>8 DEF EndWork
<1>9. ASSUME NEW c \in Calls, ReleaseReplicaClaim(c) PROVE TypeOK'
  BY <1>9 DEF ReleaseReplicaClaim
<1>10. ASSUME NEW c \in Calls, Crash(c) PROVE TypeOK'
  BY <1>10 DEF Crash
<1>11. CASE Tick
  BY <1>11 DEF Tick
<1>12. CASE UNCHANGED vars
  BY <1>12 DEF vars
<1> QED
  BY <1>1, <1>2, <1>3, <1>4, <1>5, <1>6, <1>7, <1>8, <1>9, <1>10, <1>11, <1>12 DEF Next

(* What the invariant says of one call.                                    *)
Holds(e) == call[e] = "working" /\ renewed[e] =>
                holder = e /\ deadline[e] <= expires /\ now < expires

Facts(e) == RenewalCarries(e) /\ SentInThePast(e) /\ TimerAhead(e)
            /\ NotYetRenewed(e) /\ Holds(e)

(* A step of any call keeps the facts of every call: a claim that has not  *)
(* lapsed is renewed and released by its holder only, and taken by nobody. *)
LEMMA NextFacts ==
    ASSUME TypeOK, TypeOK', [Next]_vars, ExpiryAhead, NEW e \in Calls, Facts(e)
    PROVE  Facts(e)'
<1> USE DEF TypeOK, Facts, RenewalCarries, SentInThePast, TimerAhead, NotYetRenewed, Holds
<1>1. ASSUME NEW c \in Calls, TakeReplicaClaim(c) PROVE Facts(e)'
  BY <1>1 DEF TakeReplicaClaim
<1>2. ASSUME NEW c \in Calls, Busy(c) PROVE Facts(e)'
  BY <1>2 DEF Busy
<1>3. ASSUME NEW c \in Calls, StartWork(c) PROVE Facts(e)'
  BY <1>3 DEF StartWork
<1>4. ASSUME NEW c \in Calls, SendRenewal(c) PROVE Facts(e)'
  BY <1>4 DEF SendRenewal
<1>5. ASSUME NEW c \in Calls, RenewReplicaClaim(c) PROVE Facts(e)'
  <2>1. expires <= expires' /\ holder' = holder /\ now' = now
    BY <1>5 DEF RenewReplicaClaim, ExpiryAhead
  <2>2. Holds(e)' /\ TimerAhead(e)' /\ NotYetRenewed(e)' /\ SentInThePast(e)'
    BY <1>5, <2>1 DEF RenewReplicaClaim
  <2>3. RenewalCarries(e)'
    BY <1>5, <2>1 DEF RenewReplicaClaim
  <2> QED
    BY <2>2, <2>3
<1>6. ASSUME NEW c \in Calls, RenewalAnswers(c) PROVE Facts(e)'
  BY <1>6 DEF RenewalAnswers
<1>7. ASSUME NEW c \in Calls, RenewalThrows(c) PROVE Facts(e)'
  BY <1>7 DEF RenewalThrows
<1>8. ASSUME NEW c \in Calls, EndWork(c) PROVE Facts(e)'
  BY <1>8 DEF EndWork
<1>9. ASSUME NEW c \in Calls, ReleaseReplicaClaim(c) PROVE Facts(e)'
  BY <1>9 DEF ReleaseReplicaClaim
<1>10. ASSUME NEW c \in Calls, Crash(c) PROVE Facts(e)'
  BY <1>10 DEF Crash
<1>11. CASE Tick
  BY <1>11 DEF Tick
<1>12. CASE UNCHANGED vars
  BY <1>12 DEF vars
<1> QED
  BY <1>1, <1>2, <1>3, <1>4, <1>5, <1>6, <1>7, <1>8, <1>9, <1>10, <1>11, <1>12 DEF Next

(* No statement sets the expiry further than Ttl ahead.                    *)
LEMMA NextExpiryAhead == TypeOK /\ ExpiryAhead /\ [Next]_vars => ExpiryAhead'
BY DEF TypeOK, ExpiryAhead, Next, vars, TakeReplicaClaim, Busy, StartWork, SendRenewal,
       RenewReplicaClaim, RenewalAnswers, RenewalThrows, EndWork, ReleaseReplicaClaim,
       Crash, Tick

(* IInv is inductive.                                                      *)
LEMMA NextIInv == IInv /\ [Next]_vars => IInv'
<1> SUFFICES ASSUME IInv, [Next]_vars PROVE IInv'
  OBVIOUS
<1>1. TypeOK /\ TypeOK' /\ ExpiryAhead /\ ExpiryAhead'
  BY NextTypeOK, NextExpiryAhead DEF IInv
<1>2. ASSUME NEW e \in Calls PROVE Facts(e)
  BY <1>2 DEF IInv, Facts, Holds, RenewedWorkHolds
<1>3. ASSUME NEW e \in Calls PROVE Facts(e)'
  BY <1>1, <1>2, <1>3, NextFacts
<1> QED
  BY <1>1, <1>3 DEF IInv, Facts, Holds, RenewedWorkHolds

(* Once a renewal has set its timer, a call works only while the database  *)
(* holds the claim for it: for any number of calls, any time to live and   *)
(* any delay of a statement or an answer (withReplicaClaim).               *)
THEOREM RenewedClaimsHold == Spec => []RenewedWorkHolds
<1>1. IInv => RenewedWorkHolds
  BY DEF IInv
<1> QED
  BY InitIInv, NextIInv, <1>1, PTL DEF Spec
=============================================================================
