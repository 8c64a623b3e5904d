------------------------- MODULE LlmGateway_proofs -------------------------
(* Proofs about LlmGateway, for any set of sessions, any thresholds and    *)
(* any bounds.                                                             *)
EXTENDS LlmGateway, TLAPS

Consistent(b) == b.state = "closed" <=> b.failures < FailureThreshold

(* A sleeping invocation has an attempt left, and nothing in the state is  *)
(* from the future.                                                        *)
AttemptLeft == \A s \in Sessions : call[s].pc = "sleeping" => call[s].attempt < MaxRetries

NothingFromTheFuture ==
  /\ breaker.lastFailure <= now
  /\ \A s \in InFlight : call[s].admittedAt <= now

IInv ==
  /\ TypeOK
  /\ CountDecidesState
  /\ NoAdmissionDuringOutage
  /\ AttemptLeft
  /\ NothingFromTheFuture

-----------------------------------------------------------------------------
(* What each method of the breaker does to a breaker whose state agrees    *)
(* with its count.                                                         *)
LEMMA ReadStateLemma ==
  ASSUME NEW b \in Breaker, NEW t \in Nat, Consistent(b)
  PROVE  /\ ReadState(b, t) \in Breaker
         /\ Consistent(ReadState(b, t))
         /\ ReadState(b, t).lastFailure = b.lastFailure
         /\ ReadState(b, t).state = "open" => b.state = "open"
  BY BreakerAssumption
     DEF ReadState, Consistent, Breaker, CircuitState

LEMMA RecordSuccessLemma ==
  ASSUME NEW b \in Breaker, Consistent(b)
  PROVE  /\ RecordSuccess(b) \in Breaker
         /\ Consistent(RecordSuccess(b))
         /\ RecordSuccess(b).lastFailure = b.lastFailure
         /\ RecordSuccess(b).state = "open" <=> b.state = "open"
  <1>1. RecordSuccess(b).failures = IF b.state = "half_open" THEN 0 ELSE b.failures
    BY DEF RecordSuccess, Breaker
  <1>2. RecordSuccess(b).state = IF b.state = "half_open" THEN "closed" ELSE b.state
    BY DEF RecordSuccess, Breaker
  <1>3. RecordSuccess(b).lastFailure = b.lastFailure
    BY DEF RecordSuccess, Breaker
  <1>4. RecordSuccess(b) \in Breaker
    <2>1. CASE b.state = "half_open"
      BY <2>1 DEF RecordSuccess, Breaker, CircuitState
    <2>2. CASE b.state # "half_open"
      BY <2>2 DEF RecordSuccess, Breaker
    <2> QED
      BY <2>1, <2>2
  <1> QED
    BY <1>1, <1>2, <1>3, <1>4, BreakerAssumption DEF Consistent, Breaker, CircuitState

LEMMA RecordFailureLemma ==
  ASSUME NEW b \in Breaker, NEW t \in Nat, Consistent(b)
  PROVE  /\ RecordFailure(b, t) \in Breaker
         /\ Consistent(RecordFailure(b, t))
         /\ RecordFailure(b, t).lastFailure = t
         /\ b.state # "closed" => RecordFailure(b, t).state = "open"
  <1>1. RecordFailure(b, t).failures = b.failures + 1
    BY DEF RecordFailure, Breaker
  <1>2. RecordFailure(b, t).state =
          IF b.state = "half_open" \/ b.failures + 1 >= FailureThreshold
          THEN "open" ELSE b.state
    BY DEF RecordFailure, Breaker
  <1>3. RecordFailure(b, t).lastFailure = t
    BY DEF RecordFailure, Breaker
  <1>4. RecordFailure(b, t) \in Breaker
    <2> DEFINE n  == b.failures + 1
               st == IF b.state = "half_open" \/ n >= FailureThreshold
                     THEN "open" ELSE b.state
    <2>1. n \in Nat /\ st \in CircuitState
      BY DEF Breaker, CircuitState
    <2>2. RecordFailure(b, t) = [b EXCEPT !.failures = n, !.lastFailure = t, !.state = st]
      BY DEF RecordFailure
    <2> HIDE DEF n, st
    <2> QED
      BY <2>1, <2>2 DEF Breaker
  <1> QED
    BY <1>1, <1>2, <1>3, <1>4, BreakerAssumption DEF Consistent, Breaker, CircuitState

LEMMA ResetLemma ==
  ASSUME NEW b \in Breaker
  PROVE  /\ Reset(b) \in Breaker
         /\ Consistent(Reset(b))
         /\ Reset(b).lastFailure = b.lastFailure
         /\ Reset(b).state = "closed"
  <1>1. Reset(b) \in Breaker
    BY DEF Reset, Breaker, CircuitState
  <1>2. /\ Reset(b).state = "closed"
        /\ Reset(b).failures = 0
        /\ Reset(b).lastFailure = b.lastFailure
    BY DEF Reset, Breaker
  <1> QED
    BY <1>1, <1>2, BreakerAssumption DEF Consistent

(* The records the loop stores are well formed. *)
LEMMA CallLemma ==
  /\ \A r \in Outcome : Returned(r) \in Call
  /\ \A k \in 0 .. MaxRetries : now \in Nat => Sleeping(k) \in Call
  BY GatewayAssumption DEF Returned, Sleeping, Call, Outcome, MinBackoff

-----------------------------------------------------------------------------
LEMMA InitIInv == Init => IInv
  BY BreakerAssumption, GatewayAssumption, CallLemma
     DEF Init, IInv, TypeOK, CountDecidesState, NoAdmissionDuringOutage, AttemptLeft,
         NothingFromTheFuture, InFlight, NewBreaker, Breaker, CircuitState, Returned,
         Call, Outcome

(* The start of an attempt k, from the beginning of an invocation or after *)
(* a sleep. *)
LEMMA AttemptIInv ==
  ASSUME IInv, NEW s \in Sessions, NEW k \in 0 .. MaxRetries,
         Admit(s, k) \/ Refuse(s),
         now' = now, invocations' \in [Sessions -> Nat]
  PROVE  IInv'
  <1>a. /\ breaker \in Breaker
        /\ now \in Nat
        /\ call \in [Sessions -> Call]
        /\ Consistent(breaker)
        /\ breaker' = ReadState(breaker, now)
    BY DEF IInv, TypeOK, CountDecidesState, Consistent, Admit, Refuse
  <1>b. /\ breaker' \in Breaker
        /\ Consistent(breaker)'
        /\ breaker'.lastFailure = breaker.lastFailure
        /\ breaker'.state = "open" => breaker.state = "open"
    BY <1>a, ReadStateLemma DEF Consistent
  <1>1. CASE Admit(s, k)
    <2>1. call' \in [Sessions -> Call]
      BY <1>1, <1>a DEF Admit, Call, Outcome
    <2>2. breaker'.state # "open"
      BY <1>1 DEF Admit, AllowRequest
    <2>3. /\ AttemptLeft'
          /\ NothingFromTheFuture'
      BY <1>1, <1>a, <1>b DEF Admit, IInv, AttemptLeft, NothingFromTheFuture, InFlight
    <2> QED
      BY <1>a, <1>b, <2>1, <2>2, <2>3
         DEF IInv, TypeOK, CountDecidesState, Consistent, NoAdmissionDuringOutage
  <1>2. CASE Refuse(s)
    <2>1. call' = [call EXCEPT ![s] = Returned("refused")]
      BY <1>2 DEF Refuse
    <2>2. call' \in [Sessions -> Call]
      BY <2>1, <1>a, CallLemma DEF Outcome
    <2>3. /\ NoAdmissionDuringOutage'
          /\ AttemptLeft'
          /\ NothingFromTheFuture'
      BY <2>1, <1>a, <1>b
         DEF Returned, IInv, AttemptLeft, NothingFromTheFuture, NoAdmissionDuringOutage, InFlight
    <2> QED
      BY <1>a, <1>b, <2>2, <2>3 DEF IInv, TypeOK, CountDecidesState, Consistent
  <1> QED
    BY <1>1, <1>2

(* The except clause, entered with a breaker b that is either the shared   *)
(* one or the one record_success just returned. *)
LEMMA HandleExceptionIInv ==
  ASSUME IInv, NEW s \in Sessions, call[s].pc = "awaiting",
         NEW b \in Breaker, Consistent(b), HandleException(s, b)
  PROVE  IInv'
  <1>a. /\ now \in Nat
        /\ call \in [Sessions -> Call]
        /\ call[s].attempt \in 0 .. MaxRetries
        /\ invocations' \in [Sessions -> Nat]
        /\ now' = now
    BY DEF IInv, TypeOK, Call, HandleException
  <1>b. /\ breaker' \in Breaker
        /\ Consistent(breaker)'
        /\ breaker'.lastFailure = now
    <2>1. breaker' = RecordFailure(b, now)
      BY DEF HandleException
    <2> QED
      BY <2>1, <1>a, RecordFailureLemma DEF Consistent
  <1>c. \/ call' = [call EXCEPT ![s] = Returned("raised")]
        \/ /\ call' = [call EXCEPT ![s] = Sleeping(call[s].attempt)]
           /\ call[s].attempt < MaxRetries
    <2>1. CASE call[s].attempt = MaxRetries
      BY <2>1 DEF HandleException
    <2>2. CASE call[s].attempt # MaxRetries
      BY <2>2, <1>a, GatewayAssumption DEF HandleException
    <2> QED
      BY <2>1, <2>2
  <1>1. call' \in [Sessions -> Call]
    BY <1>a, <1>c, CallLemma DEF Outcome
  <1>2. \A r \in Sessions : r # s => call'[r] = call[r]
    BY <1>a, <1>c
  <1>3. /\ call'[s].pc # "awaiting"
        /\ call'[s].pc = "sleeping" => call'[s].attempt < MaxRetries
    BY <1>a, <1>c DEF Returned, Sleeping
  <1>4. /\ NoAdmissionDuringOutage'
        /\ AttemptLeft'
        /\ NothingFromTheFuture'
    BY <1>a, <1>b, <1>2, <1>3
       DEF IInv, AttemptLeft, NothingFromTheFuture, NoAdmissionDuringOutage, InFlight
  <1> QED
    BY <1>a, <1>b, <1>1, <1>4 DEF IInv, TypeOK, CountDecidesState, Consistent

LEMMA NextIInv == IInv /\ [Next]_vars => IInv'
  <1> SUFFICES ASSUME IInv, [Next]_vars
               PROVE  IInv'
    OBVIOUS
  <1>a. /\ breaker \in Breaker
        /\ now \in Nat
        /\ call \in [Sessions -> Call]
        /\ invocations \in [Sessions -> Nat]
        /\ Consistent(breaker)
    BY DEF IInv, TypeOK, CountDecidesState, Consistent
  <1>1. ASSUME NEW s \in Sessions, Begin(s)
        PROVE  IInv'
    <2>1. /\ Admit(s, 0) \/ Refuse(s)
          /\ now' = now
          /\ invocations' \in [Sessions -> Nat]
      BY <1>1, <1>a DEF Begin
    <2> QED
      BY <2>1, AttemptIInv, GatewayAssumption
  <1>2. ASSUME NEW s \in Sessions, Retry(s)
        PROVE  IInv'
    <2>1. /\ Admit(s, call[s].attempt + 1) \/ Refuse(s)
          /\ now' = now
          /\ invocations' \in [Sessions -> Nat]
      BY <1>2, <1>a DEF Retry
    <2>2. call[s].attempt + 1 \in 0 .. MaxRetries
      BY <1>2, <1>a, GatewayAssumption DEF Retry, IInv, AttemptLeft, Call
    <2> QED
      BY <2>1, <2>2, AttemptIInv
  <1>3. ASSUME NEW s \in Sessions, CallSucceeds(s)
        PROVE  IInv'
    <2>1. /\ breaker' \in Breaker
          /\ Consistent(breaker)'
          /\ breaker'.lastFailure = breaker.lastFailure
          /\ breaker'.state = "open" <=> breaker.state = "open"
      BY <1>3, <1>a, RecordSuccessLemma DEF CallSucceeds, Consistent
    <2>2. call' = [call EXCEPT ![s] = Returned("text")]
      BY <1>3 DEF CallSucceeds
    <2>3. call' \in [Sessions -> Call]
      BY <2>2, <1>a, CallLemma DEF Outcome
    <2>4. /\ NoAdmissionDuringOutage'
          /\ AttemptLeft'
          /\ NothingFromTheFuture'
      BY <1>3, <1>a, <2>1, <2>2
         DEF CallSucceeds, Returned, IInv, AttemptLeft, NothingFromTheFuture,
             NoAdmissionDuringOutage, InFlight
    <2> QED
      BY <1>3, <1>a, <2>1, <2>3, <2>4
         DEF CallSucceeds, IInv, TypeOK, CountDecidesState, Consistent
  <1>4. ASSUME NEW s \in Sessions, CallFails(s)
        PROVE  IInv'
    BY <1>4, <1>a, HandleExceptionIInv DEF CallFails
  <1>5. ASSUME NEW s \in Sessions, CallReturnsNonText(s)
        PROVE  IInv'
    BY <1>5, <1>a, RecordSuccessLemma, HandleExceptionIInv DEF CallReturnsNonText
  <1>6. CASE ReadStats
    <2>1. /\ breaker' \in Breaker
          /\ Consistent(breaker)'
          /\ breaker'.lastFailure = breaker.lastFailure
          /\ breaker'.state = "open" => breaker.state = "open"
      BY <1>6, <1>a, ReadStateLemma DEF ReadStats, Consistent
    <2> QED
      BY <1>6, <2>1
         DEF ReadStats, IInv, TypeOK, CountDecidesState, Consistent, AttemptLeft,
             NothingFromTheFuture, NoAdmissionDuringOutage, InFlight
  <1>7. CASE ForceReset
    <2>1. /\ breaker' \in Breaker
          /\ Consistent(breaker)'
          /\ breaker'.lastFailure = breaker.lastFailure
          /\ breaker'.state = "closed"
      BY <1>7, <1>a, ResetLemma DEF ForceReset, Consistent
    <2> QED
      BY <1>7, <2>1
         DEF ForceReset, IInv, TypeOK, CountDecidesState, Consistent, AttemptLeft,
             NothingFromTheFuture, NoAdmissionDuringOutage, InFlight
  <1>8. CASE Tick
    <2>1. NothingFromTheFuture'
      BY <1>8, <1>a DEF Tick, IInv, NothingFromTheFuture, InFlight, Breaker, Call
    <2> QED
      BY <1>8, <1>a, <2>1
         DEF Tick, IInv, TypeOK, CountDecidesState, AttemptLeft, NoAdmissionDuringOutage, InFlight
  <1>9. CASE UNCHANGED vars
    BY <1>9
       DEF vars, IInv, TypeOK, CountDecidesState, AttemptLeft, NothingFromTheFuture,
           NoAdmissionDuringOutage, InFlight
  <1> QED
    BY <1>1, <1>2, <1>3, <1>4, <1>5, <1>6, <1>7, <1>8, <1>9 DEF Next, Settle

LEMMA LifeCycleLemma == IInv /\ [Next]_vars => [LifeCycleStep]_vars
  <1> SUFFICES ASSUME IInv, Next
               PROVE  LifeCycleStep
    BY DEF LifeCycleStep, vars
  <1>a. breaker \in Breaker /\ now \in Nat /\ Consistent(breaker)
    BY DEF IInv, TypeOK, CountDecidesState, Consistent
  <1>1. ASSUME breaker' = ReadState(breaker, now)
        PROVE  LifeCycleStep
    BY <1>1, <1>a, BreakerAssumption DEF ReadState, LifeCycleStep, Breaker
  <1>2. ASSUME NEW b \in Breaker, NEW s \in Sessions, HandleException(s, b),
               \/ b.state = breaker.state
               \/ breaker.state = "half_open" /\ b.state = "closed"
        PROVE  LifeCycleStep
    BY <1>2, <1>a, BreakerAssumption
       DEF HandleException, RecordFailure, LifeCycleStep, Breaker, CircuitState
  <1>3. /\ RecordSuccess(breaker) \in Breaker
        /\ \/ RecordSuccess(breaker).state = breaker.state
           \/ breaker.state = "half_open" /\ RecordSuccess(breaker).state = "closed"
    BY <1>a, RecordSuccessLemma DEF RecordSuccess, Breaker
  <1>4. ASSUME NEW s \in Sessions, Begin(s) \/ Retry(s)
        PROVE  LifeCycleStep
    BY <1>1, <1>4 DEF Begin, Retry, Admit, Refuse
  <1>5. ASSUME NEW s \in Sessions, Settle(s)
        PROVE  LifeCycleStep
    <2>1. CASE CallSucceeds(s)
      BY <2>1, <1>3 DEF CallSucceeds, LifeCycleStep
    <2>2. CASE CallFails(s)
      BY <2>2, <1>2, <1>a DEF CallFails
    <2>3. CASE CallReturnsNonText(s)
      BY <2>3, <1>2, <1>3 DEF CallReturnsNonText
    <2> QED
      BY <1>5, <2>1, <2>2, <2>3 DEF Settle
  <1>6. CASE ReadStats
    BY <1>1, <1>6 DEF ReadStats
  <1>7. CASE ForceReset \/ Tick
    BY <1>7 DEF Tick, LifeCycleStep
  <1> QED
    BY <1>4, <1>5, <1>6, <1>7 DEF Next

-----------------------------------------------------------------------------
(* The variables of the shared breaker and of every invocation keep their  *)
(* types, whatever the number of sessions. *)
THEOREM TypeCorrect == Spec => []TypeOK
  <1>1. IInv => TypeOK
    BY DEF IInv
  <1> QED
    BY <1>1, InitIInv, NextIInv, PTL DEF Spec

(* The breaker is closed exactly while its failure count is below the      *)
(* threshold: late answers never leave it open with a small count or       *)
(* closed with a large one (circuit_breaker.py:90-120). *)
THEOREM CountAlwaysDecidesState == Spec => []CountDecidesState
  <1>1. IInv => CountDecidesState
    BY DEF IInv
  <1> QED
    BY <1>1, InitIInv, NextIInv, PTL DEF Spec

(* No call in flight was admitted after the last failure while the breaker *)
(* is open (circuit_breaker.py:69-88 with dialogue.py:132-137). *)
THEOREM OutageAdmitsNobody == Spec => []NoAdmissionDuringOutage
  <1>1. IInv => NoAdmissionDuringOutage
    BY DEF IInv
  <1> QED
    BY <1>1, InitIInv, NextIInv, PTL DEF Spec

(* Every step of the composed system follows the documented life cycle of  *)
(* the breaker (circuit_breaker.py:7-11). *)
THEOREM BreakerFollowsLifeCycle == Spec => LifeCycle
  BY InitIInv, NextIInv, LifeCycleLemma, PTL DEF Spec, LifeCycle
=============================================================================
