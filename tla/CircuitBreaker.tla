--------------------------- MODULE CircuitBreaker ---------------------------
(***************************************************************************)
(* The per-service circuit breaker of src/api/circuit_breaker.py.          *)
(*                                                                         *)
(* Its methods contain no await, so under asyncio each one is atomic: it   *)
(* is a function from the breaker's fields (and, where the method reads    *)
(* time.monotonic(), the time t of the call) to the breaker's new fields.  *)
(* The processes that call the methods are in LlmGateway.                  *)
(***************************************************************************)
EXTENDS Integers

CONSTANTS
  FailureThreshold,   \* failure_threshold of the breaker (5 for llm_breaker)
  RecoveryTimeout     \* recovery_timeout, in clock ticks

ASSUME BreakerAssumption ==
  /\ FailureThreshold \in Nat \ {0}
  /\ RecoveryTimeout \in Nat \ {0}

CircuitState == {"closed", "open", "half_open"}

Breaker == [state : CircuitState, failures : Nat, lastFailure : Nat, successes : Nat]

NewBreaker == [state |-> "closed", failures |-> 0, lastFailure |-> 0, successes |-> 0]

(* mutant: the recovery timeout is read one tick short. *)
ReadStateEarly(b, t) ==
  IF b.state = "open" /\ t - b.lastFailure + 1 >= RecoveryTimeout
  THEN [b EXCEPT !.state = "half_open"]
  ELSE b

(* The state property: reading it is what moves an open breaker on. *)
ReadState(b, t) ==
  IF b.state = "open" /\ t - b.lastFailure >= RecoveryTimeout
  THEN [b EXCEPT !.state = "half_open"]
  ELSE b

(* allow_request: every read that does not end in "open" admits the call. *)
AllowRequest(b, t) == ReadState(b, t).state # "open"

RecordSuccess(b) ==
  IF b.state = "half_open"
  THEN [b EXCEPT !.state = "closed", !.failures = 0, !.successes = 1]
  ELSE [b EXCEPT !.successes = @ + 1]

(* mutant: a failed probe is not stamped with the time of its failure. *)
RecordFailureUnstampedProbe(b, t) ==
  [b EXCEPT !.failures = @ + 1,
            !.lastFailure = IF b.state = "half_open" THEN @ ELSE t,
            !.state = IF b.state = "half_open" \/ b.failures + 1 >= FailureThreshold
                      THEN "open" ELSE @]

(* mutant: the failure count starts again when a probe fails. *)
RecordFailureRecount(b, t) ==
  [b EXCEPT !.failures = IF b.state = "half_open" THEN 0 ELSE @ + 1,
            !.lastFailure = t,
            !.state = IF b.state = "half_open" \/ b.failures + 1 >= FailureThreshold
                      THEN "open" ELSE @]

RecordFailure(b, t) ==
  [b EXCEPT !.failures = @ + 1,
            !.lastFailure = t,
            !.state = IF b.state = "half_open" \/ b.failures + 1 >= FailureThreshold
                      THEN "open" ELSE @]

Reset(b) == [b EXCEPT !.state = "closed", !.failures = 0, !.successes = 0]
=============================================================================
