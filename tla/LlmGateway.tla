----------------------------- MODULE LlmGateway -----------------------------
(***************************************************************************)
(* DialogueEngine._invoke_llm_with_retry (src/npc/dialogue.py) run         *)
(* concurrently by several chat sessions over the one process-wide         *)
(* llm_breaker, together with the health endpoint that reads the breaker.  *)
(*                                                                         *)
(* An invocation is a loop of attempts. Its awaits (the LLM call and the   *)
(* back-off sleep) are where other sessions run, so each action below is   *)
(* the code between two awaits. The answer to a call can be arbitrarily    *)
(* late: nothing in the code bounds it.                                    *)
(***************************************************************************)
EXTENDS CircuitBreaker, FiniteSets

CONSTANTS
  Sessions,         \* the chat sessions that share llm_breaker
  MaxRetries,       \* max_retries: an invocation makes at most MaxRetries + 1 calls
  MaxInvocations,   \* bound: invocations one session starts
  Horizon           \* bound: beyond this tick the clock only serves sleepers

ASSUME GatewayAssumption ==
  /\ MaxRetries \in Nat
  /\ MaxInvocations \in Nat
  /\ Horizon \in Nat

VARIABLES
  breaker,          \* llm_breaker
  now,              \* time.monotonic(), in half seconds
  call,             \* call[s]: where session s stands in the retry loop
  invocations       \* invocations[s]: how many invocations s has started

vars == <<breaker, now, call, invocations>>

Outcome == {"none", "text", "refused", "raised"}

(***************************************************************************)
(* admittedAt and probe are history: when the call in flight was admitted  *)
(* and whether the breaker was half open then. No action reads them.       *)
(***************************************************************************)
Call == [pc : {"idle", "awaiting", "sleeping"},
         attempt : 0 .. MaxRetries,
         wakeAt : Nat,
         admittedAt : Nat,
         probe : BOOLEAN,
         outcome : Outcome]

Returned(result) ==
  [pc |-> "idle", attempt |-> 0, wakeAt |-> 0, admittedAt |-> 0,
   probe |-> FALSE, outcome |-> result]

InFlight == {s \in Sessions : call[s].pc = "awaiting"}

TypeOK ==
  /\ breaker \in Breaker
  /\ now \in Nat
  /\ call \in [Sessions -> Call]
  /\ invocations \in [Sessions -> Nat]

Init ==
  /\ breaker = NewBreaker
  /\ now = 0
  /\ call = [s \in Sessions |-> Returned("none")]
  /\ invocations = [s \in Sessions |-> 0]

(***************************************************************************)
(* The shortest sleep after failed attempt k: half of min(2^k, 15) s, i.e. *)
(* min(2^k, 15) ticks. A sleeper may wake any time later, which covers the *)
(* jitter of up to 1.5 and a busy event loop.                              *)
(***************************************************************************)
MinBackoff(k) == IF 2^k \in 1 .. 14 THEN 2^k ELSE 15

(* Attempt k of session s up to its await: the breaker is read, and the    *)
(* call goes out or the invocation raises at once.                         *)
Admit(s, k) ==
  /\ AllowRequest(breaker, now)
  /\ breaker' = ReadState(breaker, now)
  /\ call' = [call EXCEPT ![s] =
                [pc |-> "awaiting", attempt |-> k, wakeAt |-> 0, admittedAt |-> now,
                 probe |-> ReadState(breaker, now).state = "half_open",
                 outcome |-> "none"]]

Refuse(s) ==
  /\ ~AllowRequest(breaker, now)
  /\ breaker' = ReadState(breaker, now)
  /\ call' = [call EXCEPT ![s] = Returned("refused")]

Begin(s) ==
  /\ call[s].pc = "idle"
  /\ invocations[s] < MaxInvocations
  /\ invocations' = [invocations EXCEPT ![s] = @ + 1]
  /\ Admit(s, 0) \/ Refuse(s)
  /\ UNCHANGED now

(* mutant: the timer is compared for equality. *)
RetryOnTheDot(s) ==
  /\ call[s].pc = "sleeping"
  /\ now = call[s].wakeAt
  /\ Admit(s, call[s].attempt + 1) \/ Refuse(s)
  /\ UNCHANGED <<now, invocations>>

(* The sleep is over: next iteration of the loop. *)
Retry(s) ==
  /\ call[s].pc = "sleeping"
  /\ now >= call[s].wakeAt
  /\ Admit(s, call[s].attempt + 1) \/ Refuse(s)
  /\ UNCHANGED <<now, invocations>>

(* ainvoke returned and its content is text. *)
CallSucceeds(s) ==
  /\ call[s].pc = "awaiting"
  /\ breaker' = RecordSuccess(breaker)
  /\ call' = [call EXCEPT ![s] = Returned("text")]
  /\ UNCHANGED <<now, invocations>>

Sleeping(k) ==
  [pc |-> "sleeping", attempt |-> k, wakeAt |-> now + MinBackoff(k), admittedAt |-> 0,
   probe |-> FALSE, outcome |-> "none"]

(* mutant: the last attempt is followed by one more. *)
HandleExceptionOnceMore(s, b) ==
  /\ breaker' = RecordFailure(b, now)
  /\ call' = [call EXCEPT ![s] = IF call[s].attempt > MaxRetries
                                 THEN Returned("raised")
                                 ELSE Sleeping(call[s].attempt)]
  /\ UNCHANGED <<now, invocations>>

(* The except clause, entered with the breaker b. *)
HandleException(s, b) ==
  /\ breaker' = RecordFailure(b, now)
  /\ call' = [call EXCEPT ![s] = IF call[s].attempt = MaxRetries
                                 THEN Returned("raised")
                                 ELSE Sleeping(call[s].attempt)]
  /\ UNCHANGED <<now, invocations>>

CallFails(s) ==
  /\ call[s].pc = "awaiting"
  /\ HandleException(s, breaker)

(* ainvoke returned, record_success ran, and content.strip() then raised   *)
(* (a reply whose content is a list): the same call is counted twice.      *)
CallReturnsNonText(s) ==
  /\ call[s].pc = "awaiting"
  /\ HandleException(s, RecordSuccess(breaker))

(* GET /health/detailed reads stats, and stats reads the state property. *)
ReadStats ==
  /\ breaker' = ReadState(breaker, now)
  /\ breaker' # breaker
  /\ UNCHANGED <<now, call, invocations>>

(* reset(): public, called by the tests only. *)
ForceReset ==
  /\ breaker.state # "closed"
  /\ breaker' = Reset(breaker)
  /\ UNCHANGED <<now, call, invocations>>

Tick ==
  /\ now < Horizon \/ \E s \in Sessions : call[s].pc = "sleeping" /\ now < call[s].wakeAt
  /\ now' = now + 1
  /\ UNCHANGED <<breaker, call, invocations>>

Settle(s) == CallSucceeds(s) \/ CallFails(s) \/ CallReturnsNonText(s)

Next ==
  \/ \E s \in Sessions : Begin(s) \/ Retry(s) \/ Settle(s)
  \/ ReadStats
  \/ ForceReset
  \/ Tick

Spec == Init /\ [][Next]_vars

(***************************************************************************)
(* The event loop fires every due timer, time passes, and the LLM client   *)
(* returns or raises in the end (its transport has a deadline).            *)
(***************************************************************************)
Fairness ==
  /\ WF_vars(Tick)
  /\ \A s \in Sessions : WF_vars(Retry(s)) /\ WF_vars(Settle(s))

LiveSpec == Spec /\ Fairness

-----------------------------------------------------------------------------
(* The failure count and the state agree whatever the order in which late  *)
(* answers arrive: the breaker is closed exactly while the count is below  *)
(* failure_threshold (circuit_breaker.py:90-120).                          *)
CountDecidesState == breaker.state = "closed" <=> breaker.failures < FailureThreshold

(* While the breaker is open no call is in flight that was admitted after  *)
(* the last failure: every later attempt was refused, also those of        *)
(* invocations already in their retry loop (dialogue.py:132-137).          *)
NoAdmissionDuringOutage ==
  breaker.state = "open" =>
    \A s \in InFlight : call[s].admittedAt <= breaker.lastFailure

(* The documented life cycle (circuit_breaker.py:7-11): open is entered    *)
(* only by a failure, left only for half_open and only a full              *)
(* recovery_timeout after the last failure seen by anyone, and a breaker   *)
(* that did not fail for that long closes only through half_open. The      *)
(* forced reset is the one exception.                                      *)
LifeCycleStep ==
  \/ breaker'.state = breaker.state
  \/ breaker'.state = "open" /\ breaker'.lastFailure = now
  \/ /\ breaker.state = "open"
     /\ breaker'.state = "half_open"
     /\ now >= breaker.lastFailure + RecoveryTimeout
  \/ breaker.state = "half_open" /\ breaker'.state = "closed"
  \/ ForceReset

LifeCycle == [][LifeCycleStep]_vars

(* Every invocation ends: with the text, refused by the breaker, or with   *)
(* the last exception (dialogue.py:115-161).                               *)
InvocationEnds ==
  \A s \in Sessions : call[s].pc # "idle" ~> call[s].pc = "idle"

(* circuit_breaker.py:10-11, 87: "one probe call is allowed through".      *)
SingleProbe ==
  breaker.state = "half_open" => Cardinality({s \in InFlight : call[s].probe}) <= 1
=============================================================================
