---------------------------- MODULE RateLimiter ----------------------------
(***************************************************************************)
(* The sliding-window rate limiter of src/api/rate_limiter.py: the counter *)
(* and the middleware that asks it before a request reaches the routes.    *)
(*                                                                         *)
(* is_allowed reads the clock, takes an asyncio lock that nobody holds     *)
(* across an await, and decides: one atomic step. A request is an element  *)
(* of Requests, and the list of timestamps of a client is the set of the   *)
(* requests that put them there: the list is in arrival order, so its      *)
(* first entry is the oldest.                                              *)
(***************************************************************************)
EXTENDS Integers, FiniteSets

CONSTANTS
  Clients,          \* client addresses ("unknown" is one of them)
  Requests,         \* the requests of a run
  ExemptRequests,   \* those for a path of SKIP_PATHS
  MaxRequests,      \* RATE_LIMIT_MAX_REQUESTS
  WindowSeconds,    \* RATE_LIMIT_WINDOW_SECONDS
  TicksPerSecond,   \* resolution of the clock
  Horizon           \* bound: the last tick

ASSUME RateLimiterAssumption ==
  /\ IsFiniteSet(Requests)
  /\ ExemptRequests \subseteq Requests
  /\ MaxRequests \in Nat \ {0}
  /\ WindowSeconds \in Nat \ {0}
  /\ TicksPerSecond \in Nat \ {0}
  /\ Horizon \in Nat

VARIABLES
  now,       \* time.monotonic(), in ticks
  log,       \* _requests: log[c] is the list of c (empty when c has no key)
  tracked,   \* the keys of _requests
  req        \* what became of each request

vars == <<now, log, tracked, req>>

Window == WindowSeconds * TicksPerSecond

Request == [status : {"new", "admitted", "refused", "exempt"},
            client : Clients, at : Nat, retryAfter : Nat]

TypeOK ==
  /\ now \in Nat
  /\ log \in [Clients -> SUBSET Requests]
  /\ tracked \in SUBSET Clients
  /\ req \in [Requests -> Request]

Init ==
  /\ now = 0
  /\ log = [c \in Clients |-> {}]
  /\ tracked = {}
  /\ req \in [Requests -> {[status |-> "new", client |-> c, at |-> 0, retryAfter |-> 0] :
                             c \in Clients}]

Admitted(c) == {q \in Requests : req[q].status = "admitted" /\ req[q].client = c}

(* The list of c once the expired entries are pruned. *)
InWindow(c) == {q \in log[c] : req[q].at > now - Window}

Oldest(S) == CHOOSE q \in S : \A p \in S : req[q].at <= req[p].at

(* mutant: the remainder of the second is cut off and not made up for. *)
RetryAfterCut(S) ==
  LET seconds == (req[Oldest(S)].at - (now - Window)) \div TicksPerSecond
  IN  IF seconds > 1 THEN seconds ELSE 1

(* mutant: time since the entry left the window, which it has not yet. *)
RetryAfterSwapped(S) ==
  (now - Window - req[Oldest(S)].at) \div TicksPerSecond + 1

(* mutant: the second is rounded up twice. *)
RetryAfterRoundedTwice(S) ==
  LET seconds == (req[Oldest(S)].at - (now - Window)) \div TicksPerSecond + 2
  IN  IF seconds > 1 THEN seconds ELSE 1

(* max(int(timestamps[0] - window_start) + 1, 1), in whole seconds. *)
RetryAfter(S) ==
  LET seconds == (req[Oldest(S)].at - (now - Window)) \div TicksPerSecond + 1
  IN  IF seconds > 1 THEN seconds ELSE 1

(* is_allowed answers True; the middleware passes the request on. *)
Allow(r) ==
  LET c == req[r].client
  IN  /\ req[r].status = "new" /\ r \notin ExemptRequests
      /\ Cardinality(InWindow(c)) < MaxRequests
      /\ log' = [log EXCEPT ![c] = InWindow(c) \cup {r}]
      /\ tracked' = tracked \cup {c}
      /\ req' = [req EXCEPT ![r] = [@ EXCEPT !.status = "admitted", !.at = now]]
      /\ UNCHANGED now

(* is_allowed answers False; the middleware answers 429 with Retry-After. *)
Refuse(r) ==
  LET c == req[r].client
  IN  /\ req[r].status = "new" /\ r \notin ExemptRequests
      /\ Cardinality(InWindow(c)) >= MaxRequests
      /\ log' = [log EXCEPT ![c] = InWindow(c)]
      /\ tracked' = tracked \cup {c}
      /\ req' = [req EXCEPT ![r] = [@ EXCEPT !.status = "refused", !.at = now,
                                             !.retryAfter = RetryAfter(InWindow(c))]]
      /\ UNCHANGED now

(* A path of SKIP_PATHS never reaches the counter. *)
Bypass(r) ==
  /\ req[r].status = "new" /\ r \in ExemptRequests
  /\ req' = [req EXCEPT ![r] = [@ EXCEPT !.status = "exempt", !.at = now]]
  /\ UNCHANGED <<now, log, tracked>>

Stale(c) == \A q \in log[c] : req[q].at <= now - Window

(* mutant: cleanup drops clients by their oldest entry, not their newest. *)
CleanupByOldest ==
  LET gone == {c \in tracked : log[c] = {} \/ \E q \in log[c] : req[q].at <= now - Window}
  IN  /\ gone # {}
      /\ log' = [c \in Clients |-> IF c \in gone THEN {} ELSE log[c]]
      /\ tracked' = tracked \ gone
      /\ UNCHANGED <<now, req>>

(* cleanup(): public, but nothing in src/ schedules it. *)
Cleanup ==
  LET gone == {c \in tracked : Stale(c)}
  IN  /\ gone # {}
      /\ log' = [c \in Clients |-> IF c \in gone THEN {} ELSE log[c]]
      /\ tracked' = tracked \ gone
      /\ UNCHANGED <<now, req>>

Tick ==
  /\ now < Horizon
  /\ now' = now + 1
  /\ UNCHANGED <<log, tracked, req>>

Serve(r) == Allow(r) \/ Refuse(r) \/ Bypass(r)

Next == (\E r \in Requests : Serve(r)) \/ Cleanup \/ Tick

Spec == Init /\ [][Next]_vars

-----------------------------------------------------------------------------
(* The requests of c admitted in the window that ends at time t. *)
Load(c, t) == {q \in Admitted(c) : t - Window < req[q].at /\ req[q].at <= t}

(* The promise of the module (rate_limiter.py:1-12): no window of          *)
(* WindowSeconds, wherever it ends, holds more than MaxRequests admitted   *)
(* requests of one client, although entries are pruned and keys deleted.   *)
SlidingWindowLimit ==
  \A c \in Clients : \A t \in 0 .. now : Cardinality(Load(c, t)) <= MaxRequests

(* Retry-After is sufficient (rate_limiter.py:63-66, 131): once the client *)
(* of a refused request has waited that many seconds, and had no other     *)
(* request admitted meanwhile, its next request is admitted.               *)
RetryAfterSuffices ==
  \A r \in Requests :
    LET c == req[r].client
    IN  /\ req[r].status = "refused"
        /\ now >= req[r].at + req[r].retryAfter * TicksPerSecond
        /\ \A q \in Admitted(c) : req[q].at <= req[r].at
        => Cardinality(InWindow(c)) < MaxRequests

(* The limiter decides as one that forgets nothing would (SlidingWindow):  *)
(* neither pruning nor cleanup, nor a refused attempt or an expired entry, *)
(* changes who is admitted, and Retry-After is at most a second too long.  *)
Promise == INSTANCE SlidingWindow

ImplementsSlidingWindow == Promise!Spec
=============================================================================
