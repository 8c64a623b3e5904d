--------------------------- MODULE SlidingWindow ---------------------------
(***************************************************************************)
(* What the rate limiter promises its clients (src/api/rate_limiter.py,    *)
(* lines 1-12 and 88-96): a request is admitted if and only if fewer than  *)
(* MaxRequests requests of its client were admitted in the window that     *)
(* ends with it, and a refused client is told how many seconds to wait.    *)
(* The limiter here forgets nothing; module RateLimiter, which prunes its  *)
(* lists and deletes keys, implements it.                                  *)
(***************************************************************************)
EXTENDS Integers, FiniteSets

CONSTANTS Clients, Requests, ExemptRequests, MaxRequests, WindowSeconds, TicksPerSecond

VARIABLES
  now,   \* the clock, in ticks
  req    \* what became of each request

vars == <<now, req>>

Window == WindowSeconds * TicksPerSecond

Init ==
  /\ now = 0
  /\ req \in [Requests -> {[status |-> "new", client |-> c, at |-> 0, retryAfter |-> 0] :
                             c \in Clients}]

(* The requests of c admitted in the window that ends now. *)
Recent(c) ==
  {q \in Requests : /\ req[q].status = "admitted" /\ req[q].client = c
                    /\ now - Window < req[q].at /\ req[q].at <= now}

Free(c) == Cardinality(Recent(c)) < MaxRequests

(* After n seconds the first of them has left the window, and one second   *)
(* earlier it had not, unless it was leaving at that very moment.          *)
FreesASlot(c, n) ==
  /\ \E q \in Recent(c) : req[q].at + Window <= now + n * TicksPerSecond
  /\ \A q \in Recent(c) : now + (n - 1) * TicksPerSecond <= req[q].at + Window

Decide(r, status, n) ==
  /\ req' = [req EXCEPT ![r] = [@ EXCEPT !.status = status, !.at = now, !.retryAfter = n]]
  /\ UNCHANGED now

Admit(r) ==
  /\ req[r].status = "new" /\ r \notin ExemptRequests
  /\ Free(req[r].client)
  /\ Decide(r, "admitted", 0)

Refuse(r) ==
  /\ req[r].status = "new" /\ r \notin ExemptRequests
  /\ ~Free(req[r].client)
  /\ \E n \in 1 .. WindowSeconds + 1 :
       FreesASlot(req[r].client, n) /\ Decide(r, "refused", n)

Bypass(r) ==
  /\ req[r].status = "new" /\ r \in ExemptRequests
  /\ Decide(r, "exempt", 0)

Tick == now' = now + 1 /\ UNCHANGED req

Next == (\E r \in Requests : Admit(r) \/ Refuse(r) \/ Bypass(r)) \/ Tick

Spec == Init /\ [][Next]_vars
=============================================================================
