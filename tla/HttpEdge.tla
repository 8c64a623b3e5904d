------------------------------ MODULE HttpEdge ------------------------------
(***************************************************************************)
(* The way of an HTTP request through the middleware of src/api, around    *)
(* the rate limiter of module RateLimiter: which layer makes the answer,   *)
(* what the layers outside of it add on the way out, and what the metrics  *)
(* registry counts. Each call_next is an await, so a request is admitted,  *)
(* handled and answered in separate steps. Compression is left out; it     *)
(* changes no header or counter modelled here.                             *)
(***************************************************************************)
EXTENDS RateLimiter, Sequences, SequencesExt, Bags

CONSTANTS
  PathOf,      \* the segments of a request's path
  Scrapes      \* the requests for /metrics

ASSUME HttpEdgeAssumption ==
  /\ Scrapes \subseteq ExemptRequests
  /\ \A r \in Requests : PathOf[r] \in Seq(STRING)

VARIABLES
  answer,    \* answer[r]: the answer on its way, with the layer that made it
  marks,     \* marks[r]: the headers the answer left with
  sent,      \* the requests whose answer has left
  counters,  \* http_requests_total: a bag of path label and status
  observed,  \* http_request_duration_seconds: how many per path label
  scraped    \* the counters as the last scrape showed them

edge == <<answer, marks, sent, counters, observed, scraped>>
evars == <<vars, edge>>

NoAnswer == [status |-> 0, made |-> "none"]

EdgeInit ==
  /\ Init
  /\ answer = [r \in Requests |-> NoAnswer]
  /\ marks = [r \in Requests |-> {}]
  /\ sent = {}
  /\ counters = EmptyBag /\ observed = EmptyBag /\ scraped = EmptyBag

-----------------------------------------------------------------------------
(* mutant: the limiter is added after the metrics and stands around them. *)
RegisteredSwapped == <<"gzip", "errors", "security", "metrics", "limiter", "logging">>

(* The layers in the order of their add_middleware calls, in               *)
(* register_middleware ...                                                 *)
Registered == <<"gzip", "errors", "security", "limiter", "metrics", "logging">>

(* ... which create_app calls after adding a layer of its own.             *)
Added == <<"cors">> \o Registered

(* Outermost first: Starlette puts each layer around those added before.   *)
(* Exception handlers belong to the innermost part, around the routes.     *)
Stack == Reverse(Added) \o <<"route">>

(* The layers an answer passes that is made in the layer made. *)
Outside(made) ==
  {Stack[i] : i \in {j \in DOMAIN Stack : \A k \in 1 .. j : Stack[k] # made}}

(* What layers leave on an answer that passes them; the limiter also marks *)
(* its own, but none of a request it let pass uncounted. CORS headers are  *)
(* for requests of other origins only.                                     *)
MarkOf == [logging |-> "X-Request-ID", limiter |-> "X-RateLimit-Limit",
           security |-> "X-Frame-Options"]

Marks(r) ==
  LET made == answer[r].made
      idle == IF r \in ExemptRequests THEN {"limiter"} ELSE {}
  IN  {MarkOf[layer] : layer \in ((Outside(made) \cup {made}) \cap DOMAIN MarkOf) \ idle}

(* _normalize_path: the segment after one of these names is an id. *)
Placeholder == [chat |-> "{chat_id}", npcs |-> "{npc_id}", quests |-> "{quest_id}"]

Label(path) ==
  [i \in DOMAIN path |->
     IF i > 1 /\ path[i - 1] \in DOMAIN Placeholder THEN Placeholder[path[i - 1]] ELSE path[i]]

-----------------------------------------------------------------------------
(* A request arrives. The limiter's refusal is an answer by itself. *)
Arrive(r) ==
  /\ Serve(r)
  /\ answer' = IF req'[r].status = "refused"
                 THEN [answer EXCEPT ![r] = [status |-> 429, made |-> "limiter"]]
                 ELSE answer
  /\ UNCHANGED <<marks, sent, counters, observed, scraped>>

(* The route answers; its APIError, HTTPException or validation error is   *)
(* made an answer by the handlers around the routes, as is a path that no  *)
(* route matches (404 stands for their statuses); any other exception is   *)
(* caught by the error layer. Which of these a path can come to is left    *)
(* open.                                                                   *)
Outcomes ==
  [status : {200, 404}, made : {"route"}] \cup [status : {500}, made : {"errors"}]

Inside(r) == req[r].status \in {"admitted", "exempt"} /\ answer[r] = NoAnswer

Handle(r) ==
  /\ Inside(r)
  /\ r \notin Scrapes
  /\ \E outcome \in Outcomes : answer' = [answer EXCEPT ![r] = outcome]
  /\ UNCHANGED <<vars, marks, sent, counters, observed, scraped>>

(* GET /metrics renders the registry under its lock. *)
Scrape(r) ==
  /\ Inside(r)
  /\ r \in Scrapes
  /\ scraped' = counters
  /\ answer' = [answer EXCEPT ![r] = [status |-> 200, made |-> "route"]]
  /\ UNCHANGED <<vars, marks, sent, counters, observed>>

(* The layers around the one that made the answer finish, innermost first. *)
Leave(r) ==
  LET a == answer[r]
      label == Label(PathOf[r])
  IN  /\ a # NoAnswer /\ r \notin sent
      /\ sent' = sent \cup {r}
      /\ marks' = [marks EXCEPT ![r] = Marks(r)]
      /\ IF "metrics" \in Outside(a.made) /\ r \notin Scrapes
           THEN /\ counters' = counters (+) SetToBag({<<label, a.status>>})
                /\ observed' = observed (+) SetToBag({label})
           ELSE UNCHANGED <<counters, observed>>
      /\ UNCHANGED <<vars, answer, scraped>>

EdgeNext ==
  \/ \E r \in Requests : Arrive(r) \/ Handle(r) \/ Scrape(r) \/ Leave(r)
  \/ /\ Cleanup \/ Tick
     /\ UNCHANGED edge

EdgeSpec == EdgeInit /\ [][EdgeNext]_evars

-----------------------------------------------------------------------------
Statuses == {200, 404, 429, 500}

AnsweredWith(l, status) ==
  {r \in sent \ Scrapes : Label(PathOf[r]) = l /\ answer[r].status = status}

(* What the registry shows for an entry. *)
Shown(entry, bag) == IF BagIn(entry, bag) THEN bag[entry] ELSE 0

AnsweredUnder(l) == {r \in sent \ Scrapes : Label(PathOf[r]) = l}

(* Every answer that has left was counted once, under its label and        *)
(* status, whichever layer made it, and timed once under its label         *)
(* (metrics.py:183-208), so that the 429 of the metrics are the limiter's  *)
(* refusals but for those on their way; scrapes count nothing and show what*)
(* was there. Every answer names its request (middleware.py:31-35), and    *)
(* every counted one the client's quota (rate_limiter.py:88-107).          *)
AnswersAreAccountedFor ==
  /\ \A r \in Requests, status \in Statuses :
       LET l == Label(PathOf[r])
       IN  Shown(<<l, status>>, counters) = Cardinality(AnsweredWith(l, status))
  /\ \A entry \in BagToSet(counters) : AnsweredWith(entry[1], entry[2]) # {}
  /\ {r \in sent : answer[r].status = 429} \subseteq {r \in Requests : req[r].status = "refused"}
  /\ \A r \in Requests :
       LET l == Label(PathOf[r])
       IN  Shown(l, observed) = Cardinality(AnsweredUnder(l))
  /\ scraped \sqsubseteq counters
  /\ \A r \in sent :
       /\ "X-Request-ID" \in marks[r]
       /\ "X-RateLimit-Limit" \in marks[r] <=> req[r].status # "exempt"
=============================================================================
