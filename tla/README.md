# A TLA+ verification of the NPC dialogue engine

This directory specifies the core of the NPC dialogue engine (FastAPI, asyncio,
Redis, PostgreSQL, an LLM behind a circuit breaker) in TLA+. TLC checks the
specifications on small instances; TLAPS proves the main results for every value
of the constants. Source paths below are relative to `src/src/` unless they start
with `src/`.

All server code runs on one asyncio event loop. Code between two `await`s is
atomic, and other coroutines run at every `await`; every module therefore has one
action per stretch of code between two awaits.

## 1. Inventory

| part | state | operations | hard behaviour | what makes it correct |
|---|---|---|---|---|
| Circuit breaker `api/circuit_breaker.py` | state, failure count, time of last failure; process-wide `llm_breaker` | `state` (a read that changes state), `allow_request`, `record_success`, `record_failure`, `reset`, `stats` | shared by all sessions; answers arrive after the state they were admitted in has gone | count and state agree; no call is admitted during an outage; the life cycle |
| LLM retry loop `npc/dialogue.py:115-161` | attempt number, sleeping or awaiting | one invocation = up to 4 calls with back-off | sleepers meet a breaker opened meanwhile; non-text reply counted twice | every invocation ends; never an attempt too many |
| Rate limiter `api/rate_limiter.py` | timestamps per client | `is_allowed`, `cleanup`, the middleware | boundary of the window, rounding of Retry-After, pruning | no window overfull, Retry-After suffices, equals a limiter with perfect memory |
| Emotion, affinity `npc/emotion.py`, `npc/affinity.py` | mood, turn, decay counter, cooldown history; favour 0..100 | `update`, `tick`, `get_level` | effect depends on the last ten turns | cooldown limits farming; moods decay (they do not: finding) |
| Dialogue engine `npc/dialogue.py` | the two above, locals across two awaits | `generate`: filter, classify, retrieve, update, LLM, favour, trigger, decay | exceptions between steps; the response is built after steps that change what it reports | between messages the response describes the NPC |
| Chat handler `api/routes/chat.py` | position, memory context, the socket | accept, receive loop, pipeline, finally block | every await may raise; several connections share the gauge | gauge, client view, prompt and archive agree |
| Heartbeat `api/routes/chat.py:112-136` | `last_pong`, a task with a sleep | ping, check, close | runs beside a handler that may be away from the socket and is cancelled before the session's end is awaited | silence is bounded while the handler is in its loop, an idle client is kept |
| Memory `npc/memory.py` | Redis list per session, PostgreSQL summary | store, read, clear, save, summarise | RPUSH and EXPIRE apart; archive, then delete | the history is a dialogue; nothing is deleted unarchived |
| Metrics `api/metrics.py` | counters, histograms, one gauge | inc, dec (clamped at 0), text format | shared by all connections | the gauge never misses a session |
| Quest `quest/*.py`, `api/routes/quest.py` | status and progress per quest; trigger table | start, update, complete; detect, add, remove; hints by stage | `DEFAULT_TRIGGERS` is one list shared by all detectors; a completed quest can be started again; the reach of a hint follows the progress | a quest at 100 is completed; hints stay within reach (trigger table: not modelled) |
| Knowledge base `rag/ingestion.py`, `rag/chunker.py`, `rag/retriever.py`, `api/routes/admin.py` | chunks in ChromaDB, a BM25 index per retriever, the persona registry | ingest (upsert in batches) at start-up and by reloads, hybrid retrieve | upsert deletes nothing; reloads overlap in worker threads; edits, failures and crashes between two batches; chunks stored during a search | a reload takes effect; answers are current |
| Semantic cache `rag/cache.py` | per NPC an index set and one hash per entry | get, set, invalidate, in several Redis calls each | the calls of get, set and invalidate interleave, any of them may raise, hashes expire in between, a stored response may not decode | it forgets and errs only by what does not decode; what can be found expires; live entries stay listed |
| Middleware, error handlers `api/middleware.py`, `api/exceptions.py` | none of their own; the metrics registry counts | wrap a request in seven layers | nesting order; a request is admitted, handled and answered in steps that other requests interrupt | every answer is counted and named, whoever made it |
| Logging, config | none | | straight-line code | not modelled (start-up and registry: knowledge base) |
| REST routes, schemas, database models | none of their own | format other components' state | | not modelled |
| Evaluation `evaluation/`, `rag/evaluator.py` | none | score texts | | not modelled |
| Browser client `frontend/src` | the selected NPC, messages, profile; status, typing indicator, socket, timer, reconnect counter | select, send, receive, reconnect, fetch | close events of sockets given up, timers beside new selections, late answers of fetches | status, typing indicator and screen tell the truth; a lost connection is tried again or given up |

How they interact. The chat handler owns one `DialogueEngine`, one `MemoryManager`
and one heartbeat task per connection. It calls `generate()`, which calls the
classifier, the retriever, the emotion and affinity objects and the retry loop; the
retry loop asks the process-wide `llm_breaker`, which the health route also reads.
The handler and the heartbeat share the socket and `last_pong`. All handlers share
the gauge. The rate limiter stands before the HTTP routes only: a Starlette HTTP
middleware does not see WebSocket frames. The browser page holds one socket, to the
chat handler of the selected NPC, and fetches quests and profiles over HTTP. The
semantic cache is complete but no route uses it yet.

## 2. Modules

| module | models | correspondence |
|---|---|---|
| `CircuitBreaker` | `api/circuit_breaker.py` | each method is a function from the breaker's fields (a record) to its new fields |
| `LlmGateway` | the retry loop of several sessions over one breaker | `Begin`/`Retry` run to the call or the refusal, `CallSucceeds`/`CallFails`/`CallReturnsNonText` are the code after the await; `ReadStats` is the health route, `ForceReset` the public `reset`, which only tests call |
| `SlidingWindow` | abstract: a rate limiter that forgets nothing | what `rate_limiter.py` promises |
| `RateLimiter` | `is_allowed`, `cleanup`, the middleware | `log[c]` is the list of client c, `tracked` the keys; a timestamp is known by the request that left it |
| `Emotion` | `EmotionMachine`, `AffinityManager` | `update` and `tick` are functions on the machine's record; intensities are the three bands the code tells apart |
| `Dialogue` | `generate()` for one session | three steps: before the classifier, up to the LLM, to the response |
| `DialogueHistory` | the same, with all favour changes | history variable `ledger` |
| `ChatSession` | the handlers of all connections to one NPC, Redis lists, archive, gauge | `pc[c]` names the await; each action is the code from there to the next await or exception |
| `Heartbeat` | one session's heartbeat beside its handler, with a clock | `last_pong`, the task's timer, frames waiting at the socket; the `LeaveOn...` actions are the exits from the receive loop, two of them with the socket still open, and `EndSession` is the rest of the finally block |
| `Quest` | `quest/tracker.py`, levels and stages of `quest/hint_engine.py` | each method is a function from a quest's entry to its new entry |
| `Knowledge` | `rag/ingestion.py`, `rag/chunker.py`, `lifespan`, the reload route, `set_persona_registry` | one pipeline at start-up and one per reload; `job[j]` holds its locals, `ReadFile` is one turn of the file loop, `StoreBatch` one of the batch loop |
| `Hints` | `HybridRetriever.retrieve`, `HintEngine.get_hint_context`, the tracker's calls | `VectorSearch` is the code up to the vector search, `FinishSearch` the keyword index, the merge and the hint filter |
| `ForgetfulCache` | abstract: a cache that forgets and errs only by a response that does not decode | what the docstrings of `rag/cache.py` promise a caller, and the one exception the code makes (`AnswersFor`, `Miss`) |
| `SemanticCache` | `get`, `set`, `invalidate` of several callers | `task[c]` holds the call's locals and `pc` the Redis call it awaits; `Lapse` is Redis expiring a hash |
| `HttpEdge` | `api/middleware.py`, `api/exceptions.py`, the HTTP part of `api/metrics.py`, around `RateLimiter` | `Arrive` is the way in up to the limiter, `Handle` what happens inside of it, `Leave` the way out |
| `Browser` | `useWebSocket`, `App` | an action is one task of the browser's event loop; `socket` is `wsRef`, `stale` the sockets given up that have not closed |
| `MC*` | instances for TLC | constants and symmetry only |
| `*_proofs` | theorems and proofs about the module they extend | |

`LlmGateway` uses `CircuitBreaker`; `Dialogue` uses `Emotion`; `RateLimiter`
instantiates `SlidingWindow` and implements it under the identity mapping of `now` and
`req` (the lists and keys are hidden). `Hints` extends `Knowledge`, whose steps leave
the search and the tracker alone, and `Quest`; it implements `Knowledge` (proved).
`SemanticCache` instantiates `ForgetfulCache`: its live entries are those that are
listed and whose hash is there, and an operation is known by its kind, its NPC and
question, what it could see when it began and what it gave (`None` for a miss, `Raised`
for an exception, so that a lookup that fails is not taken for one that found nothing).
`HttpEdge` extends `RateLimiter` and composes it with the layers around it. `ChatSession` abstracts `generate()` to whether
the NPC's state changed and whether it raised (`Dialogue` has the rest), and the
heartbeat to closing a socket at any time (`Heartbeat` has when).

Abstractions worth knowing:

* A call to Redis, PostgreSQL or the LLM may raise at every point. A call that took
  effect but whose reply was lost is the effect followed by the raising of the next
  step: the handler leaves through the same exit.
* `Lapse` lets a Redis key with a time to live expire at any moment, sooner than the
  real hours; this only adds behaviours.
* A client that has left may or may not be noticed by a send (TCP), a socket the
  server has closed always is.
* Half seconds are the ticks of `LlmGateway`; there the jitter and a slow loop are a
  sleeper that wakes any time after the shortest back-off. A tick of `Heartbeat` is
  ten seconds.
* In `Heartbeat` the event loop is prompt: time does not pass while the heartbeat is
  due or a frame waits for an idle handler. With a slow loop every bound grows by the
  delay. How long the summary at the end of a session takes is left open (an LLM call),
  and so is what raises in the handler. The server closes the socket of an endpoint that
  returned (external).
* In the session modules a crash of the server and the cancellation of handlers at
  shutdown are not modelled: a session is never resumed, so there is no recovery to check.
  `Knowledge` has crashes, because the collection outlives them.
* In `Knowledge` a file is the list of its versions, and a version the list of its
  sections (title and text). Ids, stages and positions are computed as the code does; the
  `## `-splitting is the list. Reading a file is atomic, embedding has no state and is
  folded into reading, all persona files are read in one step and all of them parse.
* In `SemanticCache` an id is a model value given out once (a random one in the code).
  An embedding that does not decode, or has no similarity, never wins and is as similar
  as 0. A response that does not decode is another matter, since `get` has raised
  `best_similarity` by then: `Unreadable` are the entries it happens to. `set` stores none,
  so they are damaged entries or others' (`get` has an `except` for them).
* In `Dialogue` the LLM that classifies a message may say anything (`Answers`: any subset
  of `Answer` in the proofs), or fail; `Classified` is what `classify()` makes of it.
* In `HttpEdge` a path may come to any answer the layers can make; bodies are left out.
* In `Browser` a failing socket fires error and close in one task, so the status
  `error` is not seen between tasks. Frames the page ignores are left out (it has no
  handler for `session_start` and answers no `ping`).
* In `Hints` scores and reranking are left out: any candidates of the right number may
  come out on top. A lead is the first 200 characters, by which the merge tells results
  apart. The tracker is called between searches, as on one event loop.
* `Browser` assumes that "no NPC" is neither an NPC nor a socket, and nothing else of its
  constants but that the bounds are numbers.

## 3. Runs

Each run's instance is chosen so that every action and branch fires.

| run | instance and why it is enough | shows |
|---|---|---|
| `LlmGateway` | 2 sessions, 2 invocations each, 3 attempts, threshold 2, recovery after 3 ticks, clock to 5 and beyond for sleepers: a breaker opens, half-opens, closes and opens again while the other session sleeps or has an answer outstanding | `CountDecidesState`, `NoAdmissionDuringOutage`, `LifeCycle`, `InvocationEnds` |
| `LlmSingleProbe` (violation) | 3 sessions | `SingleProbe` fails: half-open admits everybody |
| `RateLimiter` | 2 clients, 4 counted requests and an exempt one, limit 2, window of 4 half-second ticks, clock over more than two windows: windows that overlap partly, prune, refuse and are cleaned up | `SlidingWindowLimit`, `RetryAfterSuffices`, `ImplementsSlidingWindow` |
| `Dialogue` | one reading per branch of `update` and the indifferent one, 6 turns: longer than both cooldown windows (3, 5) and both decay times (3, 5) | `FreshTurn`, `ResponseIsCurrent`, `CooldownHolds` |
| `DialogueDecay` (violation) | the same: three turns that call for no emotion after one that does fit in | `MoodsDecay` fails |
| `ChatSession` | one talker with a row and 2 frames, of any kind, beside a visitor who comes and goes; prompt window of one exchange, so that the second question's history is cut | `SessionsAreCounted`, `PromptEndsWithQuestion`, `HistoryIsDialogue`, `ClientIsCurrent`, `HistoryKeptUntilArchived`, `HandlerEnds` |
| `ChatArchive` (violation) | the same without rows | `ArchivedOnDisconnect` fails |
| `Heartbeat` | interval 3, timeout 1 (30 s and 10 s), 20 ticks: several times the longest silence of 7, two frames waiting, malformed ones among them | `SilenceIsBounded`, `IdleClientIsKept` |
| `Hints` | an NPC profile with 2 versions and a quest with 3, 5 chunks at most in batches of 2, so that a crash falls between batches; start-up and 2 reloads (symmetric), so that an older and a newer reading overlap; an edit that shifts the positions of the other file, one that inserts a stage under a title already used and one that rewords the end of a text with the same lead; reports of -5, 30 and 120, results cut to 2 and 1 | `ReloadTakesEffect`, `AnswersAreCurrent`, `HintsAreReached` |
| `SemanticCache` | 2 callers; an NPC with 3 entries, one close enough, one below the threshold and one closest of all that does not decode, so that their orders give every verdict and a set can overtake an invalidation; an NPC without entries | `ListedEntriesExpire`, `LiveEntriesStayListed`, `ImplementsForgetfulCache`, `OperationEnds` |
| `HttpEdge` | one client, 5 requests of which three are counted, limit 1, a window of one tick: one is admitted, the next refused, another admitted after the window, while others are inside; two paths share a label; a scrape at any point | `AnswersAreAccountedFor` |
| `Browser` | 3 NPCs, one without a persona, 2 attempts, 2 messages per conversation: two sockets can be closing while a third is dialled, and attempts can be used up | `StatusTellsTruth`, `TypingMeansAnswerDue`, `ScreenShowsSelected`, `ReconnectsOrGivesUp` |

The cfgs switch the deadlock check off because every instance has an end: bounded
clocks, invocations, turns and frames.

Bounds that are not in the code: `MaxInvocations`, `Horizon` (LlmGateway,
RateLimiter), `MaxTurns`, `MaxMessages`, `MaxInbox`, `MaxTime`,
`Versions`, `Reloads`, `Reports`, `SearchTypes`, `Entries` (SemanticCache), `MaxMessages` of
`Browser` and its one request of a kind in flight per NPC. They are guards of the
environment (new invocations, clock, new turns, client frames,
edits, requests and reports), never of code that
reacts. `cooldown_history` is pruned at ten turns, which six turns do not reach; the
longest window that is read is five.

### Liveness and fairness

`InvocationEnds` assumes weak fairness of the clock, of each session's due timer and
of the settling of its call: asyncio fires due timers, and the LLM client's transport
either answers or raises. `HandlerEnds` assumes weak fairness of each handler: the loop
resumes a coroutine whose await is over, and the services answer or raise. Nothing is
assumed of clients: a handler is only claimed to end once its socket is gone.
`OperationEnds` assumes weak fairness of each caller's next step: Redis answers or the
call raises. `ReconnectsOrGivesUp` assumes that the page's timer fires and that a
handshake, to open or to close, ends somehow; the browser guarantees both.

## 4. Findings

The violation runs are disagreements between the code and what it says of itself.

1. `SingleProbe`: `api/circuit_breaker.py:87` says "allow one probe"; half-open admits
   every caller until the first answer.
2. `ArchivedOnDisconnect`: `api/routes/chat.py:59` promises an archived summary;
   `save_summary` skips sessions without a `dialogue_sessions` row, no code creates one,
   and the history is deleted anyway.
3. `MoodsDecay`: `npc/emotion.py:61` and `src/README.md:133-134` promise that a mood
   returns to neutral after three or five turns. `update` restarts the counter on every
   turn of a mood that is not neutral, also when the message calls for none, and `tick`
   then counts to one: the decay is dead code in the pipeline (the unit tests call `tick`
   alone). The property asks only for a decay after that many turns without a trigger.

Known without a run of their own, by component.

*Gateway, engine, session.* `api/circuit_breaker.py:50` says "Consecutive failures", but
a success in the closed state does not reset the count; a client that answers every ping
is closed all the same while the handler is in the pipeline and does not read its pongs
(`IdleClientIsKept` is what holds); `src/README.md:274` promises that a connection
without a response for 40 s is closed, but a handler that leaves its loop on an open
socket, after a malformed frame (`api/routes/chat.py:140-147`) or because the message
cannot be stored or its context read (159-167), cancels the heartbeat (247) and then
awaits the summary, and until that ends the connection is neither pinged nor closed
(`SilenceIsBounded` is about a handler in its loop); a late success of a call admitted
before the outage closes a half-open breaker as a probe would
(`api/circuit_breaker.py:90`); the silence limit is checked only at pings, so a silent
client is closed after 60 to 70 s and not after 40 s (`SilenceIsBounded` is the bound
that holds); `affinity_change` is the delta before the clamp to 0..100
(`npc/dialogue.py:374`); `RateLimitMiddleware` never starts its cleanup task
(`api/rate_limiter.py:104`), so the table of clients grows; a client gone before
`session_start` is sent stays counted in the gauge for ever
(`api/routes/chat.py:94-105`), which `SessionsAreCounted` allows; RPUSH and EXPIRE are
two calls, so a failure between them can leave a key without a time to live
(`npc/memory.py:66`).

*Quests and knowledge.* `quest/hint_engine.py:48` promises chunks of stages already
reached only, but `store_chunks` upserts under ids that contain the chunk's position among
all files, so after an edit that shifts positions the old copy of a section stays in the
collection with the stage it had before, and the hint filter believes it
(`HintsAreReached` is what holds: the stage is within reach and is one that some version
gave the section); `generate()` retrieves quest chunks without
any filter by stage (`npc/dialogue.py:202-210`), and no route uses `HintEngine`, although
`src/docs/INTERVIEW_PREP.md:118-125` says that stages out of reach are left out of the
search; the quest chunker counts every `##` header, overview and background too, so
`quest_stage` runs ahead of the document's own numbering (`rag/chunker.py:101-108`); a
start-up that fails between two batches leaves an incomplete collection that every later
start-up takes for complete (`api/main.py:67`), which `ReloadTakesEffect` allows because
`synced` asks for an ingestion that ended; `triggers or DEFAULT_TRIGGERS`
(`quest/trigger.py:73`) makes `add_trigger` of one detector change all of them while
`remove_triggers_for_quest` changes only its own.

*Cache.* `rag/cache.py:84-86` promises a match above the threshold, but `get` raises
`best_similarity` (114) before it decodes the response (115): if that raises, the
response kept before, which may be below the threshold, is returned under the similarity
of the damaged entry, or a closer one than that is passed over (`AnswersFor` and `Miss`
of `ForgetfulCache` allow exactly this; with no such entry in Redis the promise holds,
which `ReadableHitsReachThreshold` proves). The entry of a set that overtakes an
invalidation keeps its hash but is unlisted, so nobody finds it (`rag/cache.py:178-186`;
`LiveEntriesStayListed` allows exactly this); a set cut after HSET leaves a hash that
never expires and nobody finds; the count that `invalidate` returns includes ids whose
hash had expired.

*HTTP.* Starlette nests the layers in the reverse of the order that
`api/middleware.py:3-11,136-139` and `src/README.md:606-630` give: logging is outermost,
then metrics, rate limit, security headers, errors, gzip, CORS. So a 429 has no security
headers although `api/middleware.py:76` says "every response", and no CORS headers, so
that a page of another origin cannot read it; preflights count against the limit. 429,
500 and the 404 of an unmatched path lack the envelope that `api/exceptions.py:3`
promises for all errors. The label of `/ws/chat/...` would be `{chat_id}`, not the
`{npc_id}` of `api/metrics.py:165`. Observations are kept one by one and unmatched paths
get keys of their own, so the registry grows for ever (`api/metrics.py:62`).

*Browser.* `/api/v1/quests` answers with a page of quests and `App` expects a list
(`frontend/src/App.tsx:190`), so rendering raises and the page goes blank when the
answer comes (`Blank`); the list of NPCs is a page too and is therefore ignored (line
173). The page answers no ping, so a player who is silent for a minute or so is
disconnected; the reconnection starts a session with a fresh mood while the profile
keeps showing the old one. A server that accepts and closes, as it does for an NPC
without a persona, is dialled for ever, because every open resets the attempts
(`frontend/src/hooks/useWebSocket.ts:82`). The profile of an earlier NPC that arrives
late replaces the selected one's (`frontend/src/App.tsx:206`), which is why
`ScreenShowsSelected` asks for a player who waits. A trigger that completes a quest not
in the list is shown as not started (line 104).

## 5. Proofs

Each `*_proofs` module proves its invariants from an inductive invariant `IInv`,
in the order `Init => IInv`, one lemma per action or group of actions, `[Next]_vars`,
and a temporal theorem by PTL. The theorems hold for all constants that satisfy the
module's named assumption, also beyond the bounds of the runs.

* `LlmGateway_proofs`: `TypeCorrect`, `CountAlwaysDecidesState`, `OutageAdmitsNobody`,
  `BreakerFollowsLifeCycle`. `CountDecidesState` is inductive by one lemma per breaker
  method; the outage needs, besides, that nothing is dated after `now`; types need that
  a sleeping invocation has an attempt left.
* `RateLimiter_proofs`, about `RateLimiter` and `HttpEdge`: `TypeCorrect`,
  `WindowNeverOverfull`, `RetryAfterIsHonest`, `ImplementsPromise`, `StackKeepsLimiter`,
  `AnswersAlwaysAccountedFor`. The limit is about all windows, the code only looks at
  the last one; `IInv` says that the list holds admitted requests only and every one
  that a window ending now or later can contain (`LogSound`, `LogComplete`), and that
  each refused request names a slot its Retry-After waits for. The refinement follows
  since the pruned list then equals the requests of the window that ends now. The layers
  take the limiter's steps or leave it alone (`StackKeepsLimiter`). For the accounting:
  a request is refused exactly when its answer is the limiter's (`Decided`), and a count
  grows by one exactly when the set it counts does.
* `Dialogue_proofs`, about `Dialogue` and `DialogueHistory`: `TypeCorrect`,
  `TurnsAreFresh`, `ResponsesAreCurrent`, `HistoryImplementsDialogue`,
  `CooldownAlwaysHolds`. Needed for the responses: while the LLM is awaited a mood that
  is not neutral has just been restarted (`since = 0`) and every decay time is longer
  than one turn, so that `tick` undoes no change the response reports. For the cooldown:
  the ledger has one row per turn, and the machine's history, pruned at ten turns, has
  the entries of the last eleven, twice what the cooldown looks at (`Remembered`).
* `ChatSession_proofs`: `TypeCorrect`, `SessionsAlwaysCounted`, `ClientAlwaysCurrent`,
  `PromptAlwaysEndsWithQuestion`, `HistoryAlwaysDialogue`, `HistoryAlwaysKept`. A step
  of one connection leaves the others untouched, so what a connection was told and its
  history (`Story`) is shown step by step for the one that moves; from its RPUSH to the
  reply's the question is last in the history, and before its RPUSH the history is of
  earlier turns. The gauge needs the cardinality of the active handlers under joining
  and leaving.
* `Heartbeat_proofs`: `TypeCorrect`, `SilenceAlwaysBounded`, `IdleClientAlwaysKept`.
  Needed: as long as the handler is in its loop the heartbeat runs or the socket is not
  open, so the next check is due before the bound; and a sign of life not yet taken into
  account still waits in the inbox.
* `Hints_proofs`, about `Knowledge` and `Hints`. For `Knowledge`: `TypeCorrect` and
  `ReloadAlwaysTakesEffect`. The first needs `Provenance`: every chunk in the collection
  or in a pipeline is one that some version of its file had, none newer than the disk's.
  The second needs `SyncInv`. A chunk's id contains its position among the chunks of all
  files, so the proof is about positions: what a pipeline holds is the chunks of the
  files it read, one after the other (`Joined`), and two pipelines that have read the
  same versions hold the same chunks at the same places (`JoinedOnce`: the least file
  they differ at would follow one they agree at). While the collection is in step with
  the files, or a pipeline is on the way to it, no running pipeline is outdated
  (`Undisturbed`); so whatever batches overlap, they put the same chunk under the same
  id, and what was stored stays (`StoredSoFar`, `AllStored`). The personas are squeezed
  between the versions read before them and those on disk, except at a start-up that
  does not ingest, which runs alone (`StartupFirst`). For `Hints`:
  `ImplementsKnowledge`, `HintsTypeCorrect`, `AnswersAlwaysCurrent`,
  `HintsAlwaysReached`. Needed besides `Provenance`: what the vector search found is of
  its type, the reach a hint was asked with is still the player's, and an index is only
  kept over an empty collection when it is empty itself. The knowledge base's part of
  the invariant is reused, since each step of `Hints` is one of `Knowledge` or leaves it
  alone.
* `SemanticCache_proofs`: `TypeCorrect`, `AnswersAlwaysExpire`,
  `LiveEntriesAlwaysStayListed`, `ImplementsPromise`, `ReadableHitsReachThreshold`. An
  id is listed by the set that made it and by no other, and only once it has a time to
  live; an id that a lookup is about to unlist has no hash and never gets one again,
  since ids are given out once. For the refinement, what a lookup has read is bounded by
  what was live when it began: an entry it has not read is still to do, and one it has
  read and that is still live is no closer than the best similarity so far, which is
  that of the response kept or of a closer entry that does not decode (`Decides`); what
  an invalidation found is deleted or still to do.
* `Browser_proofs`: `TypeCorrect`, `StatusAlwaysTrue`, `TypingAlwaysDue`,
  `ScreenAlwaysOfSelected`. Needed: a pending timer has the selected NPC's socket to
  replace and only an open socket has anything on its way, tokens followed by the frame
  that ends them (`SocketOK`); answers shown, on their way and due together never
  outnumber the questions (`AnswersAreAsked`); a player who waits has asked for no other
  profile (`ProfilesAskedFor`).

Every invariant and every action property that a passing run checks is proved. Only
model-checked: liveness (`InvocationEnds`, `HandlerEnds`, `OperationEnds`,
`ReconnectsOrGivesUp`), which is out of the prover's reach. The violations are
counterexamples of TLC.

## 6. Plan

What is left, in this order:

1. A collection that equals the documents on disk after every undisturbed ingestion, as an
   abstract specification that `Knowledge` implements: the proof of
   `ReloadAlwaysTakesEffect` has the invariant it needs.
2. `ChatSession` abstracts `generate()` and the heartbeat; that the steps of `Dialogue` and
   `Heartbeat` are steps of this abstraction is argued in section 2 and not proved.

## 7. Not modelled

Texts: prompts, replies, summaries, how the LLM classifies a message, the format of
metrics and logs. Scores of retrieval and reranking. The offline evaluation.
Configuration and logging. Persona files that do not parse, and the ingestion by
`src/scripts/ingest.py` beside a running server. Read-only REST routes. `async_retry`
(`api/retry.py`), which nothing applies and whose control is that of the retry loop.
Changes to the trigger table, which nothing in the source makes. Compression, CORS, the
drawing of the page, and its lists of quests and NPCs. The sums, buckets and text format
of the metrics.

## 8. Running

    tlc -config ChatSession.cfg MCChatSession
    tlapm ChatSession_proofs.tla

`PROJECT.json` lists the runs with their modules and properties, the mutants that each
property rejects, the theorems and the source lines of every definition.
