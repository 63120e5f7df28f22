# AI Captain Service: TLA+ models, model checking and proofs

This directory specifies the parts of the AI Captain service (`src/app`) whose
correctness depends on the order in which concurrent things happen: asyncio tasks
that share an object, processes that share Redis, requests whose answers are lost,
keys that expire. Each module is translated from the code; where the code and what
the repository says of it disagree, a run shows the disagreement.

Contents: [1 Inventory](#1-inventory) · [2 Modules](#2-modules) ·
[3 Runs](#3-runs) · [4 Bounds](#4-bounds) · [5 Fairness](#5-fairness) ·
[6 Proofs](#6-proofs) · [7 Disagreements](#7-disagreements) ·
[8 Not modelled](#8-not-modelled) · [9 Plan](#9-plan) · [10 How to run](#10-how-to-run)

## 1 Inventory

One process runs one asyncio event loop. Code between two awaits is atomic; at every
await other tasks of the process, other processes, Redis, the Laravel backend and the
clients may act. A client opens a WebSocket per session; the endpoint
(`api/websocket_endpoints.py`) authenticates it, asks the rate limiter, cancels a
pending recovery, marks the session active, and then handles one message at a time.
A text message, or the transcript of an audio turn, goes to the Gemini orchestrator,
which loads the menu and may call a tool that changes the cart in the backend. On
disconnect the session is marked inactive and its recovery is scheduled.

| Component | State | Operations | Interacts with | Hard behaviour | Correct when |
|---|---|---|---|---|---|
| Circuit breaker `infrastructure/circuit_breaker.py` | state, failure count, half-open slots, time of the last transition; one per service name in the process | allow_request, record_success, record_failure, reset | called by the retry service around each attempt | results arrive late, out of order, never | counts match what is in flight; it stops calls, and probes again |
| Retry service `infrastructure/retry_service.py` and HTTP client `http_client.py` | attempt number; nothing shared but the breaker | execute, request, post_json, get_json | breaker, backend, Gemini | retries after lost answers, cancellation in a sleep or a request | every call ends; reports once per attempt; retries what may be retried |
| Recovery `services/recovery_service.py` | task table of each process; marker and active key in Redis | schedule, execute, cancel | endpoint, Redis, HTTP client | cancellation at any await, several processes, crashes, key expiry | an abandoned session is reported once, after the delay, not while in use |
| Rate limiter `websocket/rate_limiter.py` | sorted set and its TTL per key | check and reset (per IP, session, connection) | endpoint, Redis | four separate commands, concurrent clients, key expiry | no window holds more than the limit |
| Audio buffer `websocket/audio_buffer_service.py`, handlers `websocket/handlers.py` | buffer of a connection: audio, type, next sequence number | append, finalize, clean up | receive loop, rate limiter, transcription | messages turned away in the middle of a turn, disconnects | what is transcribed is what was spoken, or the client was told |
| Conversation turn: `gemini_orchestrator.py`, `tool_execution_coordinator.py`, `cart_backend_gateway.py`, `tools/cart_tools.py`, `session_service.py` | turn id, idempotency key; last messages, metadata and snapshot in Redis; the cart in the backend | process_user_message, execute_tool, update_cart, validate_offer_code, persist_conversation_turn, append_turn | Gemini, backend, Redis | failures between the cart change and its record, late requests, read-modify-write of the metadata, two connections of a session | one turn changes the cart once; what the user is told was done; no turn undoes the record of an earlier one |
| Tool call validator `tool_call_validator.py` | schemas | validate | coordinator | checks first, changes afterwards | what reaches a tool conforms to its schema |
| Menu cache `menu_context_provider.py`, `redis_client.py` | memory of each process, entry in Redis | get, invalidate, warm, clear | Redis, backend | a fetch racing an invalidation, other processes' memory, failed commands | lags a bounded time behind the backend; an invalidation takes effect |
| Redis client `redis_client.py` | locks and their extension tasks, pool, health task | acquire, release, extend, connect, disconnect; pipeline, batches | Redis | retried SET NX, extension racing release, task table | a lock is taken from its owner by nobody else, kept while extended, free in the end |
| Prompt manager, prompt builder | template registry | register, get, render, reload | orchestrator | hot reload | returns the newest version |
| Authentication, security, message validation, routing, sending | revocation keys | checks before and during a connection | endpoint | sequential | rejects what it must |
| Speech services, Telegram bot, life cycle, configuration | none of their own | I/O | everything | start and stop order | - |

The hazards this leads to are listed with their lines in `PROJECT.json`.

## 2 Modules

`CircuitBreaker` is the abstract specification of what the calls of a service do to its
breaker. `RetryService` contains an instance of it and is shown to implement it
(`BreakerSpec`). `MenuRegister` is the abstract specification of the menu cache and
`MenuCache` implements it (`RegisterSpec`). `CartTurn` extends `ToolCallValidator`. The
other modules each model one protocol with its environment. Each `MC*` module only
declares the model values, inputs and symmetry of its configuration.

**CircuitBreaker.** `state`, `consecutiveFailures`, `halfOpenUsed` are the attributes of
the same names. `elapsed` stands for `now - _last_state_change_time`, which is only
compared with the timeout, so it stops there; the failure count stops at the threshold
for the same reason (`Saturated`). `inflight` are the callers between allow_request and
their report. Methods contain no await and are one action each; `Blocked` is
allow_request returning False. `Cancel` is the cancellation of the awaiting task, which
reports nothing. The histories `probes` and `lostProbes` tell which slots are held by
awaited and which by cancelled calls.

**RetryService.** `pc` is `attempt` (about to ask the breaker), `sending` (awaiting the
request) or `backoff` (asleep). `Send` asks the breaker and sends; `Fail` records the
failure and decides about another attempt, both without an await in between, as in
`execute`. Errors are grouped by what `_evaluate_retry` tells apart; an error response
whose text happens to match a retry pattern is `gatewayError`. The threshold is that of
`_get_circuit_breaker`, HTTP_MAX_RETRIES + 2. `blamed` is a history: the calls whose
failures make up the current run of consecutive failures.

**Recovery.** One session. `pc` follows each connection's handler from connect
(`deleteMarker`, `activate`) to disconnect (`deactivate`, `checkMarker`, `claim`), one
step per Redis command. `task` and `sleep` follow the recovery task each disconnect may
create, `table` is `_scheduled_tasks` of each process, `marker` the Redis key with its
time to live. A cancelled task unwinds in a step of its own (`Unwind`), with the SETEX
that may still reach the server. Everything that can go wrong is a named fault in
`Faults` and is recorded in `happened` when it occurs, so that each property can name
the faults under which it no longer holds.

**RateLimiter.** One key. `Check`, `Trim`, `Count`, `Add`, `Expire` are the clock reading
and the four commands of `_check_limit`; `Fail` is an exception from any of them, `Reset`
any of the reset functions, which an administrator may call at any moment. Time
is whole ticks; an entry of the sorted set is its time stamp, as in the code
(`{str(now): now}`), and two clients never read the same instant. `happened` tells what the
exact limit exempts: checks that overlap, a key that goes between ZADD and EXPIRE
("expiry"), and one that expires between the clock reading and ZCARD ("late").

**AudioTurn.** One connection at a time and a client that numbers the chunks of each turn
from 0, sends none after the turn's audio_end and does not wait for answers. It may give a
recording up without audio_end and begin another on the same connection (`NextTurn`), which
the server does not notice. A turn begins with its first chunk: an audio_end before that is
one of the turn before. `buffer` is the AudioBufferState. Any message may be turned away
by the rate limiter (`Limited`), as the receive loop does before it looks at it. Chunks
carry their turn so that a property can tell whose audio was transcribed; the history
`handled` has the turns of which an audio_end reached AudioEndHandler.

**CartTurn.** Several connections of one session. `Say` starts a turn with a new id;
`ModelCallsTool` and `ModelCallsWrongly` are the model's function calls (`Calls`), which
the coordinator has validated and cleaned; `sent` is the call under way. `Key` is the
turn with the order, since the session is fixed and the hash has no collisions; a
`turn_id` that gets through with the arguments takes the place of the turn's own
(`TurnSent`). `PostAnswered`, `PostUnanswered` are attempts of the cart request, and
`LateApply` is the backend executing a request nobody waits for any more. The backend is
external: it applies a request once per `X-Idempotency-Key`, which
`LARAVEL_BACKEND_REQUIREMENTS.md` asks of it. `OfferAnswered`, `OfferUnanswered` are the
requests of validate_offer_code. persist_conversation_turn is five commands on Redis
(`SaveUserMessage` to `WriteCount`), each executed and answered, executed without an
answer, or not executed (`Then`, `RecordFails`); append_turn writes the metadata, reads
them back and writes what it has read (`read`). `StoreTakesTTL` says whether
RedisClient.save_last_user_message accepts the argument it is called with. In the code it
does not (section 7), and every turn ends in `RecordFails` at its first command; the
passing run takes TRUE, which includes those behaviours through the Redis fault and also
explores what the rest of the turn does once the signature agrees.

**ToolCallValidator.** Operators only. A JSON value is a record with its type and what
the checks look at: a string's length and what strip() leaves of it, a number's amount, the
kinds of an array's items; NaN is a number without an amount. `Accepts` is validate
finding no error, `Sanitized` its sanitized_arguments, `Conforms` what a tool may rely on
afterwards.

**MenuCache.** One restaurant. `cache` is the memory of each process with the age of its
entry, `redisMenu` the entry in Redis with its time to live, `call` the running calls of
get_menu_context, invalidate_cache and warm_cache, one step per await. A command of Redis
is executed in one step and its answer handled in another; it may fail, or be executed
and sent again because its answer was lost. Menus are numbered as the backend publishes
them; the mock menu is number 0. `superseded` says how long ago each menu was replaced.

**MenuRegister.** The promise: a reader is given the backend's menu, or one that was
superseded at most `Bound` ticks ago, or the mock after a failed fetch of its own. Menus
that warm_cache has saved when they were superseded are `pinned` and exempt, because
repeated warming keeps them for ever.

**RedisLock.** One lock key. `lock` is the key, `user` the tasks that acquire, hold and
release it, `loop` the extension task of each lock value, `table` the entry of
`_lock_extension_tasks` for the key. A cancelled loop unwinds in a step of its own
(`Unwind`), unless it was cancelled before its first step; its finally clause pops the
entry whosever it is (`EndLoop`). All locks of the key have one time to live, `TTL`; a
user's extend_lock has one of its own (`Extensions`, above 0, as EXPIRE deletes the key
otherwise). `happened` tells whether something occurred that may take the lock from a user
that extends it ("disturbed"), or left an extension without a user ("runaway").

## 3 Runs

| Run | Shows | Result |
|---|---|---|
| `CircuitBreaker` | three callers, all cancellable: failure count, slots and late results are handled right; it keeps probing unless cancellations took every slot | holds |
| `CircuitBreakerCancel` | "periodically probing for recovery" | violated |
| `RetryService` | two calls implement the breaker's specification, end, do not trip it alone, give up on what is worth retrying only when exhausted, and retry nothing else | holds |
| `Recovery` | three connections, two processes, five kinds of faults: table, marker, timing and duplicates | holds |
| `RecoveryExpiry` | an abandoned session is reported | violated |
| `RateLimiter` | exact alone, bounded overshoot together | holds |
| `AudioTurn` | audio is in order, never silently wrong, turns mixed only if no audio_end of the earlier one was handled | holds |
| `AudioTurnTranscript` | a transcript is processed as a text message | violated |
| `CartTurn` | a turn's cart change: at most once, applied if confirmed, recorded if answered; only valid tool calls; no turn that ran alone undoes an earlier turn's record or snapshot; every message answered | holds |
| `CartTurnResend` | an order is applied once | violated |
| `MenuCache` | two levels of cache in two processes implement a register with bounded delay; an invalidation takes effect in its process | holds |
| `RedisLock` | a lock with its extension: taken by its owner alone, kept while held, free in the end | holds |

Each property of a passing run has a mutant in `PROJECT.json`: a change of the modelled
code, written next to the definition it replaces, that makes TLC refute the property.

Under which faults the promises of the recovery hold was found by running the model with
every set of up to three faults. The smallest sets that break a property are:

| Property | Broken by any of |
|---|---|
| `TaskInTable` | overlap; slowUnwind |
| `NoPostWhileConnected`, `OnTime` | overlap; otherProcess; slowUnwind |
| `NoDuplicateWebhook` | overlap; otherProcess; slowUnwind; lostReply |
| `MarkerBacked` | overlap; crash; redis |

These sets are the `Undisturbed` conditions of the properties. As "overlap" (two tabs)
switches off every one of them, the run leaves it out; `TypeOK` was also checked with all
six faults.

Other properties name their exemptions in the same way, and each is needed, as the property
is violated without it:

| Property | Exempt |
|---|---|
| `LimitRespected` | overlapping checks; a key gone between ZADD and EXPIRE; one expired between clock reading and ZCARD |
| `OvershootBounded` | a key gone between ZADD and EXPIRE |
| `RecordIsFresh`, `SnapshotAdvances` | turns that overlapped |
| `OnlyValidSent` | a blank string, which is stripped to an empty one |
| `RegisterSpec` | menus that warm_cache saved when they were superseded, and the mock |
| `InvalidationTakesEffect` | another call of the process at the same time, or one of any process that carries an older menu |
| `KeptWhileHeld` | a late event loop; Redis failing; a closed client; a release that cancels another lock's extension; an extend_lock that ends before the loop wakes |
| `LockFrees` | a release that fails while an extension outside the table runs on |

The hazards behind these exemptions are real in the code; section 7 lists them. What the
properties show is that nothing else breaks the promise.

## 4 Bounds

- `CircuitBreaker`: 3 callers, threshold 3, timeout 2, 2 probes. Three callers fill the
  probe slots and leave one to report late; a count of 3 is reached by failures that
  reset, success and cancellation interrupt at every point.
- `RetryService`: 2 callers, 2 attempts, so the threshold is 4: both calls together reach
  it, one does not. Timeout 1 and 2 probes let both calls retry into every breaker state.
- `Recovery`: 3 connections (`MaxConns`), 2 at once (`MaxAtOnce`), 2 processes, delay 2,
  completed marker 1. A third connection meets the remains of two tasks. `reports` stops
  at 2, enough to tell a duplicate. `RecoveryExpiry` needs one process and no fault.
- `RateLimiter`: 2 clients, limit 1, window 6, at most 3 ticks per check (`MaxStall`), 11
  ticks of the clock after its start (`MaxNow`): nearly two windows, so entries and key
  expire, or are reset, while checks run. With 2 ticks per check no key would expire between
  a check's clock reading and its count; with 3, `LimitRespected` is violated without "late".
  The window less the stall has room for more requests than the overshoot allows.
- `AudioTurn`: 2 turns (`MaxTurns`) of at most 3 chunks (`MaxChunksPerTurn`), sizes 1 and
  2, limit 4: the limit is met in the middle of a turn, and audio of one turn can meet
  that of the next.
- `CartTurn`: 2 connections, 2 attempts, 2 turns (`MaxTurns`): a retry, a late request and
  an overlap of turns all occur, and so does a turn after an answered one. 20 function
  calls (`MCCalls`): right ones, one wrong in each way the validator knows, and the values
  on its bounds; with `MaxArguments` 7 one call has too many arguments.
- `MenuCache`: 2 processes, 2 calls at once, time to live 1, at most 1 tick per call
  (`MaxDelay`), 2 menus (`MaxMenu`), 1 failed fetch (`MaxFailures`). A menu can be fetched
  by one process, superseded, loaded by the other and invalidated by either while it is on
  its way. Processes and calls are symmetric. It is the longest run, about two minutes.
- `RedisLock`: 1 process, 2 users, 2 lock values, time to live 4, 2 attempts, all four
  faults. The loop sleeps 2 ticks; users extend by 1 tick, which never reaches its waking, 2,
  which does if the loop has slept one, and 6, more than the lock's own time. Users of one
  process share its task table, which is where the hazards lie. With 2 processes, time to
  live 2 and extensions by 1 and 3 (1,536,762 states) the properties were checked, too.

`CHECK_DEADLOCK FALSE` stands where a bound or the client ends the behaviour. The breaker
and the retry service never stop, nor does the menu cache, whose processes may always
restart, ask or wait; deadlock is checked for them.

## 5 Fairness

Weak fairness only. The clock advances (`Tick`). The event loop resumes every handler,
task and call whose await is over, and each await ends: httpx and the model's client
have timeouts, Redis answers or raises, sleeps are finite. Nothing is assumed of users
(connecting, disconnecting, speaking), cancellation, crashes, faults, or late requests.
For a fault that competes with a regular step fairness covers their disjunction, so the
fault is never forced. In `RedisLock` the lock's users are fair in what they await, but
nobody has to release a lock. `RateLimiter`, `AudioTurn` and `MenuCache` have no liveness
property and no fairness.

## 6 Proofs

Every invariant and every safety property of a passing run is proved for all values of the
constants that satisfy the modules' assumptions, and so are the two refinements. Each proof
module names its inductive invariant (`IInv`, `Inv` in CartTurn), which was checked by TLC
on the instance of section 4 first; `Invariance` is the theorem that it holds.

**`CircuitBreaker_proofs`**, for every finite set of callers, every threshold and slot
number above 0 and every timeout: `TypeCorrect`, `ClosedBelow`, `SlotAccounting`, and
`LateResults` from the definitions of the actions alone. `IInv` adds that probes exist only
while half-open, and leaves the bound on `lostProbes` out of the types because it is a
consequence of slot accounting (a lost probe was once a slot, and slots are bounded by the
guard of `AdmitProbe`). Cardinalities change by one per step (`ProbeCount`).

**`RetryService_proofs`**, for every finite set of callers, any of them cancellable, and all
limits.

- `CallsUseBreaker` is the refinement `BreakerSpec`: a `Send` is an admission, a result a
  report, a cancelled request a cancellation, and the rest leaves the breaker alone.
- `SharedBreaker`: hence the theorems about the breaker hold of the one the calls share, with
  the threshold that `_get_circuit_breaker` gives it. `SameBreaker` identifies the two
  instances of CircuitBreaker. `TypeCorrect` uses it for the breaker's part of the types.
- `OneCallCannot` needs the invariant `BlameBounded`: if one call alone is to blame for the
  current run of failures, there are no more of them than attempts it has finished, which
  are at most HTTP_MAX_RETRIES and so below the threshold.
- `InflightCorrect` and `GivesUpCorrect` are inductive with the types. `GivesUpCorrect` goes
  both ways: what is worth retrying for the caller (`WorthRetrying`) is raised after the last
  attempt only, and whoever sleeps before another attempt has met such an error.

**`Recovery_proofs`**, for any number of connections and processes, any delay and any set of
faults. The invariant has three layers: `Structure` (connections come in order, a task exists
only after its connection closed, one connection or one process at a time if there was no
"overlap" or "otherProcess"), `Tasks` (the table is free from the reply to DEL to the claim,
and at most one task per process has not ended) and `Outcome` (`DelayKept`: what a sleeping
task has left and the time since the disconnect add up to the delay; `ReportedOnce`: after a
webhook no task is left that could send another). Each conjunct holds until one of its own
faults happens; `History` says that faults are never forgotten, so a step has to be looked at
only when it does not cause one. Each step is first reduced to its effect on these variables
(`TaskEffects`, `HandlerEffects`, `ConnectEffects`, `ClaimEffects`). From it follow
`TypeCorrect`, `TasksTracked`, `NoDuplicate`, `MarkersBacked`, `NoPost`, `PostsOnTime`.

**`RateLimiter_proofs`**, for every finite set of clients, every limit and window, and checks
of any duration (`MaxStall`; the Redis client sets no time limit for its commands). The
period of `OvershootBounded` is the window less that duration.

- `Kept`: the sorted set has every granted request that still counts, since the key outlives
  its window (`Deadlines`). `Admitted` adds to the granted requests those that have passed
  the count and whose EXPIRE is still to come.
- `LimitCorrect`: one client at a time counts exactly what its window holds (`Alone`), so
  `WithinLimit` of the admitted requests is kept by `Count`, the only step that admits one.
- `OvershootCorrect`: when `Count` lets a request through, the set has fewer entries than the
  limit, and what is admitted and not in the set is pending, one request per other client
  (`AtMostEntries`, `AtMostOthers`, `AddUp`).

**`AudioTurn_proofs`**, for any number of turns and chunks, any sizes and limits, and whatever
the rate limiter turns away: `TypeCorrect`, `InOrderCorrect`, `NeverSilent`,
`MixedByUnended`. `Faithful` says that the buffer is what was spoken unless the client was
warned, `Unmixed` that it begins with the turn's first chunk or has leftovers of an earlier
turn; both need to know when a buffer outlives its turn, which is when no audio_end of it was
handled (`Phases`). The size of a buffer is the last of running totals (`SizeIsTotal`) and not
a fold over its chunks, as what a fold computes can only be proved by induction over data,
which is out of the provers' reach.

**`CartTurn_proofs`** has three parts.

- *The validator.* `SanitizedConforms`: whatever arguments the validator accepts in strict
  mode, cleaned, conform to the tool's schema. It needs of strip() only that it makes no
  string longer and leaves the names of the actions alone (`Strippable`).
- *The cart*, for every finite set of connections, every number of turns and attempts, every
  set of function calls and either kind of store, from `Assumptions`: the module's
  assumptions on its constants and `Strict`. Without strict mode, which is the default, an
  argument called turn_id replaces the turn's id, and neither `OnlyValidSent` nor idempotence
  holds. `TypeCorrect`; `ValidCalls`: a tool gets conforming arguments only, under its own
  turn; `Idempotence`: a turn changes the cart at most once; `Confirmation`: a confirmed
  change was applied under that turn's key. Idempotence is not inductive: a request that has
  not arrived yet could carry another key of the same turn. `Inv` therefore speaks of all
  keys, under way or applied (`Keys`): no two running or past turns share an id
  (`TurnIdsUnique`), and a key's turn determines the key (`KeysOfTurns`). `Say` keeps this
  because its id is above all earlier ones, a POST because it adds the only key of its turn
  (`KeyIsTheTurns`, `AddKey`), a late request because it moves a key that is already counted.
- *The record*, a second layer on `Inv`. `FreshRecord` and `RecordedBeforeAnswered`, from
  `RInv`: a turn leaves in Redis its own id or that of a turn that overlapped (`Recent`), and
  knows which of the record's fields it has already seen to (`Recorded`); a turn that is not
  the newest while it runs has overlapped (`Concurrent`). So what append_turn writes back is
  as recent as what was there. `SnapshotOrder`: the snapshot is never ahead of the backend's
  cart, the cart only grows (`CartGrows`), and a turn that ran alone holds one not older than
  the snapshot (`SnapshotIsOld`).

**`MenuCache_proofs`**, for any number of processes and calls, every time to live and delay.

- `Implements` is the refinement `RegisterSpec`. `Fresh(v, k)` says that menu `v` was
  superseded at most `k` ticks ago, or is pinned, and `Freshness` gives each copy what it may
  have used up of the bound 2 TTL + 2 MaxDelay: a fetched menu the time of the call that carries
  it, one in Redis that call's delay and the time it has spent there (MaxDelay + TTL less what
  it has left), a loaded one the time of the loading call on top, one in memory
  2 MaxDelay + TTL and its age. Every step of a call has one of the effects of
  `StepFacts`, `StepFrame` leaves all other copies alone, and `TickInv` takes one tick from
  each. `RegisterStep` then maps every step to one of the register's or to a stutter.
- `InvalidationCorrect`: no copy in reach of a process is older than its floor
  (`AboveFloor`), which is raised only by an invalidation that no other call of the process
  has disturbed and that leaves its memory empty (`Undisturbed`).

**`RedisLock_proofs`**, for any number of processes, users and lock values, every time to live
above 1 and any times by which users extend the lock.

- `KeepsLock`: each user has a value of its own (`OwnTokens`), and as long as nothing has
  disturbed it (the exemptions of section 3) the lock of a user that extends it lives longer
  than its loop still sleeps (`Extended`), so that it never expires. A shorter extend_lock
  is covered as long as it reaches the loop's waking.
- `Exclusion`: under the same conditions no two users, of whatever processes, hold and extend
  the lock. It follows from `KeepsLock` and `OwnTokens`.
- `OwnersRelease` holds whatever goes wrong, from the actions and the types.

Model-checked only, as the proof system has no rule for fairness and ENABLED: the liveness
properties `KeepsProbing`, `CallEnds`, `TasksEnd`, `MessagesAnswered` and `LockFrees`. The
violations of section 7 are counterexamples on their instances. Nothing is proved of the
bounds themselves: counters that the guards cap (`MaxConns`, `MaxTurns`, `MaxMenu`, `MaxNow`)
are constants, and the theorems hold for each of their values.

## 7 Disagreements

With a run:

1. *Cancelled probes.* A probe whose task is cancelled reports nothing
   (`retry_service.py:194` catches Exception, CancelledError is a BaseException). When all
   probes of a half-open period end so, the breaker rejects every request for good.
2. *Expired marker.* The recovery marker's time to live is the task's sleep
   (`recovery_service.py:71`, `:107`). The marker is set first and is gone when the task
   wakes, and the session is not reported.
3. *Transcripts.* `handlers.py:229` calls the union type IncomingMessage; every successful
   transcription ends in "Audio processing failed".
4. *Repeated orders.* `session_service.py:131` passes one argument too many
   (`redis_client.py:667`): every turn fails after its cart change, the user repeats the
   order, and the new turn has a new key.

Visible in the models, without a run of their own:

- Concurrent clients exceed the limit of their rate limit key; a key that expires between
  ZADD and EXPIRE forgets a request; a failure between the two leaves a key without a time
  to live (`rate_limiter.py:162-163`); a key that expires between the clock reading of a
  check and its ZCARD takes requests with it that still count (`:126`, `:134`).
- Turns of two connections of one session run concurrently and may save the older
  snapshot last (README.md:46, :175 promise sequential turns; `TurnProcessor` is unused).
- Two tabs, another process, or a task that unwinds slowly let a webhook go out while the
  user is connected, early, or twice; a lost answer lets it go out twice.
- After a crash or a Redis failure a marker without a task stays until it expires, and
  disconnects in that time schedule nothing.
- A turn whose audio_end the rate limiter turned away, or whose recording was given up
  without one, stays in the connection's buffer: chunk 0 of the next turn is rejected, a
  later one whose number fits is appended, and the audio of both is transcribed as one
  (`audio_buffer_service.py:37`, `:113`).
- MAX_AUDIO_CHUNKS is compared with 0 (`message_validator.py:171`) and never limits
  anything; the type of a buffer may change after WAV chunks (`audio_buffer_service.py:41`).
- Writes meant to be retried on network errors only (`http_client.py:135`) are retried on
  502 and 503, whose text matches a pattern; a 4xx counts as a failure of the service; with
  HTTP_MAX_RETRIES = 0 every call fails with "unreachable state".
- With ENABLE_RECOVERY off, recovery_service is None and `websocket_endpoints.py:186` raises
  for every connection; the models assume it is on.
- A reply without a cart has the snapshot `{}`, which is not None and is saved
  (`gemini_orchestrator.py:327`, `:365`); CartTurn assumes that replies carry the cart.
- The key leaves out notes and addons (`cart_backend_gateway.py:67`): CartTurn assumes one
  change per turn. In non-strict mode a `turn_id` among the model's arguments is kept
  (`tool_execution_coordinator.py:128`) and gets into the key. A session_id or
  restaurant_id among them is kept in every mode (`gemini_orchestrator.py:308`); the model
  has one session only.
- append_turn erases the session's metadata before it reads the turn count
  (`session_service.py:106`), so the count is never more than the number of turns whose
  appends overlap; start_session, which writes the other metadata, is called by nothing.
- The validator rejects `notes: null`, which the tool's declaration allows; it lets NaN
  through the range check of an offer's subtotal, and a blank string through the check of
  its length, which is stripped to an empty one later (`tool_call_validator.py:302`). An
  addon without an id, or an empty id, that the validator lets through fails in the gateway.
- A validated offer code is reported to the model but recorded as a failed tool call,
  because the result has no "success"; the event about it has no code, because the result
  has none (`handlers.py:100`). When the model's comment on a failed tool call is empty
  the user is told that the cart was updated.
- The menu in the cache may be two times to live behind the backend, as Redis hands an
  entry to a process without its age. warm_cache can keep a superseded menu for ever, and
  puts the mock menu into Redis when the fetch failed (`menu_context_provider.py:231`).
  An invalidation leaves other processes' memory alone, and a call that was loading or
  fetching at the time restores the older menu. clear_all_cache invalidates only the
  restaurants that this process has in memory. The version key is never compared with anything.
- A lock's release cancels whatever extension the process has for its key
  (`redis_client.py:735`); the finally clause of a replaced loop pops its successor's entry
  (`:790`), and a release that then fails in Redis leaves that successor extending a lock
  nobody holds, for ever. A SET NX that is repeated after a lost reply finds its own value
  and returns False, and the lock stands until it expires (`:717`).
  REDIS_LOCK_AUTO_EXTEND_AT is ignored: the loop sleeps for half of the time to live.
  extend_lock takes "Additional TTL" (`:756`), 10 by default, which EXPIRE sets whatever is
  left (`:145`): a user's extension may shorten a long lock, which then expires while its
  loop sleeps. A connect that fails after a disconnect leaves a client that counts as
  closed, which no further connect repairs. Nothing in src/app uses locks yet.
- `_retry_async` catches the built-in ConnectionError and TimeoutError, which are not those
  that redis-py raises; RedisLock covers both, as the number of attempts is arbitrary.

## 8 Not modelled

- Metrics, logging and texts; delays of the backoff, which are only finite; on_retry and
  other callbacks, which nobody passes; the rate limiter's reset time; speech synthesis,
  which follows the answer and whose failure is only logged; Telegram.
- Authentication, security checks, routing and configuration: sequential checks without
  state of their own (revocation keys apart), tables and declarations.
- The prompt manager: the orchestrator constructs it and never calls it, and
  check_for_updates compares each template it has with its own checksum, so that a changed
  file is not reloaded unless its version is new. The prompt builder is a pure
  function; the prompt refers to the menu and does not contain it.
- TurnProcessor: not used by the endpoint; its _execute_turn raises NotImplementedError.
- start_session, order links, pipelines, batches, audio storage, recovery state records:
  called by nothing in src/app. The health task writes a flag that nothing reads.
- The expiry of the session's keys: a session that outlives its metadata starts anew.

`PROJECT.json` gives the reason for each component.

## 9 Plan

1. (done) CircuitBreaker and RetryService, Recovery, CartTurn, RateLimiter, AudioTurn;
   proofs of CircuitBreaker and CartTurn.
2. (done) MenuRegister and MenuCache, RedisLock, ToolCallValidator; the turn's record command by
   command, with the session's metadata; proofs of the validator, the record and the snapshot.
3. (done) Proofs of RetryService, Recovery, RateLimiter, AudioTurn, MenuCache and RedisLock:
   every invariant and safety property of a passing run, and both refinements, are theorems.
4. `Admission`: the checks of the endpoint before a connection is accepted, composed with
   RateLimiter's three keys, if they gain state of their own.

## 10 How to run

    tlc -workers 2 -config MCRecovery.cfg MCRecovery
    tlapm CartTurn_proofs.tla

`MenuCache`, `RedisLock`, `Recovery` and `CartTurn` take between half a minute and two
minutes in TLC, the others seconds. Each `*_proofs.tla` is checked on its own, in a few minutes
at most.
