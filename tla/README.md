# six-feat: TLA+ specifications

six-feat finds how two music artists are connected through shared songs. The
back end is a handful of userver (C++) services around PostgreSQL and the Genius
API. This directory models the parts of it whose correctness depends on the
order in which coroutines, processes and the outside world act, checks them with
TLC on small instances and proves the main invariants with TLAPS for every value
of the constants.

    tlc -config Resilience.cfg MCResilience              # model-check one run
    tlapm CircuitBreakerProofs.tla                       # check the proofs

## 1. The system

    browser -> six-feat (API) -> genius-gateway -> Genius
                   |      \
                   |       -> six-feat-enrichment (background deep scan) -> genius-gateway
                   |                  |
                   +-- PostgreSQL ----+        game (challenges, attempts, Elo)

| Component | State | Operations | Hard behaviour | What makes it correct |
|---|---|---|---|---|
| Circuit breaker (`resilience.cpp`) | `state_`, `probe_in_flight_` (atomics), failure count, trip time | AllowRequest, RecordSuccess, RecordFailure | atomics read without the mutex and written one after the other; late outcomes | budgets hold, the probe decides |
| Cooldown gate (`resilience.cpp`) | `active_`, `deadline_`, sleepers | Activate, WaitForCooldown | time-out against extension and notification; cancelled sleepers | the cooldown asked for is kept, everybody leaves |
| Rate limiter (`resilience.cpp`) | `available_slots_` | Update, AcquireSlot, ReleaseSlot, the Guard | answers overwrite the counter in any order; lost answers, missing headers, cancelled waits | while what it cannot see is within the margin, the requests on the wire fit in Genius's window; slots are not made up |
| Token bucket, lanes, `GeniusGet`, gateway client (`resilience.cpp`, `genius_gateway.cpp`, `genius_gateway_client.cpp`) | tokens, lane semaphores, attempt counter | Acquire, OnResponse, retries, error mapping | order of the admissions, slots held while sleeping, clients that give up | what a lane sends to Genius, and how much of it at once, keeps its bounds |
| Enrichment worker and queue (`libs/six-feat-enrichment`) | `queue_`, `pending_`, `recovered_awaiting_token_`, `fetch_state.depth` | EnqueueIfNeeded, RecoverPendingArtists, WorkerLoop, shutdown | three pieces of state under three locks; 503 re-queueing; restart; reads of lagging replicas | the books agree, one job per artist, nothing is forgotten |
| Persistent store, repository, prune task, provider, image proxy | songs, credits, artists, `fetch_state`, dominant colours | WriteThrough, GetArtistSongs, PruneStale, UpdateDominantColor | reads split over statements; select-then-delete; sampling of an image that is replaced | depth tells what credits exist; a read tells one story; the prune task ends |
| Enrichment client (six-feat) | retry queue, status cache | Enqueue, FlushLoop, IsEnriching | snapshot sent without the lock; racing fetches | nothing is dropped unsent, no stale status past its time |
| Enrichment status, SSE | none (reads two sources) | status, stream | two reads of a moving state | the stream ends with the enrichment |
| Idempotency, API keys | `idempotency_keys`, `api_keys` | lookup, body, store; issue, list, revoke | two requests, one key; expiry; crash between body and store | a body runs once per key, and again only where nothing could protect it; a replay answers its own request |
| Rate limit stores | counters per key and window | Allow, Remaining, collection | window boundary, windows of two lengths in one store, Postgres failure | a counter admits its limit per window; what collections and failures add is bounded |
| Collab service, public API | none of their own; ETags at the browser | graph, edge, path, deepen, search, artist, layout | search that grows its graph over several sources, with partial fetches and prunes; handlers over tables that change | a path found is a path and is shortest in what could be read; what is stored is served; a scan was a scan |
| Authentication, settings, parity check | session, state and PKCE cookies; linked tokens; the secret of each service | login, callback, link, disconnect, logout, key check | tabs that share cookies; answers that arrive late; restarts with another secret | flows do not mix; a session reads back, or the secrets are blamed |
| Game submissions | profiles, attempts, achievements, Elo | RecordValidAttempt, achievements | READ COMMITTED statements of parallel submissions | no rating is lost, a replay is not rated, no achievement is missed |
| Challenges and seasons | challenges, seasons | daily task, UpsertChallenge, SetChallengeIdeal, EnsureCurrentSeason, FindIdealPath | scheduler against handlers; ties come and go, and replicas lag, while a path is searched | one ideal per challenge, of the right length; "today's" can be played |
| Game boards | cached first page | leaderboard, season board, list of challenges | cursors over rows that change, read from replicas | who keeps its place is shown once |
| Layout, contours, HTTP helpers, front end, deployment | — | — | geometry, rendering, configuration | not modelled, see section 8 |

Interactions: a public request asks the repository; if an artist is not stored it
is fetched in the foreground through the gateway (`CollabService::FetchFg`,
depth Foreground) and its id is sent to `POST /internal/enqueue`; the enrichment
worker fetches it in the background through the gateway and writes depth Full;
the browser follows over SSE, which reads `fetch_state.depth` and `IsPending`.
Every call to Genius passes one `ResiliencePipeline`: breaker, cooldown gate,
token bucket, semaphore, rate limiter, in this order, and reports its outcome to
them. A 503 of the open breaker travels back to the enrichment worker and makes
it put its job back.

`PROJECT.json` lists all components with their status, and every hazard with the
line where it bites and the properties that watch it.

## 2. Modules

| Module | Models | Steps |
|---|---|---|
| `CircuitBreaker` | `CircuitBreaker` | one per atomic access or critical section |
| `CooldownGate` | `CooldownGate` | one per critical section, and NotifyAll after it; each way a wait can end is an action |
| `RateLimiter` | `RateLimiter`, the Guard, Genius's window (external) | one per critical section, plus Genius |
| `GeniusGateway` | the calls of the gateway client: token bucket, lane semaphore, attempts, backoff, error mapping | one per admission, answer or pause |
| `EnrichmentWorker` | `EnrichmentWorker`, `EnrichmentQueue`, the enqueue handler, process life | one per critical section or query |
| `EnrichmentJobs` | what the worker promises, abstractly: wanted, scanned, complete artists | — |
| `EnrichmentRetry` | `EnrichmentClient`'s retry queue and FlushLoop | one per critical section or request |
| `EnrichmentStatus` | status handlers, the SSE stream, `IsEnriching` and its cache | one per read, request or event |
| `ArtistStore` | artist tables: writers, a reader, the image proxy, the prune task | one per statement or transaction |
| `ApiKeys` | `RunIdempotent` around the API key handlers | one per statement |
| `RateLimitStore` | both rate limit stores | one per call (a mutex, or one statement) |
| `PathSearch` | `BidirectionalBfs` | one per layer |
| `CollabPath` | `FindPath` | one per round, fetch or read |
| `EdgeAggregation` | `AggregateEdges`, roles, nodes and edges of the graph | one per song, in any order |
| `GraphApi` | the public handlers and their ETags | one per read or call |
| `Sessions` | OAuth login, linking, disconnect, logout; cookies of one browser with several tabs | one per request, and one per answer |
| `SessionCookie` | Encrypt, Decrypt, the JSON and Base64 inside, `AppSecretParityChecker` | one per call |
| `GameStore` | game challenges, submissions, ratings, achievements; the tables in PostgreSQL | one per statement; a transaction is seen when it commits |
| `GameSeasons` | daily task, admin and challenge handlers, seasons, the daily view | one per statement or transaction |
| `GameBoards` | leaderboards and lists, page by page | one per page |
| `IdealPath` | `FindIdealPath`, `ValidateChain` | one per call for neighbours |
| `MCResilience`, `MCServices`, `MCAccounts`, `MCBackground` | several components in one run, see section 3 | |
| `MCInterruptedScans` | the worker with the history of the scans that a restart interrupts | |
| other `MC*` | symmetry sets | |
| `LimitProofs`, `AccessProofs`, `EnrichmentProofs`, `GameProofs`, `GraphProofs` and the other `*Proofs` | theorems about the modules they extend, see section 4 | |

How they fit together: `EnrichmentWorker` implements `EnrichmentJobs`. What the
worker does appears in `ArtistStore` as a writer, in `EnrichmentStatus` as the
history of `pending` and `depth`, and in `GraphApi` as changes of the tables;
`GraphApi` takes the reads of one `GetArtistSongs` as one step because
`ReadsAreNotTorn` of `ArtistStore` shows that they tell one story. `CollabPath`
calls the search on a complete graph and takes `PathSearch`'s result for granted;
`GameSeasons` and `GameStore` likewise take a path of any length where `IdealPath`
has the search. `GeniusGateway` lets breaker, gate and limiter refuse or delay a
call at will, which is more than their own modules allow.

Names follow the code: a variable `available_slots` is `available_slots_`, an
action `ClaimPending` is the critical section under `pending_mu_`, and so on;
`map` in `PROJECT.json` gives the source lines of every definition. Definitions
whose comment begins with "A mutant" or `Mutant:` are plausible bugs: each
property has one that it catches when the bug replaces the code's definition.

### CircuitBreaker

`pc[t]` is the place of task `t` in the breaker. AllowRequest is two steps: the
unlocked read of `state_` (`AllowRequest`) and what it leads to (`ClaimProbe` on
HalfOpen, `AllowLocked` on Open). Trip, Reset and Open -> HalfOpen store two
atomics; the first store takes `mu`, the second (`ReleaseProbe`, `OpenProbe`)
releases it, and unlocked readers see what is between. A request that was let in
ends with RecordSuccess, RecordFailure, or unrecorded: `OnResponse` records
nothing for 429 and 4xx, and `GeniusGet` throws 499 and 504 without recording.
Counters that are only compared are saturated (`consecutive_failures` at the
threshold, `trip_age` at the open duration). `opener` and `through` are history.

### CooldownGate

`now` is steady_clock. A sleeping waiter leaves by time-out, by notification if
its predicate holds, or by cancellation: the result of `WaitUntil` is ignored by
the code, so all three run the same epilogue `Leave`, which opens the gate if the
deadline is still the one the waiter saw. It gives the lock back before it
notifies (`resilience.cpp:41-42`), so `NotifyAll` is a step of its own: a waiter
that came in between, for a cooldown asked for since, is woken too, and goes early
if that cooldown has been extended meanwhile. A spurious wake-up does the same
(`Spurious`). `WaitsItsDeadline` therefore says that, as long as nobody is
cancelled, a waiter that leaves before the deadline it saw has been overtaken by a
later one and leaves the gate closed. `paused` (the end of the longest cooldown
asked for) and `calm` (nobody has been cancelled) are history.

### RateLimiter

`available_slots` with -1 for unknown, exactly as stored. `AcquireSlot` is the
unlocked-between pair of critical sections, and so are the limiter's two shares of
the pipeline's OnResponse, `OnResponse` (Update) and `SettleSlot` (ReleaseSlot);
`Abandon` is the Guard's destructor for a request that was not settled. Genius
counts requests (`Process`), answers with what is left at that moment, and starts a
new window at any time (`NewWindow`), the first one used up in any part. An answer
overwrites the counter, so the requests that Genius counted after it was written
(`later`), or that are still on the wire, are `unseen` by the counter; a slot that
ReleaseSlot gives back is one more. `sure` says whether `unseen` was within the
margin when the last request was sent. All three are history. `faults` bounds lost
answers, missing headers and cancelled waits.

### EnrichmentWorker

Persistent: `depth`. Lost with the process: everything else (`Restart`).
EnqueueIfNeeded is four steps: the depth query, the claim under `pending_mu_`, the
push under the queue's lock, and the undo of a refused push. The worker's steps
follow WorkerLoop: pop, second depth query, scan, write, settle; a 503 leads to
`RequeueJob`, and an exception of the second depth query, which is outside the
try block, ends the task ("crashed"). `RecoverPage` is one turn of the
paging loop of RecoverPendingArtists. `PruneStaleArtist` and `WriteForeground`
are the other services' writes. With the replica fault a depth query may answer
anything an arbitrarily stale replica could hold, and so may a page of
ListIncompleteArtists, which is read from the same replicas
(`persistent_store.cpp:343`): any of the incomplete artists may be absent from it.
`owed` (artists that were incomplete when the recovery began and that no page's rows
have lacked, nor a row counted before them) and `shown` (the rows of the last page)
are its history; `RecoveryIsComplete` promises what is owed to the end.
`MCInterruptedScans` adds the history of what a restart interrupted, which only that
run needs.

`EnrichmentJobs` is the abstract specification. The mapping (`Jobs` at the end of
`EnrichmentWorker`): an artist is wanted while it is in `pending` and not in the
worker's hands, scanned while it is, complete when its depth is Full. The queue,
the claims, the recovery set and the pages are invisible. Claim, recovery and a
refused push are Want and GiveUp; the worker's second look at the depth is where
the scan begins or the artist is given up; a restart is Forget.

### GameStore

The tables of `postgresql/game/schema.sql` are variables: `ideal`
(`optimal_len`, 0 while NULL), `elo` and `games`, `attempts` (in the order they
were committed), `achievements`. `pc[s]` and `req[s]` are the place and the
locals of one `POST /game/submit`. RecordValidAttempt is three steps because
other transactions act between them: the COUNT, which locks nothing
(`CountAttempts`), `SELECT ... FOR UPDATE` (`LockProfile`, which waits for
`row_lock` and sees what was committed last), and the rest up to COMMIT
(`CommitAttempt`). Each achievement is inserted by a statement of its own. `Fail`
is a failing query, an unavailable graph service or the end of the process at any
of these points: it rolls back an open transaction and keeps a committed one.
Publishers (daily task, admin handler, challenge handler) read the challenge in
`UpsertChallenge` and store an ideal later, in `SetChallengeIdeal`. Profiles
exist from the start (EnsureAndGetProfile precedes the transaction). Two things
are data: FindIdealPath may find a path of any length, and UpdateElo moves a
rating by some member of `Delta` (the floor `kMinRating` is kept). `ranked` and
`began` of an attempt, `gained`, `announced` and `interrupted` are history.

### ArtistStore

The four tables of `postgresql/schema.sql` as far as properties look at them.
`WriteThrough` is one step (a transaction whose conflicts end one of the two).
`GetArtistSongs` of the repository is a query per step, and the worker, a second
request and the prune task act in between. The provider's answer may lack songs
whose detail failed (`skipped`). The prune task selects ids in one step and
deletes them in another, and a failed query ends it, because nothing catches. The
image proxy asks whether the image needs a colour, samples it, and stores the
colour by image. `skipped` and `gone` are history.

### EnrichmentRetry and EnrichmentStatus

`FlushLoop` copies the queue under the lock, sends without it and removes by
artist id under it again; `Enqueue` stashes, deduplicates and pushes out the
oldest meanwhile. `copied` of an entry is history. `IsEnriching` is three steps
(look into the cache, ask, write the cache), and a reader that was slow writes its
old answer over a newer one; `of` says how long ago an answer was true.

### ApiKeys and RateLimitStore

`RunIdempotent` is lookup, body and store as separate steps, each of which may
fail or be the process's last; rows expire, and an expired row keeps later answers
out. Two histories per Idempotency-Key: `bodies` counts the bodies it let run,
`slips` the times the protection did not hold (`LetIn`: the request overlapped with
another, or met an expired row; `Gone`: a body or a store ended without an answer).
`RepeatsAreAccountedFor` says that there is no other way to a second effect; that an
overlap is one is the finding `api_keys_double_click`.

Rate limits are windows of whole ticks, one call a step. `served` is what a counter
admitted in its window, `recent` what a key was admitted for within the last
window's length, by its counter or because Postgres failed (`FailOpen`, which
admits whatever the count). A collection deletes with the window of its caller, so
a counter may be lost within its own: `forgotten` counts that, per key.

### PathSearch, CollabPath, EdgeAggregation, GraphApi

`PathSearch` leaves open which parent a node gets and which meeting is taken, as
the hash tables do. `CollabPath` keeps what Genius knows (`world`), what is stored
(`edgesStored`) and what the search knows (`adj`) apart. A fetch stores all of an
artist's songs or leaves some out (`Omitted`: beyond the limit, failed details, no
token), and the artist counts as fetched all the same; other requests, the worker
and the prune task change the tables meanwhile, and `enriching` is
enrichment_enabled. `unread` is history: the ties of artists whose neighbours were
read while the tables lacked them. `AnswersAreTrue` compares the answer with what
is left (`Readable`), and says that nothing is unread but for a fetch that failed or
was partial and a prune; `excuses` records these, and the artists of the tables and
the cut frontiers that may make a path longer. `EdgeAggregation` takes the songs in every order.
`GraphApi` follows one request through one handler, with every early return; the
browser holds one cached graph and its ETag.

### Sessions and SessionCookie

Request and answer of a handler are two steps of the tab: the request carries the
cookies of its moment, the answer changes the cookies of another. Cookies may
lapse at any time. `overtaken` is history. `SessionCookie` has the hand-written
JSON and Base64 byte by byte, because the property is about them: each loop is a
function from the number of turns to the loop's variables, and `Shifted`, `Unescaped`
and `Onward` are one turn. The branch for characters outside ASCII is left out, AES-GCM
is "opens with the same key only". `compared` is history: a parity check has reached
the six-feat-auth that runs. A later check that fails overwrites a mismatch by
"unreachable", and the property says so.

### GeniusGateway

Tokens are counted in parts of a refill period, so that a fraction is exact.
A call that pauses after a 5xx keeps its place in the semaphore; after a 429 it
does not. A call takes its token first and waits for the semaphore and the limiter
then, so what reaches Genius is counted where it is sent: `sent` counts `Send` since
any moment (`since`), and `waited` the calls that had their token at that moment and
had not been sent yet, which may all go at once. So the bound holds for every span of
time.

### GameSeasons, GameBoards, IdealPath

A publisher is a daily task, an admin or a player's request; each step of it may
fail, which ends a task for good. A board's rows change between two pages, at most
`MaxChanges` times, and every page is read from the rows of some moment so far,
because the queries go to replicas (`game_store.cpp:652`, `:734`). The reader keeps
the cursor; `asOf` is the set of the rows its pages were made of (history).
`IdealPath` asks for one artist's neighbours at a time while scans add ties and
prunes take an artist with its ties away; a call is answered from the graph of any
moment so far (`shown`). `missed` records failed calls and a cut frontier. Ties are
compared over `Ever` (some call could show it) and `Lasting` (every call showed it).

## 3. Runs

| Run | Instance | Distinct states | Shows |
|---|---|---|---|
| `resilience` | one component at a time. Breaker: 3 tasks, threshold 2, open for 1 tick, all outcomes. Gate: 3 tasks, cooldowns 1 and 2, spurious wake-ups | 209 387 | `FewRequestsPerTrip`: at most 3 requests reach a failing Genius between two trips (the two-store windows make it more than the one probe intended; 3 is reached). `HalfOpenIsOwned`. `HalfOpenIsDecidedIfRecorded` (liveness): a half-open breaker whose probe reports is left. `WaitsItsDeadline` until the first cancellation, `OpensOnTimeUnlessCancelled`, `WaitersLeave` (liveness). |
| `breaker_wedged` | 2 tasks, threshold 1 | violation | `HalfOpenIsDecided` fails (section 6). |
| `gate_paused` | 2 tasks, cooldown 2 | violation | `PausedForCooldown` fails (section 6). |
| `worker` | 3 artists, 2 callers, queue of 2, pages of 1, all faults (pages from replicas too) | 1 014 498 | `PendingIsAccountedFor`, `OneJobPerArtist`, `RecoveryIsComplete`. |
| `background` | worker: 2 artists, 2 callers, queue of 2; retry queue: 3 artists, capacity 2; status: 2 readers; prune: 2 artists, batches of 1 | 60 285 | Liveness and refinement: `QueuedIsTried`, `ShutdownEnds` with the breaker allowed to be open for ever, `RetriesEnd`, `StreamsEnd`, `StaleLeaves`; `ImplementsJobs` (refinement of `EnrichmentJobs`); `OnlyHandledAreRemoved`, `ScanningIsRecent`. |
| `worker_interrupted` | 2 artists, 1 caller | violation | `InterruptedScansAreRecovered` fails (section 6). |
| `accounts` | one component at a time, see below | 1 438 188 | the safety properties of sign-in, API keys and the game. |
| `game_rated_twice` | as `store` below | violation | `RatedOncePerChallenge` fails (section 6). |
| `services` | one component at a time, see below | 669 695 | the safety properties of the other components. |
| `api_keys_revoked` | 2 requests, 1 Idempotency-Key, 2 API keys | violation | `RevokedMeansRevoked` fails (section 6). |
| `api_keys_double_click` | 2 requests, 1 Idempotency-Key | violation | `DoubleClickIssuesOne` fails (section 6). |
| `graph_etag` | 1 browser, 2 songs, 2 writes | violation | `NotModifiedIsTrue` fails (section 6). |

`resilience`, `services`, `accounts` and `background` put components that share no state
into one run. A variable `focus` is chosen in the initial state; the component it names takes
steps and the others rest in an initial state of theirs, so TLC explores the sum of
the state spaces and no product. `MCResilience` EXTENDS `CircuitBreaker` and `CooldownGate`,
`MCServices` EXTENDS `RateLimiter`, `GeniusGateway`,
`RateLimitStore`, `ArtistStore`, `GraphApi`, `PathSearch`, `CollabPath`,
`IdealPath` and `EdgeAggregation`, `MCAccounts` EXTENDS `MCGameStore`, `GameSeasons`,
`GameBoards`, `Sessions` and `ApiKeys`, `MCBackground` EXTENDS `EnrichmentWorker`,
`EnrichmentRetry` and `EnrichmentStatus`, so that the properties they check are the
ones the theorems name; the other components are instances. In `services`:

| focus | Instance | Properties |
|---|---|---|
| `tables` | 2 artists, 2 songs (one shared), worker, one request, prune task | `FullIsComplete`, `ReadsAreNotTorn` |
| `photos` | 2 artists, 2 songs, 2 images of one artist, no reader | `ColourIsOfImage` |
| `limits` | windows of 1 and 6 ticks, limits of 1 and 2, 7 ticks, 1 failure and 1 forgotten counter; the store in Postgres or in the process | `LimitHolds` |
| `search` | all graphs of 5 artists | `ShortestIsFound` |
| `finder` | 4 worlds of up to 7 artists, 5 sets of stored ones, fetches that leave out nothing, a song or all, 1 write or prune of others, 1 round, frontier of 2 | `AnswersAreTrue` |
| `api` | all routes and all kinds of caller, 2 songs, 2 writes | `ScannedWasAsked`, `CachedIsServed` |
| `limiter` | 3 requests, window 4 with any start, margin 2, 1 fault | `RequestsFit` |
| `edges` | 3 songs, 2 titles, 2 neighbours, every order | `AggregationIsExact` |
| `genius` | 2 calls in a lane of 1, 2 attempts, a token every 2 ticks | `LoadIsBounded` |
| `ideal` | graphs of 5 artists with up to 6 ties, 3 ties that may be added, any artist pruned, 1 change that replicas may not show yet, frontier of 2 | `IdealIsShortest` |
| `cookies`, `secrets` | tokens and names of every escape; 2 secrets and 2 restarts | `SessionsReadBack` |

`TypesOK` is the type invariant of whichever component is in focus. In `accounts`:

| focus | Instance | Properties |
|---|---|---|
| `store` | 1 player, 2 challenges, 2 submissions, 2 publishers, path lengths 1 and 2 | `RatingsAddUp`: no rating is lost. `RatedTwiceOnlyIfOverlapping`: a replay is not rated. `OneIdealPerChallenge`. `AwardsAreExact`: no achievement is announced twice, and none is missed but by a player whose submission died. |
| `sessions` | 2 tabs, 2 accounts | `LoginsCarryTheirVerifier`, `LinkStaysWithItsUser` |
| `keys` | 2 requests, 1 Idempotency-Key, up to 3 bodies, 2 API keys | `RepeatsAreAccountedFor` |
| `board` | 3 owners, pages of 1 from any past rows, 2 readers, 1 change | `StableRowsAreShownOnce` |
| `dailies`, `publishers` | a daily task, an admin and a player; the first two with 2 pairs, all three with 1 | `DailyIsPlayable` |

The types of these are proved (section 4).

### Bounds and why they are enough

* Breaker: the worst schedules need the opener, a caller with a stale HalfOpen
  read, and one that claims after; three tasks show all three at once, and
  `FewRequestsPerTrip` reaches its bound. The proofs remove the bound on tasks.
  `ThroughCap` = 5 leaves room above the proved 3.
* Gate: `Horizon` bounds the clock at which a cooldown may still be asked for;
  two lengths are what it takes to extend, to be ignored, and to be equal. Three
  waiters: one that leaves, one that is notified, one that enters in between, before
  the gate's opener has notified.
* Limiter: a window of 4, begun with any part of it used, lets three requests walk
  the counter through every value around the margin, and three are what it takes for
  more requests to go unseen than the margin of 2 covers. `RequestsFit` says when the
  counter keeps its promise and assumes nothing of the number of requests: it may
  err by what it cannot see, and while that is within the margin all requests fit. The
  deployed foreground lane admits 8 at once (`services/genius-gateway/static_config.yaml`,
  where `docs/DEVELOPMENT.md:66` says 3), so more than 2 may well be unseen; then
  requests are refused and the deployed system relies on the 429 path.
* Worker: a queue of 2 for 3 artists is full while another artist is claimed;
  pages of 1 make recovery take several queries; 2 callers race for one artist.
  Kills at every point.
* Retries: 3 artists for a queue of 2 push an entry out while its copy is being
  sent, and it may be stashed again. Streams: 2 readers are what it takes to
  overwrite a newer answer with an older one.
* Tables: 2 artists with a shared song and one of their own are what it takes
  for a prune of one to take a credit of the other, and batches of 1 let the
  prune task meet a writer between two of its transactions.
* Keys: 2 overlapping requests, and time for a row to expire once, give first
  use, replay, overlap, reuse for another request and late retry. 3 bodies are a
  first one, one that overlaps and one after the row has expired or a body failed.
* Limits: 7 ticks hold a whole long window with several short ones inside it. One
  forgotten counter and one failure each add to what a key is admitted; the theorem
  holds for any number.
* Search: with 5 nodes the two sides meet in the middle, at an end, at several
  nodes of a layer, or never. The worlds of `finder` are the shortest chain that
  the rounds reach, the one they just do not, a short way beside a longer one, and
  direct neighbours. Stored at first is nobody, one end, neighbours of both, the middle
  of the chains, or nearly everybody; one write or prune of others comes before, between
  or after any two steps.
* Ideal path: an added tie makes a new shortest chain, a pruned artist breaks the
  one that is being built, while the search is on its way; with two graphs each call
  may see the older or the newer one. A frontier of 2 is cut in a graph of 5.
* Boards: pages of 1 over 3 owners put a page boundary between any two; one
  change (a better score, a row that comes or goes) may fall on either side, and each
  page after it may or may not show it.
* Cookies: strings of up to 2 of the bytes that escaping treats apart, and
  tokens that look like the end of a string followed by a key.
* Game: two submissions are what it takes to overlap, to replay, and to reach a
  `kVeteranGames` of 2 and an `kEloMasterThreshold` two wins away; a rating of 2
  with a floor of 1 reaches the floor. Two publishers find two different ideals.
  Submissions of different players touch different rows and meet nowhere, so one
  player is enough. `CHECK_DEADLOCK FALSE`: when every submission has been
  answered and every challenge is published there is nothing left to do; the same
  holds of requests, searches and clocks in `services` and `accounts`.

Symmetry is used only in runs without liveness, over tasks, callers, submissions,
publishers or challenges, which the modules never compare or order. Artists are numbers because recovery pages by id.

### Fairness

Only what the code's scheduling gives: a runnable coroutine runs (`WF` per task,
for the worker, recovery, the flush loop, the prune task and each stream), time
passes (`Tick`), an HTTP request ends (its timeout), a sleep ends. In
`background` each component has its own fairness, and only while it is in focus.
Nothing is assumed of outcomes: requests may fail for ever, the breaker may stay
open, Postgres may fail for ever. Requests keep coming to the breaker in its fair
specification, because only a caller can move it from Open to HalfOpen.

## 4. Proofs

TLAPS proves, for every set of tasks, callers, artists, nodes, keys or tabs and every
value of the parameters allowed by the module's named assumption, or, in the modules
that share a run with others, by the hypothesis `...ConstantsOK` of the theorem:

| Module | Theorems | Argument |
|---|---|---|
| `CircuitBreakerProofs` | `ClosedBelowThresholdHolds`, `FewRequestsPerTripHolds`, `HalfOpenIsOwnedHolds`, `OpenClosesViaHalfOpenHolds` | `MuInv`: `mu` is held exactly by the one task between two stores, and what the half-done operation has already stored. `BudgetInv` counts the requests that may still get through from the claim flag and the store in progress, because `through <= 3` alone is not inductive: a trip clears the claim while a stale reader is on its way. |
| `CooldownGateProofs` | `WaitsItsDeadlineHolds`, `OpensOnTimeHolds` | `DeadlineInv`: no waiter saw a deadline later than the gate's, and the deadline of an open gate has passed, so that who finds the gate closed again after that finds a later one; `CalmInv` ties it to the absence of cancelled waiters. |
| `LimitProofs`: `RateLimiter` | `TypeCorrect`, `SlotsAreBoundedHolds`, `RequestsFitHolds` | The counter plus the requests in flight; each action changes the two by opposite amounts, or replaces the counter by a report that is itself bounded by the window. For `RequestsFit`, `ReportsOK`: an answer on its way reports at most what is left and what was counted since. Sending moves a slot to the wire, counting moves both sides alike, an answer replaces the counter and what it does not see together, and a slot that is given back is one more unseen. Nothing is assumed of the margin, or of the number of requests. |
| `LimitProofs`: `GeniusGateway` | `LoadIsBoundedHolds` | `LaneOK`: the tokens granted since any moment and those in the bucket were in it at that moment or refilled since, with the part of a period that is not credited yet. `TokensOK`: what was sent since, and what has a token and was not sent, was granted since or waited then. `SlotsOK`: who is busy holds a slot. |
| `LimitProofs`: `RateLimitStore` | `LimitHoldsHolds` | `LimitInv`. `CountsServed`: the bucket of a valid window has counted all that was admitted in it. `Placed` and `Ordered`: every admission of the last window's length lies in its window with a number of its own up to the limit, and two windows of one life of a counter do not overlap; so each life has at most two of them, and only one life has both. `ForgottenByShorter`: what a collection deletes was valid only for a key whose window is more than twice the caller's. |
| `EnrichmentProofs`: `EnrichmentWorker` | `TypeCorrect`, `PendingIsAccountedForHolds`, `OneJobPerArtistHolds`, `RecoveryIsCompleteHolds`, `MasterHidesNothing`, `WorkerImplementsJobsSpec` | The two invariants are inductive only together (`Books`): that a settle removes an artist from `pending` is right only because no second job of it exists, and that a claim creates the only job is right only because `pending` accounts for all. The refinement uses both: a scan begins only of an artist that is wanted, and a claim never adds the one that is being scanned. `RecoveryInv`: an artist that is still owed has had all rows counted before it on every page, so it only moves to later pages, and nothing leaves the queue, so while it has room no claim has been refused; `PageIs`: a page that is not full is the last, since rows are numbered without gaps. `MasterHidesNothing`: where the replicas do not lag, whatever was incomplete when recovery began is owed to the end. |
| `EnrichmentProofs`: `EnrichmentStatus` | `ScanningIsRecentHolds` | `RecencyInv`: an entry of age n was true at most a time-out and n ago, an answer on its way at most as long ago as its request has taken; so an old answer that is cached as new is at most a time-out old. |
| `GameProofs`: `GameStore` | `TypeCorrect`, `NoRatingIsLost`, `ReplaysAreNotRated`, `IdealIsSetOnce`, `AwardsAreAnnouncedOnce`, `AwardsAreExactHolds` | `RatingInv`: whoever is between FOR UPDATE and COMMIT holds the row, so the rating it read is still stored. `AttemptInv`: what a submission counted stays true of the rows that existed when it began, because rows are only appended. `IdealInv`: a request's ideal is still its challenge's, because only NULL is overwritten. `AwardInv`: whatever was announced is in the table. `EarnedInv`: what a player deserves is in the table, on the list of a submission that is awarding, or a submission of the player died; it works because the commit that makes the player deserve it is the one that puts it on a list. |
| `EnrichmentProofs`: `EnrichmentRetry` | `RetryTypeCorrect`, `OnlyHandledAreRemovedHolds` | `HandledAreCopied`: what the loop has handled, or still will, is in the queue as the loop copied it, or a full queue has pushed it out since. `StashedOnce`: no artist is in the queue twice, so that the entry removed by its id is that copy. |
| `GameProofs`: `GameBoards` | `BoardsTypeCorrect`, `StableRowsAreShownOnceHolds` | `BoardsInv`. `Counts`: an owner's row that was the same in the rows of every page (`Steady`) has been counted once if it is not ahead of the reader's cursor and not at all if it is. `PageEnds`: a page that is not the last ends at a row above which are just its other rows, as ids break ties. `IsFirstPage`: the cached page, whatever its age, is a first page of some rows that the table had. It does not matter which rows a page was made of, so replicas may lag as they like. |
| `GameProofs`: `GameSeasons` | `SeasonsTypeCorrect`, `DailyIsPlayableHolds` | `SeasonsInv`: the property for every daily and not only the latest; what a publisher knows stays true (`JobOK`); seasons begin at different multiples of their length (`SeasonsApart`). |
| `ArtistStoreProofs` | `StoreInvHolds`, `FullIsCompleteHolds`, `ColourIsOfImageHolds`, `ReadsAreNotTornHolds` | `StoreInv`: the tables refer to rows that exist. On it `FullIsComplete` and `ColourIsOfImage` are inductive: an upsert only adds rows, a prune tells which it took, a colour is stored by image. `ReadInv` says what each of the reader's queries has seen and that it still holds, because between two of them credits and depths only grow unless the artist is pruned. |
| `AccessProofs`: `Sessions` | `TypeCorrect`, `LoginsCarryTheirVerifierHolds`, `LinkStaysWithItsUserHolds` | `VerifierInv`: the state cookie of a login is never next to the verifier of another, because whoever replaces the verifier replaces the state in the same answer. `LinkInv`: the browser's user changes by a login, which takes the state of every link away and overtakes those whose cookie is still to come, or by signing out, after which nothing is stored. |
| `AccessProofs`: `ApiKeys` | `KeysTypeCorrect`, `RepeatsAreAccountedForHolds` | `Covered`: a key has let one body more run than it slipped, and while no answer is stored or about to be, no more bodies than that. `Fits`: a stored answer fits the request whose hash is stored with it, so a replay fits the one that repeats it. |
| `AccessProofs`: `SessionCookie` | `SessionsReadBackHolds`, `DecryptInvertsEncrypt`, `UnescapeInvertsEscape`, `DecodeInvertsEncode`, `CookieTypeCorrect` | Every loop undoes the other, turn by turn. `DecodeInvertsEncode`: four characters are three bytes and four turns of the decoder read just those, since what older characters left in the buffer lies above the bits that are read. `UnescapeInvertsEscape`: a turn reads one escaped byte and begins the next. In an escaped string every quote stands right behind a backslash that is not itself escaped (`Paired`, for any length), so the loop of `JsonGetString` stops at the quote that ends it; and nothing in a token or a name can pass for the key that is searched, because the key begins with a bare quote (`KeyPlaces`: all places where the text of a key occurs). `CookieInv`: the cookie is the encryption of what was minted, and after a comparison `parity` says whether the keys agree or that a later check failed. |
| `GraphProofs`: `PathSearch` | `ShortestIsFoundHolds` | `SearchInv`: each side's tree of parents and its layers. Every walk as long as a side's layers leads to a visited node (`WalkIsVisited`), so that while the sides have not met no shorter walk joins the ends (`FarApart`); walking back over the parents gives a walk of just that length. |
| `GraphProofs`: `GraphApi` | `ScannedWasAskedHolds`, `CachedIsServedHolds` | `TokenInv`: what a request without a token may still reach. `ServedInv`: one for what is in the tables goes to no step that asks Genius. Both hold on because between two reads rows only grow but by a prune, which leaves its mark. |
| `GraphProofs`: `CollabPath` | `AnswersAreTrueHolds` | `FinderInv`: after r rounds the search knows all artists within r hops of an end in what could be read, and no others unless the store knew them (`RoundsReach`), as long as the frontier was not cut, and the graph has all that could be read of them (`GoneThrough`). Nothing is unread while all fetches were complete and nothing was pruned, because every artist is stored before its neighbours are read (`FetchedSoFar`). A walk of at most 2r + 2 hops therefore lies in its graph (`ShortWaysAreSeen`); a path in its graph, of whatever length, shows that there is one of at most 2r + 2 (`SeenWaysAreShort`: the sides meet where the path leaves what is near From for the last time); and where nothing is left to add no walk leads out (`SaturatedWays`). `WalksAre` shows what the recursive enumeration of walks computes. |
| `GraphProofs`: `IdealPath` | `IdealTypeCorrect`, `IdealIsShortestHolds` | `IdealInv`. `TreeOK`: following parents back from an artist gives a chain of ties that calls showed (`Ever`), as long as the round in which the artist was met says (`PathBackIs`: what the recursion computes). `NothingIsLeftOut`: unless something was missed, what is left to be met over ties that every call showed (`Lasting`) is next to an artist of this round or of the next, and all within `depth` hops over such ties is visited and not in the next frontier. A change only adds to the first and takes from the second, so neither part can be lost. |
| `GraphProofs`: `EdgeAggregation` | `AggregationIsExactHolds` | `EdgesInv`: what the map holds of a neighbour is made of the songs the loop has reached (`EdgeIsExact`), and who has an edge has a node. A neighbour whose entry is still the empty one has no song yet, so only a nameless one is listed twice; the best of two sets of roles is the better of their bests (`BestOfBoth`). `SeedWeighsAll`: the sum over the nodes counts the pairs of a neighbour and a title, as no two nodes are of one neighbour. |

The finiteness of `Task` (limiter), `Artist` (worker), `Node`, `Person`, `Track` and
`Collaborator` is needed for `Cardinality`. Nothing is assumed of the faults: the theorems hold with all of
them, except that `WaitsItsDeadline` says itself that it speaks of the time
before the first cancellation.

The library's induction theorems take an operator as a parameter and cannot be used
here. Where a proof needs induction on a number it takes a least counterexample
instead: `LeastNat` (in `GraphProofs` and `AccessProofs`) shows that every non-empty
set of naturals has a least member, from the well-foundedness of finite sets; `Ladder`
puts it as steps from 0 to n. That is enough for walks, layers, rounds and loops over
byte strings, and for recursive functions defined in a LET, whose equation follows from
a function that satisfies it (`WalksAre`).

The theorems about the cookie hold for all tokens and names, of any length, and any
keys. What they take from the module's assumption is that times have one digit
(`MaxWall + SessionTtl <= 9`): the model writes `exp` with one.

Only model-checked: all liveness (out of the prover's reach), and `TypesOK`, which says
in one formula for its run what the type invariants of the components say; they are
proved, or parts of the inductive invariants above.
`ClosedBelowThreshold`, `OpenClosesViaHalfOpen`, `SlotsAreBounded` and
`AnnouncedOnce` are proved and no run repeats them (the last is a conjunct of
`AwardsAreExact`).

## 5. What the models say about the design

Observations met while modelling that are not findings:

* Breaker, gate, bucket, semaphore and limiter are passed in this order and the
  breaker is asked first: a request admitted while Closed may wait in the bucket
  and reach Genius long after the trip.
* An extension of the cooldown also lets its waiters through early if anything wakes
  them (their predicate `deadline_ != deadline` holds), without any cancellation: a
  spurious wake-up, or the notification that `resilience.cpp:42` sends after the lock
  was given back, which reaches those who came for the next cooldown too. It is a
  second way to break `PausedForCooldown`.
* With 8 requests in a lane the limiter's margin of 2 may be used up by requests that
  an old answer does not know of, and Genius refuses some (`RequestsFit`).
* A replica that lags can hide an incomplete artist from recovery. An exception of the
  worker's second depth query ends the worker task for good: the process goes on,
  takes jobs until the queue is full, and scans none. `QueuedIsTried` names the crash
  as its exception.
* `GeniusGet` never passes a Retry-After to `OnResponse`; the default of 60 s is
  used whenever X-RateLimit-Reset is missing.
* `GeniusGet` keeps its guard, and with it a place in the lane's semaphore, while
  it sleeps between attempts after a 5xx; after a 429 it gives the guard back
  first.
* After an answer that reports 2 or fewer, with no other request in flight,
  nothing raises the limiter's counter again: `reset_unix_` is stored and never
  read. Requests then wait until they are cancelled.
* first_win is decided by `games_after == 1` of a rated attempt: a player whose
  first try at every challenge is invalid is never rated and never gets it, and
  one whose submission dies between COMMIT and the award loses it with the next
  rated game.
* The admin handler answers the length it found even if another publisher's was
  stored first (`admin_handler.cpp:222`).
* A job put back after a 503 is dropped if the queue is full or closed; the
  browser's next look at the artist enqueues it again.
* FindPath stops as "saturated" when all artists at the frontier are stored,
  without adding them to the graph, so a path that is in the tables is reported
  as none; and stored neighbours can show it a longer path first, though
  `docs/DEVELOPMENT.md:54` speaks of the shortest. `AnswersAreTrue` names both as
  excuses.
* A fetch that brought some of an artist's songs, or none for want of a token, counts
  as a fetch: later searches do not ask again, and FindPath may answer "none" or a
  longer path. A prune while it searches does the same.
* An expired row of an Idempotency-Key is never replaced (`ON CONFLICT DO NOTHING`), so
  from then on every repeat runs the body. A collection of rate limits deletes with the
  caller's window, so a key with a longer one is forgotten within it and may use its
  limit once more; while Postgres fails, requests are admitted and not counted.
* A graph or edge request of a session without a Genius token stores an artist
  that is known but not scanned as Foreground with no songs, without asking
  Genius; so does any request whose artist is pruned at the wrong moment
  (`ScannedWasAsked`). A request with a small `limit` stores it with few songs.
  `FetchArtistById` takes every error of Genius but 401 for "no artist".
* The path's ETag covers its end points only.
* The enqueue handler answers 202 also if the queue was full. EnqueueRetry keeps
  the entry that is about to become too old and drops the fresh one.
* The error path of the OAuth callback clears the PKCE cookie without its path;
  denied logins and links leave state and verifier cookies behind, and a link
  sends a leftover verifier (`LoginsCarryTheirVerifier` speaks of logins). All
  accounts with an empty name share one user id. A login that is answered between
  the request that begins a link and its answer lets the link's token go to the
  new user (`overtaken`).
* After a restart with another secret, and until a check reaches six-feat-auth,
  signed-in browsers are told 401 instead of `backend_misconfigured`; and again once a
  later check has failed, because "unreachable" overwrites the mismatch that was found.
* A task waiting at an empty bucket yields in a loop; cancelled, it spins until
  the refill. The gateway's own 401 (its shared secret) reads as
  `token_invalid` to the caller.
* One failed query ends the daily task until the next start, and every start
  publishes another daily. Publishing an old pair again keeps its time and season,
  so "today's" challenge does not change. A player's challenge without a path is
  stored without an ideal, and submissions get 409.
* The season board ignores the id of the season. A malformed leaderboard cursor
  silently starts at the first page. A challenge shows in the list only with its
  ideal, so one that is completed late is missed by a reader already past its
  place. Two best attempts of one player in one second may show the player twice
  or not at all, and so may a row that moves between two pages or that a replica shows
  at its old place.
* FindIdealPath marks artists beyond the frontier limit visited though it never
  asked for them, and a failed call drops a node: the ideal that is kept may be
  longer than the shortest. A prune while it searches, or after, breaks the path that
  is kept, and the validator then refuses it. `IdealIsShortest` holds for what lasted.
* The betweenness of a star is half of what Brandes' algorithm gives for the same
  star (`analytics.cpp:41`); nothing compares the two.

## 6. Findings

* `breaker_wedged`, `resilience.cpp:295`: the half-open probe that ends
  unrecorded leaves `probe_in_flight_` set. Every later request is rejected until
  the process restarts. A single 404 or a closed browser tab at the wrong moment
  is enough.
* `gate_paused`, `resilience.cpp:38`: a cancelled waiter takes the cooldown for
  expired and opens the gate for everyone.
* `worker_interrupted`, `enrichment_worker.cpp:107`: recovery lists rows below
  Full; an artist that was queued before anything was stored for it has no row
  and is forgotten by a restart, where ADR 0002 promises that interrupted scans
  are restored.
* `game_rated_twice`, `game_store.cpp:322`: whether a submission is rated follows
  from a COUNT taken before the profile is locked; of two submissions that overlap
  both are rated, where `tests/test_game_submit.py:375` wants replays not to
  count. `RatedTwiceOnlyIfOverlapping` shows that overlap is the only way.
* `api_keys_revoked`, `idempotency.cpp:57`: the hash of a request covers route and
  body; the API key to revoke is in the query. A second revocation under the same
  Idempotency-Key is answered with the first one's 200 and revokes nothing, where
  `docs/DEVELOPMENT.md:222` promises 422 for a key reused for another request.
* `api_keys_double_click`, `idempotency.cpp:59`: nothing keeps a second request out
  between the lookup and the store of the first one's answer; two overlapping requests
  with one Idempotency-Key issue two API keys, where `docs/DEVELOPMENT.md:202-203`
  promises protection from double clicks and `:215-216` that a repeat does not reach
  the handler's body.
* `graph_etag`, `graph_handler.cpp:282`: the graph's ETag is made of the artist's
  own depth and song count, read after the data. Songs stored by the scans of
  other artists, and a refetch of equally many songs, change the body and not the
  tag, where `docs/DEVELOPMENT.md:797` says it changes exactly when the body does.

## 7. Plan

All modules of the first plan are there. What would add most next:

1. `SessionCookie` with times of several digits, and `stoll`'s loop over them.
2. Refinement: `ArtistStore` to one atomic table of artists, with `pruned` as the
   only way back; the breaker's two atomics to one state.
3. `GeniusGateway` over the breaker, gate and limiter modules in place of its
   open "may refuse, may delay".
4. Replicas: the lag of reads in `ArtistStore`, `CollabPath` and `GraphApi`, which so
   far are of the master.
5. The values of betweenness and of the layout's phases, as integers.

## 8. Not modelled

* Graph layout and contours, clustering of an image's pixels: floating-point
  geometry. Betweenness values: floating-point sums.
* The lag of PostgreSQL replicas in `ArtistStore`, `CollabPath` and `GraphApi` (the
  modules of the worker, the boards and the ideal path have it).
* The mask of roles in `CollabPath`, where a tie is any song in common and leads both
  ways. The provider and user id in the session cookie, which pass through the same
  functions as the name.
* AES-GCM, HMAC and SHA-256 are taken as exact: a message opens with its own key
  only, a hash tells its inputs apart. `JsonUnescape`'s branch for characters
  outside ASCII.
* Schema bootstrap, search by name, profile pages, the connections list, health,
  error and HTTP helpers: stateless or single-row operations.
* Front end: rendering and forms. Deployment: its values are the models'
  constants.
* Memory orders: every atomic access is one indivisible step in a global order.
  The code uses acquire/release on each variable, and no operation reads both
  atomics twice, so weaker orders add no outcome the interleavings do not have.
* Logging, metrics, URLs; JSON except that of the session cookie.
