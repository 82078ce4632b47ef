# TLA+ model of the threat intelligence platform

These modules describe the concurrent core of the platform in `src/`: the two
kinds of Celery task that write the `indicators` table, the risk score they
store, the pacing of the two provider clients, and the API process with its
search cache and its paginated list. TLC checks them on small instances; TLAPS
proves the most important safety properties for every instance. Every
definition is translated from the Python source; `PROJECT.json` maps each to
its lines.

    tlc -workers 2 -config two_workers.cfg MCPipeline
    tlapm PipelineProofs.tla

## 1. The system

| component | state it keeps | operations | interacts through |
|---|---|---|---|
| API process (`api/main.py`) | none of its own | `lifespan`: `init_db`, `init_redis`, `close_redis` | PostgreSQL, Redis |
| routes (`api/v1/routes.py`) | none | `POST /ingest`, `GET /indicators`, `/indicators/search`, `/indicators/{id}/relationships` | publishes ingestion tasks; reads the table |
| authentication (`api/auth.py`) | none | key to role, role check | in front of the routes |
| search cache (`api/cache.py`) | `redis_client`, entries in Redis | get, set with expiry around a route | Redis, the route's SELECT |
| ingestion (`workers/ingestion`) | session of the running task | fetch, parse, upsert, dispatch | feed, table, broker |
| enrichment (`workers/enrichment/manager.py`) | session of the running task | read, look up, merge, score, commit | table, the two clients |
| clients (`virustotal.py`, `shodan.py`) | token bucket / last request time, each with a lock; one object per task | `enrich_ioc` | the providers |
| score (`core/domain/scoring.py`) | none | `compute_final_risk_score` | called by both tasks |
| tables and sessions (`models/`) | table `indicators` (also `threat_actors`, `relationships`, which nothing writes); connection pools | sync and async sessions | PostgreSQL |
| worker pool (`workers/celery_app.py`) | messages in Redis | receive, retry, late acknowledgement, redelivery | runs the tasks |

The root `README.md` of the repository also describes things the code does not
contain (Elasticsearch, a `value_hash` key, Bayesian confidence, Whois, a rate
limiter, migrations). They have no source and no model.

What is hard here is not any one function but what happens between them:

* several worker processes read, change and write back the same row without
  locks or versions, and an enrichment holds its row over two network calls;
* a transaction does not see its own pending inserts (`autoflush=False`);
* rows are committed before their enrichment tasks are published one by one;
* acknowledgements are late, so a crash after the commit repeats the task;
* a score is stored with the inputs of one moment, which another task may have
  changed by then, and never decays by itself;
* every lookup builds clients of its own, so what paces one of them does not
  pace the fleet; a client sleeps with its lock held, and may send a second
  request;
* a client pages through a list that tasks reorder between two pages;
* a cached answer may be stored by a slower, older request over a younger one,
  and outlives a restart of the API and of Redis.

What makes each component correct: the **pipeline** counts each sighting once
per delivery, has one row per indicator, never claims more than was reported,
and enriches every row; the **score** stays in range, and neither understates
the risk nor falls at a sighting unless tasks race; the **clients** keep to their rates
and answer in a time their queue explains; the **list** loses no row that
nothing moved; the **cache** bounds the age of answers and never stops a search,
and the **API process** comes up whatever is down. Which of these hold, and
under which conditions, is what the runs show.

## 2. Modules

    Scoring <- ScoreLifecycle <- MCScoreLifecycle
                              <- ScoreLifecycleProofs
    Platform <- Ingestion, Enrichment <- Pipeline <- PipelineInvariant <- PipelineProofs <- DeliveryProofs
                       SharedTable, IndicatorRegistry <-(refinement)- Pipeline
    PipelineInvariant <- OneWorkerInvariant <- MCPipeline
       PipelineProofs, OneWorkerInvariant   <- OneWorkerProofs
    ProviderClients <- VirusTotalPacing, ShodanPacing <- ProviderPacing <- PacingProofs
       ProviderPacing <- PacingInvariant <- MCPacing
       PacingProofs, PacingInvariant     <- LookupTimeProofs
    Pagination <- MCPagination
               <- PaginationProofs
    ApiProcess <- SearchCache <- MCSearchCache
                              <- SearchCacheProofs

**Platform** holds what the tasks share. `rows[id]` is the committed row,
`broker[m]` counts the waiting copies of message `m` (delivery order is not
assumed), and per worker process `phase`, `message`, `now`, `todo`, `session`
and `saved` are the task's progress and locals. `ledger`, `applied` and
`crashes` are history: what the committed sightings amount to, how often a
request's upsert was committed, and how often a worker died holding it. No
guard reads them.

**Ingestion** has one action for each point where `ingest_feed_url_task` meets
the outside: `StartIngestion`, `FetchFails` / `MalformedFeed` / `EmptyFeed` /
`BeginUpsert`, then one of `SkipUnknown`, `UpsertExisting`, `UpsertNew` for each
item (each is one SELECT and the assignments after it), `CommitUpsert`,
`Dispatch` for each saved indicator, and the failures of each. A fetch that fails
is retried (`FetchFails`), and the retry is itself a publish that the broker may
refuse (`FetchLost`).

**Enrichment** has `StartEnrichment` (receive and `session.get`),
`CommitEnrichment` (merge, score, commit with whatever the lookups returned),
`LookupRaises`, `LookupLost` (its retry is refused) and `EnrichmentFails`.
Between the first two, anything may happen to the row.

**Pipeline** composes both over one pool and states the properties. Two modules
say what the table promises. **SharedTable** is the promise to any number of
workers: a report commits to all its records at once, but what it writes may be
the outcome of any interleaving with others, as long as no record claims, or is
scored by, more than was reported, none loses its enrichment, and none changes
its indicator or the time it was first seen. **IndicatorRegistry** is the promise
of a single worker: one record per indicator, reports and enrichments atomic.

**PipelineInvariant** has the inductive invariants `WriteInv` (`IInv`: rows,
messages and sessions; `TableInv`: what the sessions will write), `DeliveryInv`
(attempts) and `OwedInv` (what will enrich a row); **PipelineProofs** and
**DeliveryProofs** have their proofs, the first also that Pipeline implements
SharedTable. **OneWorkerInvariant** has the conditions under which the table is
exact (`OneWorker`, `PlainFeeds`) and the invariant `OneWorkerInv` they give;
**OneWorkerProofs** proves it and that Pipeline then implements
IndicatorRegistry.

**Scoring** is the formula in integer hundredths. **ScoreLifecycle** is one row
and its score in numbers, under tasks of several workers and passing days. An
upsert is `BeginUpsert` (the clock is read), `SightRow` (the SELECT and the
assignments) and `Commit`; an enrichment is `StartEnrichment` (`session.get`),
`LookupsReturn` (merge and score) and `Commit`; `GiveUp` is their rollback.
Between these, other tasks may commit and days may pass. `loaded` is the row as
a session read it, `object` what it will write, and `Written` the row after its
UPDATE of the changed columns. `raced` is history: whether the last commit was
made over another row than its task had read. **ScoreLifecycleProofs** proves
its properties.

**ProviderClients** is what the two clients share: a clock in ticks and an
`asyncio.Lock` as a queue with its holder first. **VirusTotalPacing** is
`_consume_token` and the request after it: `VtStart`, `VtSleep` (with the lock
held), `VtSend`, `VtThrottled` and `VtResend` for the 429, `VtAnswer`.
**ShodanPacing** is `_pace_request` and its request: `ShStart`, `ShSleep`,
`ShSend`, `ShResolved` for a domain's address, `ShAnswer`. **ProviderPacing** is
`execute_enrichment`: both clients started by one `Start`, any number of lookups
on any number of client pairs. **PacingInvariant** has the invariant `TimeInv`,
who leaves a lock by when. **PacingProofs** has the proofs about the rates,
**LookupTimeProofs** those about the time a lookup takes.

**Pagination** is `GET /indicators`: `ReadPage` with the filter, the order, the
limit and the offset of one statement, and what both tasks may commit between
two pages (`Sight`, `Enrich`, `Insert`). At its end are the rank of a row and the
invariant `PagingInv`; **PaginationProofs** proves it.

**ApiProcess** is `lifespan`, the roles, and PostgreSQL and Redis stopping and
starting. **SearchCache** is `cache_response` around the search route in that
process, with the pool's connections; an answer is known by the instant of its
SELECT. **SearchCacheProofs** has its proofs.

Some definitions are marked *mutant*: a variant of the definition that follows,
with a plausible bug (a dropped guard, a forgotten recomputation). They are in no
specification; `PROJECT.json` says which property each must break.

### Abstractions

* *Score in the pipeline.* A stored score is the pair (confidence, enrichment)
  it was computed from. The third input, the age of `last_seen`, is covered by
  `rescored`: at a commit the number may differ although the pair is equal
  (decay), and then SQLAlchemy writes the column. One `rescored` covers all
  objects of a session, though the code decides it for each, and a column whose
  pair differs is always written, though two pairs may give one number: no
  property relates the scores of two rows, or tells an unwritten column from one
  written with the same number. Module Scoring has the numbers.
* *Score in numbers.* ScoreLifecycle has one existing row, one item per feed and
  whole days. A feed that is applied again after a worker's death is one more
  feed; a refused dispatch is one that nobody receives. Two clock reads within a
  day are told apart where the code does: `last_seen` is always written, and
  `rescored` lets a score be written whose number, in whole days, is the one read.
* *Flush.* SQLAlchemy writes, for a loaded object, the columns whose value
  differs from the loaded one (`Updated`); for a new one all. An object that is
  in the session is not refreshed by a later SELECT (`Loaded`).
* *Isolation.* READ COMMITTED, PostgreSQL's default, which the engine does not
  change: a SELECT sees the last committed rows. Two commits on one row are
  serialised by PostgreSQL's row lock, so a commit is one step.
  A commit that raises has written nothing; the reply that is lost after the
  server has committed is left out.
* *Merged steps.* Fetch, JSON decoding and parsing touch nothing shared and are
  one step; so are, in the pipeline, the two concurrent lookups, whose answers
  are any pair of results (ProviderPacing has them apart). `session.commit()`
  after the dispatch (tasks.py:54) has nothing to write.
* *Identifiers.* `generate_stix_id` is a UUID: an identifier no row and no
  session has.
* *Time.* In the pipeline only the order of clock reads matters, so `clock` moves
  when `upsert_indicators` reads it. Wall clocks of worker processes agree (one
  container).
* *Retries.* The countdown of a retry is not modelled: a retry may be delivered
  at any later moment, which includes the one Celery chooses. A retry whose
  publish the broker refuses (`RetryRefused`) ends the task without one; it is
  the fault `"publish"`, as a refused dispatch is.
* *Left out of the pipeline.* The Redis broker's visibility timeout (one hour,
  far above the task's timeouts and countdowns), loss of the broker's memory, and
  the columns `labels`, `pattern` and `defanged_value`, written once at creation
  and never read by the tasks.
* *Pacing.* Time is counted in ticks. The bucket's level is counted in units of
  1 / `Minute` token, so the refill is exact; the code's floats only add
  rounding. A sleep lasts whole ticks (`TokenWait` rounds up). That an answer
  takes no longer than `Timeout` is an assumption about the providers: httpx's
  `timeout=10.0` bounds connecting and the wait for each piece of an answer, so
  one that arrives in slow pieces has no bound in the code, and then neither has
  the lookup.
  With `Prompt`, time does not pass while something is due (`VtUrgent`,
  `ShUrgent`); the rates need no `Prompt`, `LookupInTime` does. `ClientOf` gives
  each lookup its pair of clients. manager.py:23-24 makes a new pair every time;
  a pair that lookups share is what the locks in the classes provide for, and the
  run `pacing` and the proofs cover it too. It is the harder case: with a pair
  of its own a lookup never finds the lock taken.
* *Pagination.* A row is its two sort columns; the type and confidence filters
  restrict like `min_risk` and `max_risk` and are not repeated. Ties are broken
  any way, anew for each page, as PostgreSQL may. `steady` are the rows that
  pass the filter at the first page, are never written and are never tied when a
  page is read; `pulls` and `pushes` count the writes that moved a row down and
  up. A write with the same values counts as neither.
* *API.* A request's session takes its connection with the SELECT and keeps it
  until FastAPI ends the dependency, after the wrapper and its SETEX. `alive` are
  the sessions whose connection still works; PostgreSQL's stop cuts them all. A
  free connection that was cut is replaced by `pool_pre_ping`. While the pool is
  full a request waits up to the pool's timeout, so it either gets a connection
  when one is free or fails. An orderly shutdown lets requests end first, so it
  is a stop without requests in progress. The process may die in `lifespan` too,
  between its two calls; a death before the first has taken effect changes
  nothing.
* *Latency.* `MaxLatency` bounds the time between a search's SELECT and its
  SETEX. Nothing in the code enforces one; `AnswerFresh` says that the bound on
  an answer's age is as good as this latency, whatever it is, and no better.
* *Redis in the cache.* It stops and starts at any time, with or without its
  entries, and expires on its own clock. `client` is `redis_client` after
  `init_redis`.

## 3. Runs

| run | instance | shows |
|---|---|---|
| `two_workers` | 2 workers, 2 requests, 2 rows, a feed with an unknown value and an indicator at 97, one fault of any kind | `WriteInv`, and with it: the refinement of `SharedTable`; enrichment messages are about rows, rows never overclaim, enrichments and sightings do not overwrite each other's columns, `risk_score` aside; a request is applied no oftener than its deliveries after worker deaths account for |
| `one_worker` | 1 worker, 2 requests, empty, single and double feeds, one fault of any kind, crash included; fetches may always fail | `OneWorkerInv`, and with it: deduplication, ledger and scores exact; refinement of `IndicatorRegistry`; every accepted request comes to an end |
| `enriched` | 2 workers, faults only in feeds and lookups, as many as retries | `OwedInv`, and with it: every row is owed an enrichment; and gets it |
| `score` | 2 workers, one indicator of any type, confidences -20, 97 and 150, 3 VirusTotal and 2 Shodan reports, 2 feeds after the first, days 0..2 | range; understated only after a race; lowered by a sighting only after a race or over days |
| `search_cache` | 4 searches, one without a role, 2 connections, Ttl 2, MaxLatency 1, 5 instants; PostgreSQL, Redis and the process stop and start at will | answers younger than Ttl + MaxLatency; each search ends; the process serves again |
| `pacing` | a domain, an address and a file on one pair of clients (harder than the code, see *Pacing* above); a token every 3 ticks, an interval of 2, Timeout 2, Backoff 1, 18 instants | `TimeInv`; bucket and spacing hold; each lookup ends, and within the time its queue explains |
| `pagination` | 4 rows, 4 scores, 2 times, pages of one, a filter, 2 writes | `PagingInv`, and with it: each write between pages costs or repeats one row at most |

Five more runs expect a violation. Each is a disagreement between what the code
does and what a comment or docstring of it says:

| run | what happens | what is said |
|---|---|---|
| `repeated_feed` | an indicator twice in one feed makes two rows | parser.py:109 |
| `lost_sighting` | concurrent sightings overwrite each other: a +5 and a source are lost | parser.py:138, 141 |
| `stale_score` | an enrichment stores the score of an old confidence, for good if the sighting's own enrichment has committed before it | parser.py:108, manager.py:81 |
| `erased_data` | a failed provider erases its earlier report | manager.py:76 |
| `fleet` | with a client per lookup (manager.py:23) the requests per minute exceed the limit | virustotal.py:13, 17 |

`UniqueRows` and `LedgerExact` appear on both sides: they hold under the
conditions of the passing run and fail as soon as the condition named there is
dropped (feeds without repeats; one worker).

### Observations without a run of their own

* Two workers that find no row for an indicator both insert one (`two_workers`
  with `UniqueRows` added shows it): the docstring says "ON CONFLICT DO UPDATE"
  (parser.py:104), the index is not unique.
* With several workers `last_seen` may go back to the earlier of two sightings:
  the worker that read the clock first may commit last.
* A sighting that loaded the row before an enrichment committed stores the score
  of the row without that enrichment, beside the enrichment, until its own
  enrichment is done. This is the race `SightingLowersOnlyAfterRace` leaves out;
  without the conjunct `~Overtaken(w)` TLC shows it.
* A worker that dies after the commit and before the acknowledgement counts the
  feed again: `AppliedOncePerDelivery` allows exactly this and no more.
* When the broker refuses a message after the commit (tasks.py:52), the task is
  not retried and the remaining rows stay without an enrichment until they are
  sighted again: `enriched` with the fault `"publish"` shows it.
* After an enrichment without any result `enrichment_data` is not empty, so the
  score drops to 40 percent of the base score, while scoring.py:126 says "don't
  penalize".
* A confidence above 100, which neither the parser nor the table model stops, is
  lowered to 100 by the next sighting, which parser.py:107 calls an increase.
* Parser fallbacks: a confidence of 0 is falsy and becomes 50 (parser.py:219).
  One item that is not an object, has a confidence of Infinity (which JSON as
  Python reads it allows) or labels that cannot be iterated raises out
  of the parser, and the whole feed is dropped without a retry.
* Even one client alone may send 2 * `RateLimit` - 1 requests in a minute: a full
  bucket and what flows in (`BurstBound` is the exact bound). A request repeated
  after a 429 takes no token at all.
* `lifespan` "Ensures Redis and Postgres configurations are online"
  (main.py:24), but a failed `init_db` is only logged: without the tables every
  search is an error until the next start with a database
  (`SelectFails`); `/health` says "healthy" all the same.
* Rows equal in `risk_score` and `last_seen` may be skipped or repeated by
  pagination without any write: the ORDER BY has no unique last column.
* `from_url` sets no socket timeout (cache.py:18): a Redis that accepts
  connections and never answers would hold searches and the start for good.
  Such a Redis is not modelled; one that refuses or drops connections is.

### Bounds

`RowIds`, `Requests`, `MaxFaults`, `MaxRetries`, `MaxAge`, `MaxFeeds`,
`MaxTime`, `StartBy` and `MaxWrites` are the only bounds.

*Pipeline.* Two requests on one indicator give every pairwise race:
insert/insert, sighting/sighting (`lost_sighting` needs a third request to
create the row first), sighting/enrichment, enrichment/enrichment; the source has
`max_retries=3`, and 1 retry already distinguishes "retried" from "given up".
One fault suffices to reach every error path from every state; fetch failures
are not counted as faults, so each message may always use up its retries.
`two_workers` was also run with `MaxFaults = 2` (4.5 million states, no
error), which a check of a few minutes does not allow. In `two_workers`, two
rows allow both workers to insert the same indicator, so the invariant is
checked with duplicates present. When `RowIds` runs out, `UpsertNew` is disabled;
in the liveness runs no feed can need more rows than there are.

*Score.* Two workers give every pair of overlapping tasks; two sightings and
three enrichments are enough for a race, its repair and another race. The reports
reach the caps of both Shodan terms and the full VirusTotal score, the confidences
both ends of the clamp and what the validator does not stop; two days let a task
begin, score and commit on different ones.

*Cache.* There is time for an entry to be stored late, served, expire and be
stored again; three searches with a role and two connections let one find the
pool full while another stores over a third's entry.

*Pacing.* Three lookups put two waiters behind a sleeper on each lock, the domain
queues twice, and `MaxTime` is late enough that every lookup can end after its
slowest course (`RateLimit = 2`, `Minute = 5`, `MaxTime = 19` was also run: a
level with a remainder, so that a wait is rounded).

*Pagination.* Pages of one make every position a boundary; two writes can add up
or cancel, and of the four scores one is below `MinRisk`, one above `MaxRisk`
and two are listed.

**Deadlock** is off where the system may stop: no request left, last instant
reached, last page read.

### Fairness

`FairSpec` of the pipeline is weak fairness of each worker's steps:
Celery runs what it receives, the feed and provider clients have timeouts (15 s
and 10 s), and the container restarts (`restart: always`). Posting a request,
faults and crashes are not fair. A worker's fairness is on the disjunction of its
steps, so it promises neither that a fetch succeeds nor which message is taken;
`RequestsSettle` follows because messages are finitely many.

`FairSpec` of pacing is weak fairness of each lookup's steps (the event loop
runs a coroutine that is due; `asyncio.Lock` wakes its waiters in order) and of
`Tick`. A provider's answer is not promised, only that a request ends, which is
the assumption `Timeout` again.

`FairSpec` of the cache is weak fairness of each search's coroutine and of the
start-up (`restart: always`, and neither of its two calls blocks on what is
down), and strong fairness of the end of a start-up (`Yield`): of starts without
end that reach `init_redis`, not every one is killed there. Neither the return
of Redis or PostgreSQL nor the passing of time is fair, and the process may stop
as often as it likes: `ServesAgain` says that it comes back each time.

## 4. Proofs

All are for every value of the constants that satisfies the named assumptions
(sets of the right kinds, markers distinct from the values they stand beside).

**Pipeline** (`PipelineProofs`). `Invariance` proves `Spec => []IInv`, the first
half of `WriteInv`; `TypeCorrect`, `TargetsExist`, `Overstated` follow from it,
and `NothingClobbered` proves `NoClobber` with it.

*Why the invariant is needed.* `NeverOverstated` speaks of committed rows, but a
commit writes what a session computed long before. So `SessionsEarned` says of
each loaded object that it overstates its row's ledger by no more than its own
sightings are worth, and `SessionsDisjoint` that a new object has an identifier
of its own, so that a commit either adds to an existing ledger or opens one.
Ledgers only grow, which is why a commit by one worker never invalidates
what another holds, even though it may overwrite it. `NoClobber` needs from
`SessionsEarned` that an upsert leaves the enrichment of its objects as loaded
and that an enrichment leaves everything else. `EnrichmentTargetsExist` needs
`SavedOK` (what is about to be dispatched is a row) and that rows never vanish.
The proof has one lemma per group of actions: those that end a task
(`OverStep`), those that move a worker (`MoveSteps`), those that fill a session
(`SessionSteps`) and the two commits (`CommitUpsertStep`,
`CommitEnrichmentStep`).

**Shared table** (`PipelineProofs`). `TableRefined` proves `Spec => TableSpec`
without any hypothesis: not on the number of workers, not on the feeds, and with
every fault. A commit of an upsert is one `Report` of the source on the rows of
its session (`UpsertIsReport`), or nothing when the session is empty; a commit of
an enrichment is an `Enrich` (`EnrichmentIsEnrich`); no other step writes
(`CommitsWrite`). A commit writes the columns in which the object differs from
what was loaded, so a row after it mixes what others committed meanwhile with
what the session computed, and the refinement must say that the mixture is still
something reports can amount to. `IInv` does not know enough for that.
`WriteInvariance` adds `TableInv`: an object's score claims no more than its
row's ledger and its own sightings (`LoadedKept`), so that neither a stale score
nor a fresh one overstates (`ScoresEarned`); a new object is as a feed gave it,
because the SELECT does not see it and nothing sights it before the commit
(`NewAsGiven`); an object was sighted at least once, and no more often than its
feed has items (`FitsFeed`, which counts the items left against the sightings
made), so that the ledger grows by a report some feed can give; and what was
loaded enriched is enriched (`LoadedEnriched`), so that an enrichment that finds
nothing new and writes no column still leaves the row enriched. `RowsKept` is what
follows for a single row: never deleted, never another indicator's, never first
seen at another time, never set back to unenriched.

What `SharedTable` allows is what the code really does under several workers:
lost sightings, duplicate rows of one indicator, `last_seen` going back to an
earlier report. `IndicatorRegistry` allows none of these, and needs the two
hypotheses of *One worker* below.

**Deliveries** (`DeliveryProofs`). `Deliveries` proves `Spec => []DeliveryInv`,
and `AppliedOnce` derives `AppliedOncePerDelivery`. `DeliveryInv` is a balance
for each request: waiting copies of its messages, workers that hold one before
their commit, and commits together are no more than the POST and the deaths of
workers account for. Receiving moves a copy to a holder, a retry moves it back, a
commit turns a holder into a commit, and an end drops it. A death turns a holder
into a copy; but a worker that dies while only its acknowledgement is missing
adds a copy beside the commit, or beside the retry it had already sent, and this
is where `crashes` pays. The sets of copies and holders are finite although
`Workers` may not be: each holder was paid for.
`SettledForGood` is the safety half of `RequestsSettle`: messages of a posted
request come from messages of it only, so when the last is gone the request is
over, and its feed is not applied again.

**Promises** (`DeliveryProofs`). `Promises` proves `Spec => []OwedInv`, and `Owed`
derives `EnrichmentOwed`, under the hypothesis `ServicesUp`: the kinds of fault are malformed feeds and raising
lookups, and there are no more of them than one task is retried. Fetches may
always fail, and the number of workers, requests, rows and retries is free. The
hypothesis is needed: a dead worker forgets what it saved, a refused publish or a
failed commit of an enrichment is not retried, and a lookup that raises once more
than `max_retries` gives the row up. `EnrichmentOwed` is not inductive. A message
that only lacks its acknowledgement still counts for it and promises nothing, so
`OwedInv` asks for a `Promised` row: a waiting message, a lookup or a saved
identifier. Each action then passes the promise on: the upsert saves the
identifier of whatever it loads, the commit makes rows of what is saved only,
`Dispatch` turns the head of the list into a message, receiving turns the message
into a lookup (the row is there, by `EnrichmentTargetsExist`), and a raising
lookup into the next attempt, which exists because every retry was paid for by a
fault (`RetriesFaulted`). The end of the promise is the commit, and it must leave
the row enriched also when the answers equal the data the task had loaded and no
column is written: `LoadedEnriched`, from `WriteInv`, says that the table then has
data already.

**One worker** (`OneWorkerProofs`). Two hypotheses: `OneWorker` (no two worker
processes) and `PlainFeeds` (no feed names an indicator twice or gives a
confidence above 100). The number of requests, indicators, rows, retries and
faults is free, and any worker step may still crash or fail. Both hypotheses are
needed: `repeated_feed` and `lost_sighting` break the conclusions without them,
and neither is checked by the code. `OneWorkerInvariance` proves
`Spec => []OneWorkerInv`; `RowsUnique`, `RowsExact`, `ScoresCoherent` and
`RowsInOrder` follow. Two rows of one indicator could only come from an insert
whose SELECT is out of date, so the invariant says what a session knows:
`LoadedCurrent` (a loaded row is still the committed one, sighted once),
`NewCurrent` (a new object still has no row, and is as a feed gave it),
`SessionNamesOnce` and `RestNamesOnce` (neither the session nor the rest of the
feed names it again, which `autoflush=False` would not notice), and `Clocked`
(what is committed is older than the clock this upsert read). The two commits
then write exactly the object (`UpdatedCurrent`): the columns left out of the
UPDATE are those in which it equals the row. `PlatformIsRegistry` proves
`Spec => RegistrySpec`: a commit of an upsert is a `Report` on the indicators of
its session (`UpsertReports`), a commit of an enrichment is an `Enrich`
(`EnrichmentEnriches`), every other step leaves `RegistryOf(rows)` as it is.

**Score** (`ScoreLifecycleProofs`). `Invariance`, `TypeCorrect`, `InRange`,
`UnderstatesOnlyRaced` and `SightingsLowerOnlyRaced`, for any number of workers,
every decay table that never rises, every report and every confidence. Neither
"a score is never below what the formula gives now" nor "a sighting never lowers
it" is true of the code: a task scores the columns it read, and the commit may
put that score beside columns another has written since. The properties say that
nothing else does it. `UnderstatesOnlyAfterRace` has one hypothesis, that the last
commit found the row its task had read (`~raced`); so one commit that nobody
overtakes repairs the score. `SightingLowersOnlyAfterRace` also asks for a task
that is not overtaken itself, for a clock read on the day of the commit (a feed
held for days stores an old `last_seen`) and for a confidence that is a percentage
(above it the boost is a cut). Each hypothesis is needed: TLC finds a behaviour
without it. About the commit of an overtaken task only the range is claimed.

The invariant says of a session what it says of the row: `SessionInv` has
`ScoreOfRow`, that the score of an object lies between what the formula gives for
the object's own columns today and what it would give had the row been seen today.
The lower bound is kept as days pass because the formula only falls with age, and a
commit that was not overtaken makes the object the row. The upper bound is what a
sighting needs: its score is that of a fresh row with no less confidence
(lemmas on `Decayed` and `Clamped`: monotone in age and in confidence).

**Pacing** (`PacingProofs`). `Invariance` proves `IInv`, `Burst` and `Spacing`
derive `BurstBound` and `Spaced`, for any number of lookups and clients and any
rates, and without assuming that the event loop is in time. `BucketInv` says that
level and tokens taken since `t` are together no more than a full bucket and what
flowed in up to `last_update`: a refill adds to both sides, and the cap only
takes away. `SpacingInv` needs that the one who sleeps still holds the lock, since
the code does not look at `last_request_time` again after the sleep.

**Lookup time** (`LookupTimeProofs`). `Timing` proves `TimeInv` and
`LookupBounded` derives `LookupInTime`, under two hypotheses: `Prompt` (the event
loop runs what is due before time passes; a loop that is late by any amount makes
any bound false) and finitely many `Lookups`. The rates, the clients, the types
and the timeout are free. `LookupInTime` says nothing of the line a lookup stands
in, so `TimeInv` gives each lookup a deadline for leaving the lock (its start and
one longest wait for each lookup that shares the client) and says of every place
in the line: the holder's end, and one longest wait for each place in between,
are within the deadline. A new arrival keeps it because the line holds each
lookup that shares the client once (`InLine`), so its place is at most their
number; the departure of the holder keeps it because the next one needs at most
the wait the deadline reserved for it, and `WakesToToken` (after its sleep the
holder finds a whole token) makes it need that only once. A domain's second
request begins a second turn, which `ShDeadline` adds when `target` is the
address.

**Pagination** (`PaginationProofs`). `Paging` proves `PagingInv`; `MissedBounded`
and `RepeatedBounded` derive the two properties, for every number of indicators,
scores, times and writes, every filter and page size, and whatever PostgreSQL
does with ties. `Indicators` is finite, as a table is. The properties compare what
was shown with counts of writes and are not inductive; `PagingInv` says where the
rows are: those behind the offset that were never shown (`Skipped`) are no more
than `pulls`, those shown and still before it, or shown twice (`Returning`), no
more than `pushes`. A page shows the rows whose `Rank` is within it, whichever way
ties are broken, because steady rows have no equal (`AmongTheFirst`,
`OnThePage`), so reading skips and repeats nothing new. A write changes the rank of
every other row by one at most (`OnePlace`), and since ranks of steady rows differ
(`RanksDiffer`) it takes at most one of them over the offset.

**Cache** (`SearchCacheProofs`). `Invariance` proves an invariant of its own
(`EntryYoung`, `ResultYoung`) and `Fresh` derives `AnswerFresh`, through stops and
starts of the process, PostgreSQL and Redis. Without `EntryYoung` a hit could
serve an entry stored late any number of times.

*Only model-checked:* all liveness (`RequestsSettle`, `EveryRowEnriched`,
`EveryLookupEnds`, `EveryAnswered`, `ServesAgain`: fairness is out of the
prover's reach; for the first two, `SettledForGood` and `RowsKept` prove that what
is reached stays). Every invariant, every action property and both refinements of
the passing runs are theorems.

## 5. Not modelled

The relationships route (reads a table that nothing writes), STIX serialisation
and defanging (layout), regular expressions, the CORS policy, exception handler
and health route, the unused threat actor and relationship tables, tests and
deployment files. The parser is the items it yields or its error: its fallbacks
are single assignments, listed above, and a property about them would restate
them. `delay` in the async route of `POST /ingest` blocks the event loop while
it publishes; for how long is Celery's configuration.

## 6. What is left

1. The search cache as an atomic read of a table no older than Ttl + MaxLatency,
   and the connections of its pool accounted for.
2. `LookupInTime` with a bound on the lateness of the event loop instead of
   `Prompt`.
