# Bill Commons: TLA+ models and proofs

A verification project for this repository: TLA+ modules translated from the source,
TLC configurations that check them on small instances, and theorems about them that TLAPS
checks for every value of the constants.

Paths below are relative to the repository root. Short names: `W` is
`workers/webhooks/dispatch_webhooks.py`, `CLI` is
`workers/ingest/billcommons_ingest/cli.py`, `FT` is `fulltext.py` and `BF` is
`browser_fetch.py` beside it, `API` is `apps/api/billcommons_api/`.
The other ingest files named without a directory (`api_sync.py`, `scheduler.py`, `status.py`,
`openstates_bulk.py`, `coverage.py`, `validation.py`, `autoboot.py`) are beside `CLI` too.

## 1. The system

Bill Commons ingests legislative data from Open States and from the legislatures' own sites
into one PostgreSQL database, serves it over an HTTP API, and tells subscribers what changed.
Every part runs as a separate process, usually on a timer; the database is what they share.
Each write is one transaction, and what is hard comes from transactions that overlap, from
rows that are read before a slow call and written after it, and from processes that die
between two commits.

### Components

| component | state it keeps | operations | talks to |
|---|---|---|---|
| change log: `shared/events.py`, `watermark.py`, table `bill_events` | append-only rows, a sequence | `record_event` in every writing transaction | read by `/changes`, Atom feeds, webhooks, alert digests |
| `/changes`, feeds: `API/routers/changes.py`, `feeds.py` | none; the client keeps `next_cursor` | one page per request | change log |
| webhook dispatcher: `W` | `webhook_subscriptions` rows, a session-level advisory lock | tick, drain (fetch, POST, record), challenge, GC | change log, receivers, mailer, owner |
| webhooks API: `API/routers/webhooks.py` | the same rows | create, list, delete, reactivate (resume, skip) | dispatcher through the row |
| alert mailer: `workers/alerts/send_alerts.py` | `notify_pending` of the rows, alert windows | drain notices, topic digest | dispatcher, owner, change log |
| job queue and crawl workers: `queue.py`, `CLI`, `FT` | `ingest_jobs`, `bill_documents` | enqueue, claim, process, complete, fail, dead-letter, top-up, reset | documents, browser |
| attended browser: `BF` | `bill_documents` | select, re-read, fetch, store or charge | crawl workers through the row |
| Open States sync: `api_sync.py`, `scheduler.py` | jobs, sync runs, request counts, in-memory set of bills to re-derive | schedule pass, sync run, budget deferral, replay of a window | queue, change log, statuses |
| statuses: `status.py`, `recompute_status_for_bills` in `CLI` | `bills.status`, `related_bills`, a resume point | derive for a sync, sweep after adjournment, recompute-status in chunks | sync worker, calendar |
| bulk bootstrap: `openstates_bulk.py`, `autoboot.py` | bills and children, committed by chunks; import runs | load a session zip, repeat it | change log, coverage, API sync |
| extractors, resolvers | none between runs | parse | crawl |
| API keys: `api_keys.py`, `account.py` | keys, customers, login tokens, an in-process cache with tombstones | mint, rotate, revoke, reveal, expire, resolve, claim token | quota, billing |
| quota, rate and concurrency limits: `quota.py`, `rate_limit.py`, `concurrency.py` | usage counters, in-flight counts | check, count, release | every request |
| billing: `routers/billing.py` | customers, subscriptions, `stripe_events` | Stripe events in any order, checkout, cancel, swap | keys |
| coverage, validation, health: `coverage.py`, `validation.py`, `scheduler.py` | `jurisdiction_coverage`, `validation_runs` | recompute, select, judge | bulk loads, crawl, autoboot |
| read-only routers, search, MCP server, web front end | none that matters | SELECT and render | database |

### What makes each of them correct, and what is hard

- **Change log.** A reader that stands at a cursor never misses a row that appears below it
  later. Hard because `seq` is drawn at INSERT, `changed_at` is the writer's BEGIN, and
  visibility is its COMMIT: three different orders.
- **Readers.** A window `(last_seq, watermark]` drained in pages, with the watermark of an
  earlier moment; a cursor of `/changes` over rows filtered by their own age.
- **Webhook delivery.** At-least-once over crashes, lost answers and overlapping dispatchers;
  the strike rule counts consecutive answers; the disable and creation notices all reach the
  owner through a one-value slot; a disabled row is not revived by a drain that loaded it
  earlier; delivery resumes after every failure or the subscription is disabled in the end.
- **Crawl.** A claim is not committed until its job ends, a failure is recorded in a second
  transaction, and two writers who do not share a lock count one document's attempts. Each
  document must settle, each job must leave the queue, and nobody is charged for an outage.
- **Sync.** The updated-since watermark may not pass a change although pages are numbered over a
  listing that moves; running out of the day's requests costs a job nothing, and the note of it must not
  overwrite a row that moved on; no duplicate jobs; statuses that lag behind their actions are owed by some process.
- **Statuses.** A bill's status follows from actions, calendar and, when it was substituted, its
  survivor's status: whose chunk comes first must not matter, and repeated passes must settle.
- **Bulk load.** It commits in chunks and may stop after any of them; the next load must complete it,
  and a vote must be announced with its row, once. Nothing keeps two loads of one session apart.
- **Coverage.** A badge must not outlive its facts, although the passes that measure, select and judge
  read and write the row in different transactions.
- **Keys.** The resolution cache is not transactional: a fill that read before a revocation must
  not be kept after it. The ceilings hold under rotations, lapses and failed commits; a key's plaintext leaves
  once; two links redeemed at once mint one key. Not every writer takes the customer's lock.
- **Webhook quotas.** Create, reactivate and the promotion of an answered challenge each count seats
  and take one; challenges take turns.
- **Quota and limits.** A quota that is read before a request and counted after it is overshot by no more than
  what fits into the slots; one address does not use up its subnet's windows.
- **Billing.** Stripe's events are reordered, repeated and interrupted, and a cancel at Stripe cannot be
  rolled back: both sides must agree once all events are handled, with one subscription billed.

`PROJECT.json` lists every component with its status under `components`, and every hazard
with its line and the properties that cover it, or the reason why none does, under `hazards`.

## 2. The modules

```
        StableLog  <--- refined by ---  ChangeLog  <--- extended by ---  LogReaders
            |                                                                |
     instantiated by                                            proved about in LogReadersProofs
            |
     WebhookDelivery  <--- MCWebhookDelivery,          FetchQueue  <--- FetchQueueProofs
                           DeliveryProofs              ApiKeys  <--- MCApiKeys, ApiKeysProofs
     Subscriptions  <--- MCSubscriptions, LimitsProofs
     RequestLimits  <--- MCRequestLimits, LimitsProofs
     Billing  <--- MCBilling, BillingProofs            SyncWorker  <--- MCSyncWorker, SyncWorkerProofs
     BillStatus  <--- MCBillStatus, SyncWorkerProofs   BulkLoad  <--- Coverage  <--- MCCoverage, CoverageProofs
```

### StableLog

The abstract promise: a mark that only rises and a set of entries that only grows above the old
mark. A reader whose cursor is at the mark is done. It is what `WebhookDelivery` reads from, and
what `ChangeLog` is proved to implement, so that the dispatcher can be checked without modelling
writers again.

### ChangeLog

| in the module | in the code |
|---|---|
| `began[w]`, `pending[w]` | a session's open transaction: `now()` in it, and its uncommitted rows |
| `nextSeq`, `event[s]` | the `bill_events` sequence, and the row with that `seq` |
| `Begin`, `Commit`, `Rollback` | the session contexts of `CLI` around every ingest command |
| `RecordEvent` | `events.record_event` and its flush |
| `Tick` | time; no open transaction reaches the age `MaxTxn` |
| `Aged`, `Watermark` | `changed_at <= now() - lag`, and `compute_watermark` |

`MaxTxn` is the length every writing transaction stays below. The code assumes such a bound and
does not enforce one (see the findings): in the model it is a parameter, and the proofs say which
lag suffices for it: `LagSuffices == Lag >= 2 * MaxTxn - 1`.

### LogReaders

Extends `ChangeLog` with the dispatcher's window (`ComputeWatermark`, `DrainBatch`) and a client
of `/changes` (`PollChanges`). The watermark is computed once and used by drains that start
later, while writers go on: `mark` may be arbitrarily stale. `hookLag` is the `lag_seconds` of
the last payload. Every delivery is acknowledged here; what happens when it is not is
`WebhookDelivery`.

### WebhookDelivery

One subscription, any number of dispatchers, its owner, the mailer and the receiver.

| in the module | in the code |
|---|---|
| `row` | the subscription's row: `last_seq`, `active`, `disabled_reason`, `last_error`, `consecutive_failures`, `failing_since` (by its age), `next_attempt_at` (set or not), `notify_pending` |
| `worker[d].copy` | the ORM object in a session with `expire_on_commit=False`, loaded once per tick |
| `Tick`, `Load` | `main`, `run_tick`, `eligible_deliveries`, the thread's `db.get` |
| `Fetch` | a turn of `_drain_one` up to its POST: unknown scope, empty window, orphans, halving, oversized skip |
| `Acknowledged`, `Refused` | the answer, `_record_success`, `_record_failure`, `_apply_backoff`, `_maybe_auto_disable`, `_disable` |
| `Commit`, `Flush` | SQLAlchemy's UPDATE: only columns that differ from what was loaded; `last_seq` by `GREATEST` and then refreshed |
| `InternalError`, `Crash`, `LoseLock` | `_run_one`'s handler, a dead process, a dead lock connection |
| `Delete`, `Reactivate` | the owner's requests |
| `Mailer*` | `drain_webhook_notifications`: read, send, compare-and-swap |
| `LogGrows`, `ScopeRetired`, `FailingGetsLong`, `BackoffElapses` | the world |

`served`, `toldCreated`, `toldDisabled`, `reactivated`, `hardRun` and `latePosts` are history
variables: no action reads them.

### FetchQueue

| in the module | in the code |
|---|---|
| `job[j]` | a `fetch_text` row of `ingest_jobs`, as committed; `running` never is |
| `doc[d]` | `bill_documents`: has text, `fulltext_status` (kept in `license_note`), `fetch_attempts` |
| `worker[w]` | a crawl worker: topping up, holding a claim, between rollback and record, holding the document's lock |
| `TopupReads`, `TopupInserts` | `enqueue_fulltext_jobs`: a SELECT, then the INSERTs |
| `Claim`, `Complete` | `claim_job` (SKIP LOCKED), `process_fetch_text_job`, `persist_extraction_outcome`, `complete_job`, one transaction |
| `FetchFails`, `Outage`, `Deadlock` | the ways a job raises, and `classify_job_failure` |
| `RecordDocument`, `RecordJob` | `record_job_failure`: the document's lock, then the job's row, then the commit |
| `Crash` | a killed worker, its transaction rolled back |
| `Browser*` | `select_browser_documents`, the refresh, the outcome, `_charge_fetch_error` on the stale copy |
| `Reset`, `BackoffElapses` | `reset-fetch-attempts`, `run_after` |

`blamed` and `tries` are history variables. `Changed` is the ORM's UPDATE of the columns that
differ, applied to a row that somebody else may have written since.

### ApiKeys

One customer, the threads of the one API process, and the world. A transaction is one or two
steps before its commit and, since the cache is not transactional, one after it.

| in the module | in the code |
|---|---|
| `row[k]` | an `api_keys` row, as committed: `status`, `plan`, and whether it has a `reveal_ciphertext` |
| `over`, `lapsed` | whose `revoke_at` and whose `reveal_expires_at` have passed |
| `plan`, `events` | `customer_plan` of the committed subscriptions; how many Stripe events were handled |
| `used` | `login_tokens.used_at` |
| `cache[k]` | `_cache`: the status and the plan a key was last resolved to |
| `req[r]` | what a request thread is at; `raced`, on a resolution, is "a tombstone was left since `read_started_at`"; `owes` is the gap between a commit and its hook |
| `Resolve*`, `Invalidate`, `AfterCommit` | `resolve_key`, `invalidate`, `_invalidate_after_commit` |
| `Look`, `ExpireStaleReveal`, `Reveal*` | `GET /account/me`, `expire_stale_reveal`, `reveal_key_endpoint` |
| `Create*`, `Rotate*`, `Revoke*` | `create_key`, `mint_key`, `rotate_key`, `revoke_key`, each with its caller's commit |
| `ClaimToken`, `Login*` | `_claim_login_token`, `mint_developer_key_if_first_login` |
| `Subscription*`, `Refund*` | what the Stripe webhook does to keys: `_recompute_plan_onto_keys`, `_mint_paid_key_once` |
| `Abort`, `Restart` | an error before a commit; the process dies between a commit and its hook |

The locks are read off the requests: `HoldsCustomer` is the `FOR UPDATE` of the customer's row, `RowFree`
the lock that a flushed UPDATE holds on a key's row. `told` and `auto` are history variables.

### Subscriptions

A webhook subscription from its creation to its promotion; `WebhookDelivery` begins where it ends.

| in the module | in the code |
|---|---|
| `row[s]` | a `webhook_subscriptions` row: active, verified, attempts, due, the order of its last challenge, older than the GC's day |
| `lock` | `_QUOTA_LOCK_KEY`, the transaction's advisory lock |
| `CreateCounts`, `CreateCommits` | `create_webhook`: the lock and four counts, then the INSERT with its creation event, or the conflict |
| `ReactivateReads`, `Counts`, `Commits` | `reactivate_webhook`: the row is read before the lock is waited for |
| `BeginChallenges`, `Challenge`, `Accepted`, `Failed`, `Gone`, `Lost`, `OutOfTime` | `run_challenges`, `_attempt_challenge` and the strike rule |
| `CollectOld`, `Delete` | `gc_unverified_inactive` and the GC of a tick, `delete_webhook` |

`overtaken` and `misread` are history variables. Its specification is `HooksSpec`, so that `LimitsProofs` can extend this module beside
`RequestLimits`.

### RequestLimits

| in the module | in the code |
|---|---|
| `inFlight`, `Arrives`, `Leave` | `ConcurrencyLimitMiddleware` |
| `ip`, `subnet` | the fixed windows of an address and of its /24, per tier |
| `Anonymous`, `BadKey`, `TurnedAway` | `_anon_tier_check` for an anonymous call and for a bad key, which peeks first |
| `usage`, `ReadUsage`, `Admit`, `Count`, `NotCounted` | `_dispatch_keyed`: the read, the handler, the count, each behind an await |
| `Tick` | the clock: windows expire and the day ends |

What the middleware does between two awaits is one step, because it runs on the event loop. Every metered request
of the model holds a slot; the ones of the code that do not are in section 6.

### Billing

| in the module | in the code |
|---|---|
| `stripe[s]`, `due` | the subscriptions at Stripe; events that no delivery has committed |
| `row[s]` | `api_subscriptions`: status and `last_event_created_at`, in whole seconds |
| `handler[h]` | a webhook request: what it read, decided, flushed and still has to cancel at Stripe |
| `Deliver`, `Decide`, `ApplySubscription`, `ApplyInvoice`, `ApplyCheckout`, `ApplyRefund` | `stripe_webhook` and its handlers |
| `Flush`, `CancelAtStripe`, `CancelRejected`, `Commit`, `Fails` | the rest of the transaction, its order and its ways to end |
| `entitled` | a live `snapshot_entitlements` row of kind subscription |

`Locks` says who waits: handlers of subscription events hold the customer's row, those of invoices do not.
`overtaken`, `reverted` and `rejected` are history variables for what the code gives up on.

### SyncWorker

| in the module | in the code |
|---|---|
| `stamp[b]`, `have[b]`, `derived[b]` | when a bill last changed upstream, which version is stored, which its status was derived from |
| `watermark` | the latest `started_at` of a successful run |
| `job[j]` | an `api_sync` row of `ingest_jobs`, as committed |
| `actor[a]` | a sync worker or an operator: the page, the run, the bills it owes a derivation |
| `SchedulePass`, `Enqueue` | `run_schedule_pass` under its advisory lock |
| `Claim`, `FetchPage`, `WritePage`, `CommitJob` | `run_api_sync_job` and `sync_state`, one transaction over minutes |
| `BudgetExceeded`, `RunFails`, `Defer`, `RecordFailure` | the handlers of `cmd_sync_worker`, `defer_job_for_budget`, `fail_job` |
| `DeriveReads`, `DeriveCommits`, `DeriveFails`, `Crash` | step 3 of a cycle, and what a dead process forgets |
| `ManualSync`, `ReplayChunk`, `CommitChunk` | `cmd_api_sync`, `run_api_versions_backfill` |
| `replay[o]` | the replay an operator has in progress: its window, the page it was told to resume at, and what the window had when it began |

### BillStatus

`Derived` is `derive_status` as a definition over a set of actions: the outcome of highest rank, a stale
carryover death dropped. `Recompute(chunk)` is `recompute_status_for_bills`, its survivors looked up rank by rank
(`RankByRank`), and every caller is an action: `DeriveTouched`, `Sweep` and `DateFilled` of the sync worker,
`StartPass` and `PassChunk` of `cmd_recompute_status`, whose resume point is `pass`. `Sync`, `Import` and
`SessionEnds` are the world. Each is one transaction and one step; interleaved derivations are `SyncWorker`'s.
`Measures` are the ids of bills (`Bills` in `SyncWorker`, beside which the theorems stand). `passes` counts the whole passes since
anything last changed. It is kept for the properties; the code knows only the resume point.

### BulkLoad and Coverage

`BulkLoad` has no specification of its own: its actions are the loads of one session by `ingest_session_csv_zip`, section by
section (`LoadOrganizations` to `LoadVotes`), their failures (`LoadFails`, a constraint; `LoadBreaks`, a Python error whose
handler commits) and the API's upsert of the same bill (`SyncBill`).

| in the module | in the code |
|---|---|
| `Loaders`, `load[l]` | the processes that run `bootstrap`, each with its own load: section, file, what the section has preloaded (`known`, `seen`) and `bill_by_openstates_id` (`touched`) |
| `Begin` | `cmd_bootstrap`, which takes no lock: any two loaders may be at it at once |
| `bills[b]`, `rows` | checksums of bills; child rows. Bills, subjects and organizations have a unique key, so that the later of two inserts fails its load (`Conflict`) |
| `votes[v]`, `told[v]` | how many rows a vote has, for `vote_events` has no unique key, and how many VOTES events |
| `Unseen` | the `existing is None` branch: not in the map that the votes' section read when it began |
| `raced` | history: votes that were not stored when two loads were in that section |

`Coverage` composes them with autoboot (`Workers`, the loaders that are crawl workers: `Boot`, `Dies`), with an operator's
`bootstrap` (`Bootstrap`, of the other loaders), with the two halves of a recompute (`RecomputeReads`, `RecomputeCommits`: minutes of other transactions may lie
between) and with the validate worker (`Select`, `Judge`, `JudgeFails`), by whose priorities (`Priority`) rows compete.

## 3. The runs

| run | question | result |
|---|---|---|
| `LogReaders` | Is a lag of `2 * MaxTxn - 1` enough for the window, and what can `/changes` skip? | all four hold |
| `WebhookDelivery` | Does one dispatcher deliver everything and count right, for ever? | all three hold |
| `WebhookOverlap` | And when two overlap, is the owner told, and does nothing fall back? | all five hold |
| `FetchQueue` | Are charges earned, do jobs end, documents settle, and spent documents come to rest? | all four hold |
| `ApiKeys` | Do the cache, the ceilings, revocations and first logins hold when requests overlap? | all four hold |
| `SyncWorker` | Does the watermark pass by a change, is a stale status owed, is the budget free, are jobs unique? | all four hold |
| `SyncReplay` | Does a resumed replay cover its window while the listing moves? | holds |
| `Billing` | Do Stripe and the database agree in the end, and is nobody billed twice? | all three hold |
| `RequestLimits` | By how much is a quota overshot, and what may one address take from its subnet? | both hold |
| `BillStatus` | Do chunks matter, does recompute-status settle, does the calendar reach everybody a batch at a time? | all five hold |
| `Subscriptions` | Do the ceilings hold whoever counts, and does every challenge have its turn? | both hold |
| `Coverage` | Is a load that returns success complete, is a vote announced once though loads overlap, is a hollow badge withdrawn? | all three hold |

The properties themselves are commented where they are defined.

### Sentences of the code that do not hold

Each is a definition of its module that no run lists, because TLC refutes it; the finding in `PROJECT.json` quotes
the sentence. To see the trace, make a configuration with the constants named here and that one property:

| property | module | constants |
|---|---|---|
| `WatermarkSettled` | `ChangeLog`, `LogSpec` | `Writers = {w1, w2}`, `MaxTxn = 3`, `Lag = 3`, `MaxSeq = 2`, `Horizon = 6` |
| `FeedMissesNothing` | `LogReaders`, `Spec` | `LogReaders.cfg` with `MaxSeq = 2`, `Horizon = 5` |
| `DisableLeavesNotice` (temporal) | `WebhookDelivery`, `Spec` | `WebhookDelivery.cfg` with `MaxSeq = 1`, `Oversized = {}`, `BatchSize = 1`, `MaxMishaps = 0` |
| `DoneIsFinal` (temporal) | `FetchQueue`, `Spec` | `FetchQueue.cfg` with `MaxMishaps = 0` |
| `KeysCarryThePlan` | `ApiKeys`, `Spec` | `Keys = {k1, k2}`, `Presented = {}`, `Tokens = {t1}`, `MaxUsable = 3`, `MaxActive = 2`, the rest of `ApiKeys.cfg` without its symmetry |
| `ScaleIsEntitled` | `MCBilling` | `Billing.cfg` |
| `VerifiedQuotaHolds` | `MCSubscriptions` | `Subscriptions.cfg` with `MaxCrashes = 0` |
| `ReRunsAreSilent` | `MCCoverage` | `Coverage.cfg` |
| `SweepRunsDry`, `SweepGetsToAll` (temporal, under the specification's fairness) | `MCBillStatus` | `BillStatus.cfg` |

### Bounds, and why they are enough

- `LogReaders`: two writers, three seqs, instants 0 to 4, `MaxTxn = 2`, `Lag = 3`, one row a page.
  Everything that can go wrong is about a pair of overlapping transactions and one row of each; a
  third seq is there so that a page boundary and an overlap occur at once. `Lag` is the smallest
  that satisfies `LagSuffices`, and below it the log does not refine `StableLog`. The theorems remove all of these bounds.
- `WebhookDelivery`: three changes, the middle one too big for a payload, batches of two: a batch
  is halved, sent, and its rest skipped. Two strikes instead of 3 and of 2160: a streak
  that is completed, and one that is interrupted. At these bounds the only oversized
  seq is one, so a skip streak reaches its limit only in principle: the `payload_too_large` disable is an
  action of the model that this instance does not reach. One mishap, of any kind, at any point.
- `WebhookOverlap`: two dispatchers and two changes, the first of them an orphan, batches of
  one. The mishap is what it takes for the dispatchers to overlap. They are symmetric, and only safety
  is checked here.
- `FetchQueue`: one document, two workers, one job at a time, two attempts for the job and for
  the document, one mishap. Two workers are what it takes for a claim between a rollback and its
  record; documents share nothing but the queue. A second job of the same document would take a
  second free row: the double insertion that `TopupReads`/`TopupInserts` allow is in the model and not
  in this run.
- `ApiKeys`: two threads, two links, two Stripe events, three keys under ceilings of one active and two
  usable. The code's ceilings are 2 and 3; one less of each is the smallest instance in which
  a rotation exceeds the one and is stopped by the other, with a row to spare. Clients present one of the keys:
  cache entries share nothing across keys. Rows, links and threads are symmetric, and only safety is
  checked.

- `SyncWorker`: two workers, two bills of one jurisdiction, pages of one bill, at most two pages a run, two job rows, two
  requests a day, two mishaps. Two bills are what it takes for one to move past a page boundary; a
  run of one page is truncated; two workers and two rows are what it takes for overlapping runs, a re-claimed row and
  a duplicate. `Horizon = 2` lets a day end. With `Horizon = 3` and one mishap (4.3 million states) everything holds as well.
- `SyncReplay`: one operator, three bills and chunks of two pages, so that a chunk ends in the middle of the listing; no workers:
  what they would store is not what a replay answers for.
- `Billing`: two subscriptions, for the duplicate and the swap; two threads, for the lock and what has none; two
  seconds, so that events tie and do not; three changes of Stripe's own, with the events each queues, and one mishap.
- `RequestLimits`: three requests and two slots: one more than fits. Two addresses; windows of two instants and a day of
  three, so that windows end inside a day and the day inside the run. A quota of one a day.
- `BillStatus`: an original, its print under the suffixed identifier, and a third bill; chunks and sweeps of two, so that a survivor is in the
  chunk, in a later one, and in none. Three upstream changes: enough for an outcome, a contradiction and a
  substitution, and for all three bills to be there. The end of the session does not count as one of them, so that a
  batch of two does leave an overdue bill out, and takes a print that stays substituted again and again (`Stuck`) beside
  it; with two such prints the premise of `CalendarReaches` fails, which is the trace of `SweepGetsToAll`.
  Chains of substitutions arise too, and are what `TwoPassesSettle` leaves out.
- `Subscriptions`: three rows, of which one repeats a url, of one host whose ceiling is one, two creators, pages of two,
  two reactivations and a crash. The ceilings are the smallest; the code's are 10, 500, 10 and 5.
- `Coverage`: a worker's load and an operator's, one bill, a subject, a row of each table whose section commits by chunks, two votes that
  chunks may part, so that the later load comes before, between and after the other's; one mishap, which an
  operator's load is too; two jurisdictions that compete for a batch of one. Two loads are what a race takes, and the theorems
  are about any number. A validation that errs is a mishap: a jurisdiction whose validation errs every time records no
  run, keeps its place at the head of its tier, and is not what `StaleGreenRejudged` speaks of. How long ago a degraded row was
  validated is not kept: at each selection it is due or it is not, so that it competes as often as it can. A jurisdiction's documents are counted to one: 80 % of one is one, which is what the
  threshold tells apart.

### Fairness

- `LogReaders`: the timer fires and the drain goes on (weak fairness of `ComputeWatermark` and
  `DrainBatch`), transactions end (the server kills one that idles in a transaction), time
  passes. Nothing is assumed of Begin and RecordEvent. `HookServesAll` follows for changes that are old
  enough before `Horizon`.
- `WebhookDelivery`: weak fairness of the tick, the load and the answer (a POST has a timeout).
  Strong fairness of `Fetch`: a drain may always run out of time first, but candidates are taken
  in the order of `last_attempt_at` (`rotation_order`), so each has its turn before the deadline again and
  again. Nothing is assumed of the owner or the mailer, nor that the receiver ever says 2xx.
- `FetchQueue`: strong fairness of each worker's steps and of each job's claim. A worker's lock wait
  ends because lock holders do, and the oldest due job is claimed first. Nothing is assumed of the
  browser, which may stop at any point, nor that a fetch succeeds.

- `BillStatus`: weak fairness of the sync worker's cycle: the process is restarted when it ends, and
  `DeriveTouched` and `Sweep` follow each other. Nothing is assumed of the operator, nor of which overdue bills the
  sweep's LIMIT returns: it may be the same ones every night. `CalendarReaches` therefore says that fewer prints than a
  batch stay overdue after their turn; then every batch has room for another bill.
- `Coverage`: weak fairness of a validator's loop, which selects or judges (`todo` says which): that of
  `cmd_validate_worker` goes on after an error. A degraded row becomes due again, as the hours pass. Nothing is assumed of recomputes, loads or the operator, and errors are mishaps.

`ApiKeys`, `SyncWorker`, `Billing`, `RequestLimits` and `Subscriptions` have no liveness property, and their
specifications no fairness.

No fairness is assumed of crashes, outages, deletions or resets, which are bounded by `MaxMishaps`.

## 4. What is proved

### The log and its readers

`LogReadersProofs`, of both modules, for every set of writers, `MaxTxn`, `Lag`,
`MaxSeq`, `Horizon` and `PageSize`, from `LogAssumption` and `PageAssumption` alone:

| theorem | says | needs `LagSuffices` |
|---|---|---|
| `LogInvariant`, `LogTypeCorrect` | the inductive invariant and the types | no |
| `SkewIsBounded` | stamps lag behind seqs by less than `MaxTxn` | no |
| `WatermarkIsSettled` | no row can still appear below an aged one | yes |
| `WatermarkIsStable` | the watermark never falls; the window below it never changes | yes |
| `LogImplementsStableLog` | `ChangeLog` refines `StableLog` | yes |
| `SubscriberMissesNothing` | the webhook cursor steps over no change | yes |
| `FeedSkipsAreInversions` | `/changes` skips only a change overtaken by one with an earlier stamp | yes |
| `LagIsNearFloor` | `lag_seconds` is above `Lag - MaxTxn` | yes |

**The invariant of the log.** `WatermarkSettled` is not inductive: nothing in it says who holds
an invisible row. `IInv` adds that every row below `nextSeq` and no other is in use (`RowsInv`), that an
open transaction's rows are invisible, its own and bear its BEGIN (`PendingInv`), that an
invisible row has such a transaction (`OpenInv`), that no transaction is older than `MaxTxn` (`AgeInv`),
and that the order of stamps follows the order of seqs up to `MaxTxn` (`SkewBounded`, which
is itself inductive only with the others: a new row takes the highest seq and a stamp less than
`MaxTxn` old).

**Why the lag is 2 * MaxTxn - 1.** Let row `t` be aged and `s < t` invisible. `s` was stamped
less than `MaxTxn` after `t` (skew), so its transaction began at most `MaxTxn - 1` later, and is less than
`MaxTxn` old: now is at most `t`'s stamp + `2 * MaxTxn - 2`, and `t` is not aged. Hence
`WatermarkIsSettled` from `IInv`; stability and the refinement follow because settled rows never change.

**The invariant of the readers.** `MarkInv` keeps `WatermarkSettled` for the watermark as it was
when it was computed. `HookMissesNothing` is inductive with it: what a drain steps over is
below its page (a page is an initial segment of what is due, `PageIsInitial`) or not there. The `/changes`
cursor is settled too (`FeedSettled`), but a settled row below it may be too young for the page that
passes it: `FeedSkipsOnlyInversions` says that some served row above it was stamped earlier, which
holds because that one was old enough.

In short: below the watermark nothing is undecided, at any moment, and a reader that stays in the
window inherits that.

### The webhook deliveries

`DeliveryProofs`, for any log, dispatchers, orphans and oversized changes, any limits of batch and body and any strike
rules, from `DeliveryAssumption` alone. The loop that halves a batch until it fits is `Halvings`, the least set of sizes closed under
`limit // 2`, so that no recursion stands in the way of a proof:

| theorem | says |
|---|---|
| `DeliveryInvariant`, `DeliveryTypeCorrect` | the inductive invariant and the types |
| `DeliveryAtLeastOnce` | the cursor passes what was acknowledged or waived (`CursorCoversAcked`) |
| `CursorOnlyAdvances` | and never falls back (`CursorNeverFallsBack`) |
| `CreatedNoticeSurvives`, `DisableNoticeSurvives` | the owner is told, or will be (`CreatedIsTold`, `FirstDisableIsTold`) |
| `OnlyTheOwnerReactivates` | no drain does (`OnlyOwnerReactivates`) |
| `StrikesAreConsecutive` | a dispatcher that works alone disables for a streak only (`HardStrikesConsecutive`) |
| `NothingIsReposted` | nothing below the cursor is POSTed again while there is no mishap (`NoRepost`) |
| `LatePostsAreBounded` | one POST per dispatcher after the deletion (`OneLatePost`) |

**The invariant of the cursor.** The row's cursor is written from copies that may be old, so it is the copies that have to be
right: `CursorInv` says of every cursor, the row's and each thread's, that what is deliverable up to it was served, and of a
batch that is out that it leaves out nothing deliverable between the copy's cursor and its last seq. The second is what the page of
`Fetch` and every halving of it keep (an initial segment of an initial segment, `PayloadIsInitial`), and what makes the
first true again after a 2xx. A commit writes the greater of two covered cursors, which is covered.

**The invariant of the notices.** `notify_pending` is a value that several writers combine from what they have read. `NoticeInv` says that
who has not seen the creation's notice, a thread or the mailer, came after it was sent, so that a value written
from a copy can lose nothing; and that before the owner reactivates, a notice of a disable means a row that is
disabled, which a thread's copy is not. The mailer's compare-and-swap closes the rest: it clears what it sent.

**A dispatcher alone.** With one dispatcher, or none that overlap, a thread that is draining holds the row as it is
(`AloneInv`: streak, error and cursor of the copy are the row's), and the streak of hard 4xx answers is the history
variable's. With two, streaks of different threads are added up or forgotten: this is why the
theorem, and the run that checks it, speak of dispatchers that do not overlap.

### The crawl queue

`FetchQueueProofs`, for any `Docs` and `Jobs`, finitely many `Workers`, and any caps, from
`FetchAssumption` alone:

| theorem | says |
|---|---|
| `QueueInvariant`, `FetchTypeCorrect` | the inductive invariant and the types; no claim exceeds the cap |
| `DeadLettersAreEarned` | a job is dead-lettered for a verdict or after `MaxAttempts` claims |
| `ChargesAreEarned` | a document's attempts never exceed its own failures |

**The invariant of the queue.** `TypeOK` is not inductive: a claim's number stays in range only
because a queued job has an attempt left, and the document of a worker's job is one only because the job was
inserted and its row not given away meanwhile. `QueueInv` says so (`JobsInv`, `WorkersInv`), together with
what `DeadIsEarned` needs: no worker holds a claim that `tries` did not count, nor a failure of an unknown kind.

**The invariant of the charges.** `doc[d].attempts <= blamed[d]` is not inductive either: after a
failure and before its record the document still has room that is spoken for, and since the job
can be claimed again in between, several workers may be about to charge the same document.
`ChargesInv` counts them: attempts plus the debts `Owing(d)` never exceed `blamed[d]`, unless that has
reached the cap, and the same holds of the stale copy that the browser counts on from. Failing adds to both sides,
recording turns a debt into an attempt, a crash forgets one, and a write from a stale copy
moves the count to a value that was covered all along.

### The API keys

`ApiKeysProofs`, for any finite `Keys`, any links, threads, presented keys and billing events, and any
ceilings of at least one, from `KeysAssumption` alone: the run's properties and `ToldOnce`.

| theorem | says |
|---|---|
| `KeysInvariant`, `KeysTypeCorrect` | the inductive invariant and the types |
| `CacheIsHonest` | an answer in the cache is the row's, unless an invalidation is owed |
| `CeilingsHold` | active and usable keys stay within the ceilings, and one rotates at a time |
| `PlaintextsLeaveOnce` | a plaintext leaves at most once |
| `RevocationIsFinal` | a key its owner revoked stays revoked |
| `LoginsMintFirstKeys` | a login mints the first key or none |

**The invariant of the cache.** `CacheHonest` says nothing of the fills that are under way. `Sound`
does: what a resolution loaded is still the row's answer, or the resolution was tombstoned, or a commit that
changed the row still owes an invalidation. A commit turns the first into the third, the hook the
third into the second, and a fill that was not tombstoned is one of the first kind. Rows that do not
exist yet need no invalidation, because nobody presents them (`SpareInv`).

**The invariant of the lock.** At most one request holds the customer's row (`Mutex`), and what it decided
before its commit is still right at its commit (`Decided`), although lapses, reveals and refunds write without that
lock: they insert no row, revoke at most, and a refund comes after an event (`PaidInv`), so that no first login is
waiting. A lapse may revoke a key under the rotation that has read it; the status is then `revoked`, but not by its
owner, whose revocation sets `revoke_at` (`OverInv`): this is why `RevokeIsFinal` holds, and finding 12 as well.

**The invariant of the ceilings.** `Room` counts for a mint what is active and usable now, and for a
rotation what is active without its key and usable with it. The second count is the one that a lapse cannot
make wrong: the rotation brings the lapsed key back to overlap.

### The limits of a request

`LimitsProofs`, for any finite `Requests` and `Addresses`, any limits, quota, lengths of windows and number of
slots, from `LimitsAssumption` alone:

| theorem | says |
|---|---|
| `LimitsInvariant`, `LimitsTypeCorrect` | the inductive invariant and the types |
| `OvershootIsBounded` | no day meters more than the quota and the slots but one |
| `NeighboursAreLeftTheirs` | an address spends of a window of its subnet less than twice its own limit |

**The invariant of a day.** `OvershootBounded` is about what has been counted; what makes it inductive is what is
still to be: of the requests that read a usage within the quota today, those not yet counted (`Owing`) and the count so far
stay within quota and slots but one (`TodayInv`), because each of them holds a slot (`SlotsInv`: the counter is the
number of requests inside). A request that read the usage of a day that has ended is counted on the day of its count, and is one of
the requests inside then; past days are within their ceiling and future ones empty (`DaysInv`).

**The invariant of the windows.** An address is counted in the subnet's window only when its own window let it pass
(`SpentInv`). When its own window began before the subnet's, the first of its hits there was counted in an earlier window of the
subnet, so that it has spent less than its limit in this one. When it began later, an earlier window of its own may have spent
that much before it: together less than twice the limit.

### The subscriptions

`LimitsProofs` too, for any finite `Subs` and `Calls` (API requests), any keys, hosts, creators, ceilings, pages and bounds, from `SubscriptionsAssumption` alone (`NoOne`, which stands for the lock being free, is no request):

| theorem | says |
|---|---|
| `SubscriptionsInvariant`, `SubscriptionsTypeCorrect` | the inductive invariant of the seats and the types |
| `SeatsAreKept` | the ceilings on verified and unverified rows hold, the rows that a reactivation misread left out |
| `TurnsInvariant`, `TurnsAreTaken` | its own invariant; while a row is due, no other is challenged twice |

**The invariant of the seats.** A create and a reactivation count in one step and write in another. Both steps are taken
under the lock (`LockInv`), and until the second what the first has counted still is so (`CountsInv`): whoever else takes a seat
needs the lock, and every step that does not need it, a challenge, a strike, a deletion, an expiry, only frees seats. A
promotion counts and writes in one step, under the lock. What `CountsInv` speaks of is the row as the
reactivation read it, before it had the lock. It stands because an id is given out once and a verified row stays verified
(`IdsInv`): a row read as verified is verified still, and takes the seat that was counted. The converse does not hold, and these are the rows of
`misread` (finding 20).

**The invariant of the turns.** To be challenged again, another row has to come into a page again, and pages are filled in the
order of the last challenges. So: whatever overtook a waiting row has a later stamp, and if it is on the page again then behind
that row (`TurnsInv`); no row is on a page twice. `BeginChallenges` reduces the stamps to their ranks, which keeps their order
(`RanksKeepOrder`), and what it takes is a prefix of the rows in that order (`PrefixOf`), so that a row is on the page whenever one that is
later is. A restart forgets the page and none of the stamps.

### The sync worker

`SyncWorkerProofs`, for any `Workers`, `Operators` and `Jobs`, any finite `Bills`, and any pages, budgets, retries and cadence, from
`SyncAssumption` alone:

| theorem | says |
|---|---|
| `SyncInvariant` | the inductive invariant of the jobs |
| `BudgetChargesNothing` | no job is charged or buried for the day's budget (`DeferralsAreFree`) |
| `PassesDoNotDouble` | no job is enqueued within a cadence of a live one (`NoDuplicateSync`) |
| `StaleStatusesWait` | a stale status waits in a worker, or was lost in one of three known ways (`StaleStatusIsPending`) |
| `BillsInvariant`, `SyncTypeCorrect` | the inductive invariant of the pages, and the types |
| `PagesMissNothing` | no change before the watermark is passed by, but in two known ways (`NothingMissed`) |
| `ReplaysCover` | a replay that ends has covered its window (`ReplayCovers`) |

**The invariant of the jobs.** A failure is recorded, and a deferral written, in a transaction of its own, after the one that
held the claim was rolled back; the row may have been claimed, completed or buried meanwhile. `ClaimsInv` says what a run knows of its job all the
same: its claim counted at most one attempt more than the job had failures, and a run that failed has its failure
counted. So a late deferral gives back an attempt that no failure stands for, and a late record charges one that does.

**The invariant of the passes.** Between its read and its insert a pass holds the advisory lock, so there is one such pass
(`PlannedInv`), and what it read can change only in its favour: jobs are completed and buried, and no one else inserts.
There is one exception, which is why `NoDuplicateSync` speaks of jobs with a failure left: a pass does not see a dead
job, and a record of an earlier failure that arrives late puts that job back into the queue behind the pass's back.

**The invariant of statuses.** A stale bill is in the set of a worker; while that worker is deriving, it is also among the bills the
derivation will write (`StatusInv`), so that emptying the set when the derivation commits loses none.

**The invariant of the pages.** Upstream lists the newest change first, and a run reads page after page while bills change. What saves it is that a
bill's place in the listing only ever grows until the bill itself changes (`RanksGrow`): another that changes goes to the front, and
moves it down. So a bill that has not changed since the run started, and is in its window, is known to the run, on the page in hand or on one
still ahead (`PagesInv`); one past the last page read means that upstream has more (`BeyondIsMore`), and a run that stops there says so and is truncated.
When a complete run makes its `started_at` the watermark, it therefore knows every bill that changed before. Knowing is not storing: a row is written
only if it differs from what the session loaded, which another run may have overwritten since. Hence the second part of `PagesInv`: what was loaded and is still
true upstream is stored, or is excused because a late run wrote it back. A page could also undo what the run knows, were what it says of a bill out of date;
of a bill that has not changed since the run started it cannot be (`PastRun`).

**The invariant of a replay.** The same argument over several transactions: a chunk resumes at the page the last one named, and what is owed and not yet got is
on that page or after it (`ReplayOwes`), because between the chunks, too, bills move only down. The chunk in progress has read it, has it in hand or is yet to come to it (`ReplayRun`),
and only a chunk that has reached upstream's last page ends the replay (`ReplayEnds`).

### The statuses

`SyncWorkerProofs` too, from `StatusAssumption`: any finite `Measures`, any identifiers of which no two bills share one, any
actions, and any sizes of chunks and sweeps.

| theorem | says |
|---|---|
| `StatusInvariant`, `StatusTypeCorrect` | the inductive invariant (`SettledInv`), and the types |
| `SurvivorsAreChunkBlind` | the survivor of a bill is the same in every chunk of known bills (`ChunkBlind`) |
| `PassesSettle` | after two whole passes every status agrees with its survivor's, chains left out (`TwoPassesSettle`) |
| `RowsAreOfTheText` | after one pass a bill's stored relations are the one of its text (`RowsFollowText`) |
| `OutcomesAreFinal` | no action that is recorded takes back an outcome other than a death (`OutcomesStand`) |

**The survivor.** `RankByRank` looks a name up in the chunk before it asks the database, one candidate after the other. That the chunk does not
matter rests on one fact: an identifier names one bill (`StatusAssumption`), so that candidate by candidate the chunk can only give the bill that the
database would. And recomputing changes no survivor: the rows it writes name the survivor it found,
so whoever looks again finds it (`StoredSurvivor`), although it was looked up in the text the first time.

**The second pass of a chunk.** A status is read from those that were given before, in the order of `Turn`. That there is exactly one
such assignment is proved from the bill of least turn for which there would be none; the induction theorems of the library cannot be
instantiated here. Winners, last rows and least turns exist because a finite set has a greatest member of any total preorder (`LastIsThere`):
the member with the fewest above it.

**The invariant of the passes.** `Passed(b, n)` says that the resume point is past `b` for the `n`-th time since anything else changed. After
one pass, a bill's relations are its text's (`Follows`) and a bill without a survivor has its own status (`Based`); after two, a bill
whose survivor has none of its own has what the survivor's status says (`Inherits`). One pass is not enough, for the survivor may be in a
later chunk, and still have the status of before. Between the chunks of a pass the sync worker derives and sweeps; whatever it changes
starts the count over, and what it leaves alone keeps the three.

**Outcomes.** Only a death can be made stale by what is recorded later (`StaleDeath`). An action that is any other outcome therefore still
stands when more are recorded, the outcomes that stand are not empty, and the winner is taken from them, whatever its date.

### Billing

`BillingProofs`, for any finite `Subs`, any `Handlers` and any bounds (`BillingAssumption`; the first two rows need no assumption):

| theorem | says |
|---|---|
| `BillInvariant` | the inductive invariant of the first direction |
| `NobodyPaysForNothing` | a subscription that is ended here is ended at Stripe (`EndedHereIsEndedThere`) |
| `BillingInvariant`, `BillingTypeCorrect` | the inductive invariant of all three properties, and the types |
| `EndsArrive` | what has ended at Stripe ends here, and the entitlement with the last (`EndedThereIsEndedHere`) |
| `OneIsBilled` | when all is handled, one subscription is billed (`BilledOnce`) |

**The invariant of the first direction.** The property speaks of committed rows, and a delivery decides long before it commits. `Backed` says
of a set of rows and a set of cancels that every ended row is ended at Stripe or among the cancels. It holds of the committed rows with
no cancels, and of what each delivery is about to write with the cancels it still has to make. A cancel made moves a subscription
from one side to the other; a refused one takes the delivery's rows back; a commit needs the set to be empty. Nothing at Stripe
revives a subscription that ended, so what a delivery read early stays true, and an event reporting an end, however late
or often it is delivered, comes after that end (`DueInv`).

**Ends arrive.** The other two properties speak of a moment when nothing is due, so their invariants say what is due until
then. `EndInv`: of a subscription that has ended at Stripe the report of the end is due, and is no older than its row, or the row has ended
and nothing due is newer (`Over`). A report of an end is the last of its subscription (`TimeInv`), so its delivery is never stale; a row
that is over can be revived only by a later event (`Own`), of which there is none, or by a delivery that read it before (`overtaken`).

**The entitlement.** Ending it is one bit for all subscriptions, so somebody must carry it (`CarryInv`): a subscription that lives, or
one whose end is due and will end the entitlement. What complicates this is a delivery of an end that keeps the entitlement, which the
code does for a newcomer it refuses; it happens only beside a row that blocks, and such a row carries (`BlockingCarries`). A swap may push a row's
second past the report of its end, but a swap leaves a row that blocks (`Replaces`).

**One is billed.** At most one row blocks, in the table and in what a flush has left (`UniqueInv`, from the unique index). What is left is
that a billed subscription shows: its row blocks, or its last report is due and no delivery has read a newer row (`BilledInv`, `Unread`).
Deliveries that read too early do not matter here: whoever loses the race loses it at the index. `BilledOnce` first excluded them as
`EndedThereIsEndedHere` must; the proof showed that it need not, and the run now checks it without.

### The bulk load

`CoverageProofs`, for any bills, votes, exports, API payloads, jurisdictions, validators and loaders, any of which may be loading
at once, from `BulkAssumption` (the shape of an
export: its rows are of known tables, a link has its version in the same zip, a vote record its vote) and `CoverageAssumption`:

| theorem | says |
|---|---|
| `LoadsAreWhole` | a load that returned success has stored all of its zip (`LoadedWhole`) |
| `VotesAreAnnouncedOnce` | a vote has an announcement for each of its rows, and one of either unless two loads raced for it (`VotesAnnouncedOnce`) |

**The invariant of a load.** Success is recorded at the end and says nothing of the way there. `ProgressInv` follows the load: rows of
sections past are stored, and a row of the section in progress is stored or still awaited in its file (`RowsInv`; a link awaits its version and
a record its vote, because a chunk stores them with it). What makes chunks find their parents is `TouchedInv`: the
map the load carries along names stored bills only, grows in the first sections and is the whole zip from the third on. It is why
a load skips no child of a bill whose checksum did not change. Chunks that an earlier load left, rows that the API
stored in between and other loads beside it only help, for nothing is deleted: the invariant holds of each load by itself, and
what anybody else writes keeps it (`BesideIt`).

**The invariant of a vote.** Rows and events are counted, and go up together unless a load breaks (`ToldInv`). That there is one row is
`RaceInv`. A load inserts a vote that it goes through and did not find when it came to the votes; such a vote is not stored.
That this survives another load's insert takes a third conjunct: of two loads in the votes, one has found the vote. The
later of them found it if it was stored by then; if it was not, the vote is among `raced`, and nothing is said of it. So
loads may overlap anywhere else, and an interrupted one may be repeated beside an operator's, without a second announcement.

## 5. What is only model-checked

- Badges, recomputes and validation in `Coverage`, and the full type invariant of that module.
- Liveness: `HookServesAll`, `EventuallyDelivered`, `JobsEnd`, `DocumentsSettle`, `SpentRests`, `CalendarReaches`,
  `StaleGreenRejudged`. Liveness under fairness and ENABLED are beyond the prover.
- The sentences that do not hold (section 3): a trace each.

Conversely `SkewBounded`, `WatermarkSettled`, `WatermarkStable`, `LagNearFloor`, `DeadIsEarned`, `ToldOnce`, `NoRepost`, `OneLatePost` and the types of nine modules are proved,
and no run repeats them.

## 6. What is not modelled

- Around the keys: `_mint_paid_key_once` may revoke an automatic key to make room, a branch no caller
  reaches, since each has checked under the lock that no key is usable; whether a paid key was minted for a
  subscription before is left open (any subscription event may or may not mint); suspension, quota overrides and the
  subscription's status beside the plan in the cached value; eviction of tombstones, whose lifetime is far
  longer than a read; the creation of customers and sessions; two
  subscriptions of one customer (`plan` is what they come to).
- Around deliveries and the crawl: a database without the migration that
  allows the value `created_disabled` (`supports_created_disabled` is taken as true); reactivate
  as two statements (it is one step, its guard and its write in one transaction of milliseconds);
  purges of jobs and documents and rows that vanish; the suffixes of `license_note` other than the ones
  that change what is written; the browser's pacing and its deferral of transient errors; the
  difference between backoff lengths (a row is backed off or it is not); event kinds and filters; a
  Massachusetts docket still in its grace period, which is one more uncharged failure.
- Around the sync: versions, documents and sponsors, which only accumulate (their duplicates are a finding); two jurisdictions, which
  share the day's budget and nothing else; the session-date top-up's round-robin; HTTP retries and their waits.
- Around billing: the creation of a Checkout session and the portal, one-off snapshot purchases, the seven days of dunning, mails to the operator,
  `trialing` and `unpaid`, which the code treats as `active` and `past_due`.
- Around the limits: the caps on how many windows are kept, the customer's burst window (it may refuse at any
  time), response headers. The limiter lets every path that ends in `/health` or `/ready` pass without a slot (`concurrency.py`,
  line 113), while `quota.py` (`_is_exempt`) exempts exact paths and prefixes: a keyed request to another path of such
  an ending, which today is answered 404 and counted, is metered without a slot. `OvershootBounded` does not speak of those.
- Around statuses: the wording that `status_for_action` recognises is abstracted to what it recognises.
- Around bulk loads and coverage: the parsing of files, California's full-text archive, jurisdictions with several coverage rows, the validation of
  one bill (an outcome), validation jobs in the ingest queue, the number of validations in flight; child rows other than votes
  that two overlapping loads store twice (only bills, subjects and organizations have a unique key; finding 29 is about the same).
- Components listed as `not_modelled` in `PROJECT.json`: pure functions,
  rendering or I/O with no state to go wrong.

## 7. Findings

Each is listed in `PROJECT.json`, in this order, with its source line and the sentence it contradicts.

1. The lag is documented as sound for any transaction shorter than it; it takes twice that (`WatermarkSettled`).
2. `/changes` may hand out a cursor that has passed a change not yet served (`FeedMissesNothing`).
3. A disable may leave no notice when the mailer clears the previous one meanwhile (`DisableLeavesNotice`).
4. `record_job_failure` may reopen or bury a finished job (`DoneIsFinal`).
5. An API sync run is one transaction over minutes of HTTP, with no bound below the lag.
6. Some permanent outcomes are retried to the cap rather than dead-lettered.
7. The comment on the document lock's length and on `running` jobs does not match the transactions;
   a record and a re-claim can deadlock, which the model tolerates (`Deadlock`).
8. `lag_seconds` may be below the documented floor by up to a transaction's length (`LagIsNearFloor`).
9. A 429 does reset the hard-4xx streak.
10. A partial text with a decorated note is served as complete.
11. `create_key` derives the plan before it takes the customer's lock: a key minted beside a Stripe event keeps the
    plan from before it, against what `_recompute_plan_onto_keys` says of usable keys (`KeysCarryThePlan`).
12. `expire_stale_reveal` revokes on a read that may be stale and without the customer's lock, so that a rotation that
    read the key before it puts the key back into overlap.
13. Of two overlapping runs of a jurisdiction the later commit may write an older payload over a newer one, and the
    watermark has passed both (`excused` in `NothingMissed`).
14. The bills whose status must be re-derived are forgotten with the process (`dropped` in `StaleStatusIsPending`).
15. A deferred job does not stop the scheduler from adding another one for each cadence.
16. On a tie of seconds only terminal statuses are protected (`reverted` in `Billing`).
17. An invoice handler reads before it locks and may revive a subscription that ended meanwhile (`overtaken`).
18. A late event of a dead newcomer may cancel the incumbent, and a genuine newcomer be refused, when Stripe is not asked.
19. Another subscription's end expires the entitlement of the one that lives on (`ScaleIsEntitled`).
20. `reactivate` decides by a row it read before the lock and may take a seat nobody counted (`VerifiedQuotaHolds`).
21. The daily creation quota counts successes, where its documentation counts attempts.
22. A load that breaks on an unreadable row commits announcements of votes without the votes (`stray`).
23. Children of unchanged bills are not left untouched, and must not be (`LoadedWhole`); corrected counts are ignored.
24. Autoboot does not retry a load that failed after its first chunk.
25. A recompute may write a searchable status over a verdict committed since it read the row.
26. Two validate workers may validate the same jurisdiction.
27. A total outage still yields a pass rate, and a failure reaches a GREEN row only when its text fell behind.
28. Chains of substitution do not converge, and survivors that change later are not propagated.
29. Bulk and API can store one child twice, and an old export overwrites newer API data.
30. A request that the heavy tier refuses has been counted in the daily windows.
31. Two loads that are in the votes of a session at once store and announce a vote twice (`ReRunsAreSilent`, `raced`).
32. The adjournment sweep is not self-limiting: substituted prints stay in its set, and a batch of them may keep the others
    out (`SweepRunsDry`, `SweepGetsToAll`).

## 8. Plan

What the modules above leave, in the order in which it seems worth doing:

1. An abstract specification of billing (a customer has the plan of its one live subscription), and the
   composition of `Billing` with `ApiKeys` at `SubscriptionEvent` and `RefundRead`.
2. The alert digest: windows of subscribers, confirm and unsubscribe, and its own copy of the lag.
3. Coverage of jurisdictions with several rows, and validation jobs of the ingest queue.

## 9. Running

In this directory, with TLC 2 and TLAPS 1.4.5 and the community modules on the library path:

```
for m in LogReaders WebhookDelivery FetchQueue; do tlc -workers 2 -config $m.cfg $m.tla; done
for m in ApiKeys Billing RequestLimits BillStatus Subscriptions Coverage SyncWorker; do
    tlc -workers 2 -config $m.cfg MC$m.tla
done
tlc -workers 2 -config WebhookOverlap.cfg MCWebhookDelivery.tla
tlc -workers 2 -config SyncReplay.cfg MCSyncWorker.tla
for m in LogReaders Delivery FetchQueue ApiKeys Limits SyncWorker Billing Coverage; do
    tlapm ${m}Proofs.tla
done
```

The longest runs take two to four minutes on two workers.

Deadlock is checked where the system cannot stop (`BillStatus`). Elsewhere every bounded behaviour ends: the log is full,
the subscription deleted, the document has its text, every key is revoked, the clock has reached its bound.
