# MarketHelm: a TLA+ model of its shared state

MarketHelm watches stock prices for its users. A daily run fetches quotes,
analyses them, projects prices and stores the result. In hosted mode (a
database is configured) an orchestrator turns every watched symbol into an
`evaluate_symbol` job, workers match the watches of the symbol against the
price and enqueue a `deliver` job for each match, and workers deliver those as
an e-mail or a webhook call. Without a database a local worker checks the rules
of a file. A FastAPI backend serves accounts, settings, a refresh button and
the data to a React dashboard.

The correctness of the program is decided where threads, processes and
requests share state: the `alert_jobs` queue and the `alert_trigger_state`
markers, the configurations and their index, accounts and their tokens,
counters, files, and the handful of variables between the refresh thread and
the event loop. These are modelled operation by operation. Where a component is
a pure calculation whose result matters (which rules match, which close a
projection is scored with), it is modelled as operators.

## 1. Inventory

| Component | State | Operations | Hard behaviour | What makes it correct | Module |
|---|---|---|---|---|---|
| Job queue `src/storage/alert_jobs.py` | `alert_jobs` | enqueue, claim (stale recovery, corrupt rows), complete, fail | competing workers, threads of one process that lock under one id, leases that expire under a live owner, crashes | one loop per attempt, a late report spares other processes, settled rows final, every job settles | `AlertJobs`, `JobLifecycle` |
| Job processor `src/alerts/job_processor.py` | a job's local variables, batch in memory | evaluate, deliver, report, next batch | seven transactions and a network call per delivery, any interleaving | an event is notified once, retries stay eligible, notifications a cooldown apart | `JobProcessor` |
| Watches and triggers `src/storage/alert_watches.py` | `alert_watches`, `alert_trigger_state` | index, claim / record / restore trigger | optimistic roll-back by timestamp, upserts that ignore order | the marker covers what was sent | `JobProcessor`, `AlertConfigStore` |
| Orchestrator `src/alerts/alert_orchestrator.py` | none | tick | overlapping ticks | a symbol per tick is enqueued once | `JobProcessor` |
| Worker and its cycles `src/alerts/alert_worker.py`, `src/storage/health.py` | heartbeats, stop flag | loop, cycle, heartbeat, readiness | one id for all threads of a process, failures before the heartbeat | "healthy" means a cycle succeeded lately | `WorkerHealth`, `RecoveryProbe` |
| Alert engine, notifiers, retry `src/alerts/alert_engine.py`, `src/alerts/notifiers/` | per check | evaluate, send over channels with retries | several channels, partial success, ambiguous errors | a marker means a delivery; hosted users and the operator are kept apart | `AlertDelivery` |
| Rules, indicators, closes `src/alerts/alert_rules.py`, `indicators.py`, `price_history.py` | none | conditions, RSI, sources of closes | missing numbers, short histories, two ways to evaluate | both ways agree, the RSI follows the prices | `AlertRules` |
| File-mode storage `src/alerts/alert_storage.py`, `alert_config_paths.py` | history, settings, `.env` | read, change, replace | threads, two processes, crashes | no lost update, no torn read | `LocalFiles`, `FileUpdates` |
| Stored configurations `src/storage/user_alerts.py`, `api/alerts.py` | `user_alert_configs` | save with secrets merged, first initialisation, backfill | saves beside backfills of every process start | watches are an index of the configuration, a blank keeps the secret | `AlertConfigStore`, `ConfigIndex` |
| Database layer `src/storage/database.py` | schema version, writer mutex | migrate, backfill | processes of two releases start at once and die anywhere | each version whole and once | `Migrations`, `AlertConfigStore` |
| Accounts `users.py`, `account_tokens.py`, `session.py`, `api/auth.py` | users, tokens, session versions, background mails | register, login, verify, reset, change, log out, delete | requests in several statements, background tasks | a link works once, old sessions end, no orphan token | `Accounts` |
| Rate limits `rate_limits.py`, `backend/rate_limit.py` | counters per window | consume | clock read before counting, purge | no window lets more than its limit through | `RateLimits` |
| Refresh controller `backend/api/refresh.py` | status, cancel event, child process | start, run, cancel | a thread beside the event loop, a child, timeouts | one run, a cancel is honoured, a true status, an end | `RefreshController` |
| Finnhub client `src/services/api_client.py` | tokens, call times | wait, request, retry | threads, a lock kept in a sleep, 429 | the budget of a window holds | `FinnhubLimiter` |
| Data collection `data_fetcher.py`, `index_fetcher.py`, `stock_screener.py`, `workflows/tracker.py` | cached lists, a run's rows | list, screen, fetch, combine, add watched | failures and limits at each stage | watched symbols are fetched | `Collection` |
| Market data stores `market_bars.py`, `projections_store.py`, `data_storage.py`, `legacy_market_data.py` | bars, projections, summaries | saves of a run, import, latest quote | overlapping runs, midnight, import beside runs | an import keeps snapshots, the latest quote is the newest | `MarketStore` |
| Scoring `backtesting.py`, `market_calendar.py` | none of its own | sessions, close map, samples | runs before and after a close, stale quotes | verified samples are fair | `Backtest` |
| Price hook `useSymbolPrices.ts` | React state, refs, a chain of promises | ask, retry, batches | early returns, renders that come late | loading ends | `SymbolPrices` |
| Delivery status, core and utilities, read routes, most of the frontend, scripts | none two actors share | | | | section 8 |

`PROJECT.json` lists every component with its sources and whether it is
modelled, every hazard with its line and the properties that would catch it
going wrong, and for each definition the lines it stands for.

How the components meet: a save or a backfill writes watches, which the
orchestrator and the processor read; the processor is layered on the queue
(`JobProcessor` EXTENDS `AlertJobs`) and shares the marker with the checks
`AlertDelivery` models for file mode; a refresh that succeeds runs a check
cycle (`CheckAlerts`), which is a cycle of `WorkerHealth`; a tracker run
collects through the limiter (`Collection`, `FinnhubLimiter`) and saves
(`MarketStore`), and what it saves is scored later (`Backtest`). The other
components share only the database connection, whose transactions are the
atomic steps of every model.

## 2. Order of work

1. The queue, the processor and their proofs. Done.
2. The refresh controller and its proofs. Done.
3. Configurations, migrations, accounts, counters, with proofs. Done.
4. Delivery, rules, files, health, the limiter, collection, market data,
   scoring, the price hook. Done, with proofs.
5. What is left: `run_user_check` as a third kind of actor in `JobProcessor`;
   the restart of the API process in `RefreshController`; the session context
   of the dashboard.

## 3. Modules

Operators named `Slip...` are not part of a model: each is a definition with a
plausible mistake in it. `PROJECT.json` lists for each checked property the
definition that, replaced by its slip, breaks the property.

Theorems are in modules of their own: `AlertJobsProofs` and `JobProcessorProofs`
for the components they are named after, `StorageProofs` for configurations and
migrations, `DashboardProofs` for accounts, rate limits, the price hook and the
refresh controller, `MarketDataProofs` for the limiter, collection, market data
and scoring, `AlertsProofs` for rules, delivery, local files and health.
`SideBySideProofs` is about the components put next to each other, and
`DataLemmas` has the facts about numbers, loops and finite sets they share.
`MC...` modules hold the values of constants for the `.cfg` files. Two of them
also put components next to each other:

- `MCSideBySide` holds thirteen components that share no state, the queue among
  them. A behaviour
  chooses one in its initial state and moves only that one, the others rest in
  one initial state. The run so explores every component on all of its own
  states, as thirteen runs would, and never their product. The conjunct
  `component # "store" => ...` of `SideInit` only fixes where the others rest.
- `MCLive` does the same with the three components whose progress is checked,
  and is fair only to the one that moves.

### 3.1 The queue

A row of `alert_jobs` is spread over `status`, `jobType`, `attempts`,
`lockedBy`, `lockAge` and `wait`, indexed by id. The code compares time stamps
with now in two places only, so the model keeps the comparisons: `lockAge` is
the age of `locked_at`, counted up to `StaleAfter`, and `wait` is what is left
until `run_after`. `held` is the list `claim_jobs` returned to a worker, as
pairs of job and attempt (the `attempts` value inside the returned row), `turn`
the position in the loop of `process_job_queue`, `alive` the loops that run.

A member of `Worker` is one sequential loop: that of the worker process, or one
thread of the API process that runs a check (at start-up, after a refresh, in a
request). What it writes to `locked_by` is the id of its process, `LockIdOf`:
`_PROCESS_WORKER_ID` is drawn once per process, so the threads of the API
process are `Siblings` that lock under one id, and the guards of `complete_job`
and `fail_job` cannot tell them apart. A run of `process_job_queue` that ends,
with its process or by an exception its thread catches, is a member of `Worker`
that does not come back.

- `EnqueueJobs` is `enqueue_job` and `enqueue_jobs`. Ids grow.
- `ClaimJobs` is the one `BEGIN IMMEDIATE` transaction of `claim_jobs`: both
  recovery statements, selection in id order up to the limit, the increment of
  `attempts`, and rows whose payload does not parse, which are failed on the
  spot.
- `CompleteJob` and `FailJob` carry the `WHERE status = 'processing' AND
  locked_by = ?` guard; when it does not match nothing changes and the worker
  forgets the job. The guard names no attempt: a late report passes it when a
  sibling has claimed the job again.
- `fail_job` is a `SELECT` of `attempts` and an `UPDATE`, which ask for the
  lease both. Between them a sibling may claim the job again, so the decision
  may rest on the attempts of an earlier claim (`FailJobSeeing`), and a row that
  has used up `max_attempts` is requeued. Each claim of an earlier attempt can
  do that once, hence `TryLimit`. `JobProcessor` has the two statements as two
  steps (`ReadAttempts`, `Finish`).
- `Report` lets the outcome of a job be anything; `JobProcessor` decides it.
- `Crash` loses what the worker held; its rows stay leased until they are
  stale, in a process that may go on under its id. A restarted process has a
  new id (`uuid4`).

### 3.2 The processor

`pc[w]` is where worker `w` is in the job at the head of its batch, `mem[w]`
the local variables. The steps of a delivery are the transactions of
`_process_deliver` in order: first look at the marker (`idle`), second read
(`reread`), `get_watch` (`watch`), cooldown (`cooldown`), `try_claim_trigger`
(`claim`), the notification (`send`), then `record_event` (`record`) or
`restore_trigger_claim` (`restore`), and the report (`complete` or `fail`).
An evaluation lists the enabled watches, then takes them one at a time: each
is skipped (cooldown, or the rule does not match) or stamped and enqueued.

- `marker` is `last_triggered_at`, `event` the event inside a deliver job's
  payload, `inbox` what users received, with the job, the attempt and the time.
- `Send` either reaches the user or does not; then nothing was received. A
  webhook that was received and timed out is a send that reached the user
  twice whatever the queue does, and is left out.
- `Raise` fails the job at any database call when `DbErrors` holds. In the
  `record` step the error is swallowed, as in `deliver_event`.
- `SaveWatch` replaces or deletes a watch at any time and leaves the marker,
  as `_replace_watches` does. The code replaces all rows of a user in one
  transaction; changing them one at a time allows every such outcome and more.
- `Orchestrate` may happen at any time: several processes run ticks, and a
  tick reads the enabled symbols before it enqueues.
- `overtaken` is a history variable. It collects the jobs whose event the
  marker moved back past when an older event was recorded late. The code has
  no such variable; the properties need it to say exactly when the protocol
  loses its guarantee.

Abstractions: the watches of the model share one symbol; an event is stamped
and enqueued in one unit of time; markers and event stamps always parse; `MaxTime`
bounds the clock. `process_job_queue` stops when both batches are empty and
the worker loop starts it again, which is the same as claiming again; its
limit of 100 batches per call only hands over to the next call.

### 3.3 The refresh controller

`tracker[r]` is where the thread of run `r` is in `run_daily_tracker`, `handler`
where the event loop is in `cancel_refresh`, `child[r]` the child process with
the signals sent to it. The other variables are the module globals of
`refresh.py`; `process` is `_refresh_process` as the run whose child it names,
`lastRefresh` the run whose end the time stamp records.

- The handlers are coroutines without an `await`: the event loop runs one to
  its end, and blocks in the `wait` of a cancel. `TriggerRefresh` is therefore
  one action, start lock included; `Cancel...` are steps between which only the
  tracker and the child move.
- The tracker's two looks at the cancel event (line 188 and 216) and its look
  at the status (221) are separate steps. `PollTimeout` may come at any poll,
  since a poll can take arbitrarily long, and must come after `MaxPolls`.
- `CancelFindsNoProcess` is a read of `_refresh_process` after the tracker's
  `finally` has set it to `None`. The first read then answers normally; at the
  others the request fails with an exception. Neither changes state.
- A child exits when it likes, with or without a signal, or never. One whose
  signal is on its way may still exit with 0.
- `cancel[r]` is a history variable: whether a cancel set the event before the
  run cleared it (`early`), while the run could still see it (`timely`), or
  later.

`progress` repeats `last_status` in words and is left out. `CheckAlerts` is the
call of `run_check_once`, that is one round of the processor of section 3.2.

### 3.4 Stored configurations

`stored` is `user_alert_configs`, `watches` the derived `alert_watches`. Every
change is a transaction that begins with `BEGIN IMMEDIATE`, which is two steps,
`Begin` with the reads and the write with the commit; `writer` is who holds the
writer mutex between them.

- `PutConfig` / `CommitSave` / `RejectSave` are a save: the limit is measured on
  the raw payload, secrets of the stored row are merged in (`MergeSecrets`), the
  result is polished (placeholder addresses dropped, duplicates of one price
  condition removed), validated, and written with its watches.
- `CheckInit` and `InitConfig` are the two transactions of
  `init_user_alerts_config`.
- `BeginBackfill` / `EndBackfill` are `_backfill_watches_from_configs`; a
  configuration that cannot be read keeps the rows it has.
- `Restart` rolls an open transaction back and makes the process initialise
  again. `ready` are the processes that are behind their `init_database`.

A rule is reduced to what these functions tell apart. `ConfigIndex` is the
abstract promise: a save replaces configuration and index at once, a refresh of
the index copies what is stored now, nothing else writes.

### 3.5 Migrations

`phase[p]` is where a starting process is in `init_database`, `draft[p]` its
uncommitted view, `tables[v]` how often the statements of version `v` are
committed, `versions` the rows of `schema_migrations`. Statements that can be
repeated (`IF NOT EXISTS`) are `Repeatable`; a repeated other one fails and is
a `clash`. `NoneNewer` is the refusal of a database of a later release.
Version 1 may find its tables without its row, as databases from before the
migrations do.

### 3.6 Accounts

One action per statement with what the handler computes before the next:
the driver opens a transaction at the first write, so a read before it is on its
own. `request[h]` holds what a handler has read, `mailing` the background tasks
of `_send_token`. A session is the pair `create_access_token` signs, the account
and its version; `Admits` is `require_user_id`. Tokens are rows that are deleted
with their account. `resets` is a history variable that counts the passwords a
link has set. Expiry is left out: an expired token or session behaves like an
absent one.

### 3.7 Rate limits

`Arrive` reads the clock, `CountRule` is one transaction of
`consume_rate_limit`: purge, then insert or add one. The rules of a request are
counted one after the other, the later ones also after a refusal. `let` counts
what a rule let through in a window before a purge passed it; `purgedAt` is the
latest time a purge was made for. Clients do not share counters.

### 3.8 The Finnhub limiter

`step[f]` is where a thread is in `wait_if_needed` and `_make_request`. The lock
is kept while a thread sleeps for the budget or a token, as in the code; a 429
refills the bucket from outside the lock (`Retry`), and a retry does not ask the
limiter again. `recorded` is the history of the times the limiter recorded,
which is what its budget is about; a retried request is a call it never sees.
A sleep ends when its time has come or later, never earlier.

### 3.9 Health

Three threads run cycles: the loop of the worker process, and the start-up check
and the check after a refresh in the API process, which share one worker id. A
cycle is the start (`InitFails` raises outside the `try`), the work, and the
heartbeat, an `UPDATE` and, where it finds no row, an `INSERT`. The loop ends
with the process on an exception. `RecoveryProbe` adds the operator's rehearsal
of `scripts/check_worker_health.py`, which notes a worker id, restarts the worker
and waits for another id.

### 3.10 Delivery of an alert

`Notifiers` derives from a rule, the defaults of its configuration and the
environment which channels an alert gets, with whose addresses, sender and
transport. `Attempt` is one attempt of `deliver_with_retry`: accepted, refused
for good, or failed in a way that is worth another, which may hide that the
receiver accepted it (the marker is then not written and the alert is sent
again later: an alert at least once). `FinishDelivery` writes the marker, or
does not. The test send takes the same path and records nothing.

### 3.11 Rules

Conditions, the RSI as an exact fraction, the choice between the provider's
candles and the stored bars, and the merge of the latest quote are operators.
Closes are put in order by how many are before each (`InOrder`), candles by
their time and stored bars by their dates, of which the newest come first.
Candles without one timestamp for each close keep the order they are listed in
(`timed`, `Stamp`), as in `closes_from_candle_payload`.
The state is a snapshot of quotes that changes, and the outcome of the two ways
to evaluate one rule: over all stocks at once (`FileFires`), and in a hosted job
of the one symbol a rule is indexed under (`HostedFires`).

### 3.12 Local files

Names refer to inodes; an update loads, opens the temporary file (which
truncates what the name refers to), writes, and renames. Threads of a process
take turns, processes do not. `FileUpdates` is the promise: every change a
reader sees is one update applied to the content before it. `SideBySide` checks
it for the threads of one process, which is what the locks are for, with crashes
at every step; with two processes it fails, see the findings. The CLI's `init`,
which an operator runs once and which copies the bundled example over the
settings file in place, is left out.

### 3.13 Collection, market data, scoring

- `Collection` goes through the indices of a run: the list from the cache, the
  package or the fallback, the cap, the share of `top_n` or the screener, the
  pool of fetches, the combination with the limit to the most active rows, and
  the watched symbols on top. Prices are abstracted to usable or not.
- `MarketStore` has the three saves of a run, which ask for the date anew each,
  overlapping runs, and the import of old files, which looks at what exists
  table by table before it writes date by date. A summary with projections in it
  is two transactions, `ImportEmbedded` and `ImportSummary`. `LatestQuote` is the
  ranking of `latest_saved_quotes`. `found` in an import is history: the dates
  that existed when it looked.
- `Backtest` has two instants a day, before and after the close, and reduces a
  price to the session whose official close it is. Rows are written under the
  date of the run; a projection is saved under the date it is by then. A row
  says of itself that its quote qualifies (`outcome_final` 1), that it does not
  (0), or nothing (NULL, a row of an old file): 0 is dropped in either mode of
  the scoring, NULL in the verified one only (`HasProvenance`, `Counted`).
  `TargetSession`, `CloseMap` and `Samples` are `evaluate_projections`. The one
  assumption about the provider is `PreviousCloses`: the previous close of a
  quote of today or of the session before is the close of that session, that of
  an older quote is some earlier close. It is what the docstring of
  `previous_close_session_at` relies on.

### 3.14 The price hook

`given` is what was handed to `setState`, `shown` what the last render saw; refs
are set in a render, so a slow render leaves them behind. `chain` is the chain
of promises, `call` the call that runs. A step is the code between two awaits.
A 405 answer makes quotes unavailable for good, as in the code. Because the refs
lag, a symbol whose price just came may be asked for again; this costs a request
and is not claimed otherwise.

## 4. What the runs check

| Run | Instance | Checks |
|---|---|---|
| `Live` | queue: 2 threads of a process, 2 jobs, row 1 corrupt, 2 attempts, batches of 2; refresh: 2 runs, 1 poll; prices: 2 symbols, batches of 1, 2 queued calls; fairness | `ImplementsLifecycle`, `EveryJobSettles`, `RefreshEnds`, `CancelReturns`, `LoadingEnds`, and of the refresh `LiveChildTracked`, `TimelyCancelHonoured`, `SettledStatusTrue`, `CancelAddressed` |
| `Processor` | 2 threads of a process, 1 watch, 3 jobs, 2 attempts, batches of 2, database errors, clock of 1 unit | `ProcessorTypeOK`, `MarkerCoversNotified` |
| `ProcessorCooldown` | the same with 2 processes and without errors, cooldown 2, clock of 2 units | `NotifiedOnceUnlessOvertaken`, `SpacedFromEarlierEvent`, `ImplementsQueue` |
| `ProcessorOne` | 1 worker, 2 watches, 4 jobs, cooldown | `RetriesStayEligible`, `CompletedIsAccounted` |
| `SideBySide` | thirteen components, below | two type invariants and 22 properties, below |
| `QueueSiblings` | 2 threads of a process and a worker, 3 jobs, row 2 corrupt, 2 attempts, batches of 2 | `LateReportIsNoop` is violated |
| `ProcessorResend` | 2 processes, 3 jobs, clock of 2 units, no cooldown | `NotifiedOnce` is violated |
| `ProcessorRetry` | 2 processes, 4 jobs, no lease goes stale | `RetriesStayEligible` is violated |
| `ProcessorSpacing` | 1 worker, 4 jobs, cooldown 2 | `CooldownSpacing` is violated |
| `RefreshEarlyCancel` | 1 refresh, 1 poll | `EarlyCancelHonoured` is violated |
| `WorkerProbe` | 2 starts of the worker, 1 of the API | `RecoveryIsNewWorker` is violated |
| `FilesShared` | 2 processes of 1 thread, 3 updates | `ReadersSeeWhole` is violated |

`SideBySide`, component by component:

| Component | Instance | Properties |
|---|---|---|
| queue | 2 threads of a process and a worker, 2 jobs, 2 attempts, leases stale after 1 unit, batches of 2 | `QueueTypeOK`, `LeaseMatchesClaim`, `LateReportSparesOthers`, `SettledIsFinal`, `OnlyOwnerEndsLease` |
| store | 2 API processes, a worker, a user, 7 payloads, 4 rows from before | `WebhookKept`, `ImplementsIndex` |
| accounts | 2 requests at once, 1 account, 2 passwords, 2 tokens, session versions up to 2, 1 background task | `ResetOnce`, `NoOrphanToken`, `PasswordEndsSessions` |
| limits | 2 rules with windows of 2 and 3 seconds, 3 requests | `LimitPerWindow` |
| limiter | 2 threads, a budget of 2 calls in 3 units, 2 tries | `WindowWithinBudget` |
| health | 2 starts of the worker, 1 of the API, 3 threads | `OkMeansServed` |
| delivery | 2 threads, 9 settings, 2 attempts, cooldown 2 | `MarkerMeansDelivered`, `HostedKeepsApart` |
| files | 2 threads of a process, 3 updates, 3 kinds of file | `ImplementsUpdates` |
| market | 2 trackers, 2 runs of them, 1 import, two dates | `ImportKeepsSnapshots`, `LatestIsNewest` |
| migrations | 3 versions, one process of release 2 and two of release 3, 2 deaths | `SchemaIsWhole` |
| rules | 2 tickers, 8 rules, 4 histories, one without timestamps, 3 quotes | `HostedAgreesWithFile`, `RsiFollowsPrices` |
| collection | 2 indices that share a symbol, 2 watched symbols, 2 runs, cap and limits of 1 and 2 | `WatchedAreFetched` |
| backtest | instants of four days around a holiday, 1 bar, 1 projection | `VerifiedSamplesAreFair` |

`ComponentsTypeOK` is the conjunction of the type invariants of the others. The
larger runs have between 190,000 and 1,100,000 distinct states.

Why the bounds are enough.

- Queue and processor. The protocols are about one row and the loops that
  compete for it. Two threads of one process and a worker give every pair of an
  owner and a late loop, within a process and across two, and a recovery by the
  third. Two attempts give a first try, a recovery or retry, a used-up budget,
  and the attempt beyond it that two siblings can cause. The processor runs with
  two threads of one process in `Processor`, of two processes in
  `ProcessorCooldown`; its theorems are about any of both. Three jobs are an evaluation and two deliveries of one watch,
  which is what the interplay of claims, roll-backs and records needs; four
  allow overlapping ticks. A batch of two makes the second job age while the
  first is worked on. `Processor` stops its clock at 1 because the error
  branches multiply the states; what it checks is also proved for every clock,
  and `ProcessorCooldown` has the longer clock without errors, which a cooldown
  of 2 needs to be over once.
- Refresh. Two runs give a run and what it leaves to the next (event, status,
  a child that was killed and not reaped); runs do not overlap, so a third
  repeats the second. `PollTimeout` may come at any poll, so one poll and the
  last cover the loop.
- Side by side. Two of everything that competes (processes, requests, threads),
  since each protocol is about an owner and an intruder; three processes in
  migrations for two of the new release beside one of the old. A clock spans two
  windows of every rule, two windows of the budget, or two sessions. In
  `Backtest` a sample relates one projection and one bar, in `MarketStore` a
  wrong ranking needs two dates. Payloads, settings and rules are chosen one for
  each branch of the code.

Deadlock is checked in every run of the queue, the processor and the refresh: a
worker can always claim again, a request without credentials is always
answered. `SideBySide`, `WorkerProbe` and `FilesShared` do not check it: their
bounds on requests, deaths and the clock can be used up, and then nothing is
left to do.

### Findings

- **A late report hits a sibling's attempt** (`QueueSiblings`). The worker id in
  `locked_by` is one per process, and several threads of the API process drain
  the queue under it. When the lease of one goes stale and another claims the
  job again, the late `complete_job` or `fail_job` of the first passes the guard
  and completes, fails or requeues the attempt that is running. Both docstrings
  and a test say a late worker must not. What does hold is
  `LateReportSparesOthers`, across processes, and `SettledIsFinal`. The same
  gap lets `fail_job` requeue a row past `max_attempts` (section 3.1).
- **A recovered event can be sent again** (`ProcessorResend`). After a send,
  `record_trigger` writes the event's time stamp whatever the marker holds. If
  an older event of the watch is claimed, a newer one is claimed over it and
  notified, and then the older send returns, the marker ends up older than the
  newer event, whose job, when it is recovered from a stale lease, is notified
  a second time. `_process_deliver` says stale recovery must not resend.
- **A roll-back can restore a claim nobody delivered** (`ProcessorRetry`). If
  two overlapping claims both fail and the older rolls back first, its
  roll-back finds the newer marker and does nothing; the newer then restores
  the older one's claim. The retry of the older event is skipped as already
  delivered. `try_claim_trigger` says the restore keeps retries eligible.
- **The cooldown is measured from the event, not from the send**
  (`ProcessorSpacing`). A delivery that waited in the queue does not keep the
  next one away. The comment at the deliver-time check says overlapping ticks
  cannot double-notify under a positive cooldown. What does hold is
  `SpacedFromEarlierEvent`.
- **An early cancel is lost** (`RefreshEarlyCancel`). `POST /refresh` marks the
  refresh as running and starts the thread; the thread clears the cancel event
  a few statements later. A cancel accepted in between is acknowledged and then
  wiped out: the run goes on to success and checks alerts. The docstring says
  that the cancel cancels the running refresh. What does hold is
  `TimelyCancelHonoured`, from the clear on.
- **A recovery is rehearsed against the wrong process** (`WorkerProbe`). The
  probe takes any new worker id for the restarted worker. The API process writes
  heartbeats under an id of its own after its start-up check and after each
  refresh, and the endpoint answers with the newest row of any process. A test
  says a recovery requires a success from the restarted worker.
- **Two processes tear the history file** (`FilesShared`). The temporary file
  has one fixed name and the lock is one of the process, while `docs/USAGE.md`
  has the local worker run beside the dashboard. One process renames the
  temporary file the other has just truncated. The comment at the rename says
  readers never observe a truncated write.

Three more remarks that no run claims.

- The docstring of `backfill_legacy_market_data` says an old file cannot
  overwrite a newer durable snapshot. The import looks at the stored dates once
  and writes file by file, so a snapshot that a tracker stores after the look,
  under a date the look did not find, is overwritten. The model has these
  steps; `ImportKeepsSnapshots` is about the dates that were found.
- `evaluate_projections` says missing closes are never rolled forward. A fetched
  quote that is days old does not qualify and is dropped in both modes; but
  without `verified_outcomes_only` a row of an old file, which says nothing of
  its quote, counts as a close of the file's date. `VerifiedSamplesAreFair` is
  therefore about the verified mode.
- The retries of a 429 are calls the limiter does not record, so
  `WindowWithinBudget` is about recorded calls.

## 5. Fairness

Only `Live` assumes fairness, always weak and always of one component:

- Queue: `ClaimBatch` and `Report` of each loop and `Tick`. `run_worker_loop`
  calls the cycle again after a bounded sleep for as long as the process lives;
  every step of a job ends in a return or an exception, because every network
  call has a timeout, and both lead to a report; and time passes. `Crash` never
  ends the last loop, as the deployment restarts workers. Submissions are not
  fair, and no outcome of a job is assumed.
- Refresh: each tracker thread, and a cancel request that has begun. Threads are
  scheduled and every wait has a timeout, those inside `run_check_once`
  included. Nothing is assumed of clients, nor of the child, which may ignore
  every signal.
- Prices: `StartCall`, `WakeUp`, `BatchAnswered`, `ClockRuns`. Promises and timers
  run, and `services/api.ts` gives a request ten seconds, after which it fails.
  Nobody has to render or ask again.

## 6. What is proved

Proofs are checked by TLAPS for every value of the constants, under the named
assumptions of the modules, which TLC evaluates on the instances:

- Bounds are numbers, at least one attempt is made, rules have a positive limit
  and window, and the values that stand for "nobody" or "nothing" are not among
  the others (`QueueAssumption`, `ProcessorAssumption`, `RefreshAssumption`,
  `LimitAssumption`, `AccountsAssumption`, `BudgetAssumption`,
  `HealthAssumption`, `FilesAssumption`, `MarketAssumption`). A request matches
  each rate limit rule at most once (`LimitAssumption`).
- A history is a list of candles and a list of closes, each number a natural one
  or `Bad`, and `MaxDates` is a number (`RulesAssumption`). The model counts
  prices in a smallest unit; the code's floats are not modelled.
- The statements of the first migration can be repeated (`MigrationAssumption`).
- Configurations are JSON objects with a list of rules (`StoreAssumption`), a
  rule's `notifications` is a list (`DeliveryAssumption`), and there is an index
  to collect, since `get_indices_to_track` falls back on a default list
  (`CollectionAssumption`).
- The exchange calendar has two sessions before the instants of the model and
  `Horizon` after them (`BacktestAssumption`): the library's calendar knows all
  years, the model needs as much of it as the code looks at.

The library's induction theorems cannot be used here, since they take a
predicate. `DataLemmas` states induction over a set instead (`UpTo`: a set that
has 0, and each number with its predecessor, has all up to n), derived from the
well-foundedness of the naturals; `LoopRuns` from it says that a recursive
function given by a step of a loop exists, and `Greatest` that a finite set has
a greatest member in a total order. With these the loops over a list and the
rankings of rows are within reach. A sort is written by ranks (`InOrder`) rather
than by recursion, and `InOrderLists` proves of it what one expects of a sort.

**Queue.** `QueueInv` is the conjunction of `QueueTypeOK`, `LeaseWellFormed`,
`LeaseMatchesClaim`, `ClaimsDistinct` and `AttemptsBounded`. None of them is
inductive alone: that a claim never repeats an attempt somebody holds needs
claims to be no newer than the row, and the agreement of lease and memory after
a report needs a loop to hold one claim per job. Each action is reduced to what
it does to one row (`RowStep`), and the action properties
`LateReportSparesOthers`, `SettledIsFinal`, `OnlyOwnerEndsLease` and the
refinement `ImplementsLifecycle` follow row by row. Nothing is assumed of
`LockIdOf`: any number of loops may share an id. `OwnerHolds` is what an id
still tells: a loop that passes the guard holds the running attempt, or a
sibling of it does or has ended; without siblings (`NoSiblings`) it is the
former.

`AttemptsBounded` is the bound of the attempts. Where ids are shared, a row at
its limit is requeued only by a late loop that read the attempts of an earlier
claim, and its report uses that claim up. So the attempts past the limit and
the claims of attempts below it that somebody still holds (`EarlyHeld`) add up
to what there were of the latter, `MaxAttempts - 1` at most. Where ids are not
shared the bound is `max_attempts`, as the code intends.

**Processor.** `ProcessorImplementsQueue` shows that every step is a step of
the queue or leaves it alone, so every theorem above holds of the processor.
`FrameInv` adds types, that a worker between a trigger claim and its record
has a current job, that a notification's attempt was really made, and that what
`fail_job` has read is between its claim's attempt and the row's.

`TriggerInv` is the argument for the trigger protocol. `MarkerCoversNotified`
is not inductive: a roll-back lowers the marker. It has to lower it to a value
that still covers every notified event, so the invariant speaks of `prev`, the
time stamp a claim would be rolled back to: it is older than the claim
(`PrevBelow`), it covers every event of the watch that was notified and is not
newer than the claim (`PrevSparesInbox`), and every such event another worker
is about to notify (`PrevSparesClaims`); and the marker covers every running
claim (`ClaimsCovered`). All of them are about jobs outside `overtaken`. A
claim is granted only over an older marker, which gives the new `prev` all of
this at once; a notification by another claim is covered by the last part; a
roll-back then cannot uncover anything. That an event is not sent twice
(`NoDuplicateNotification`) follows when the notification is made: were the
event in the inbox already, `prev` would both cover it and be older.

`SpacedInv` adds the cooldown (`NotificationsSpaced`). The check inside the
claim compares with the marker, not with what was sent, and the marker of an
older event may be gone again when the newer one is sent. So `ClaimsSpaced`
says of every running claim and every older job of its watch: the cooldown
after that job's event is over, or the job is reserved, that is, nobody can
claim it any more, because the marker is past it and so is the `prev` of every
other claim at least as new (`Reserved`); and if the job was notified or is
about to be, its cooldown is over. A new claim finds the marker out of its
cooldown, so what the marker covers has cooled down, and what it does not cover
it reserves, for no other claim can be over it. A job reserved by somebody
cannot become claimed, and a roll-back returns to a `prev` that keeps it
reserved. It also needs that no event is stamped in the future, that only
deliver jobs claim, and that the cooldown compared is one a user has set
(`EventsPast`, `DeliverOnly`, `RowsRead`).

`RetriesEligible` and `NothingDropped` are about one worker whose database does
not fail (`OneWorker`), for any number of jobs, watches and settings with bounded
cooldowns (`CooldownsBounded`); with two workers the first is refuted by
`ProcessorRetry`. `SoloInv` says for each
place of the worker what the marker means there: it was left by a notification
at least as new (`Justified`), or the worker is between its own claim and its
outcome, the marker is that claim's, and `prev` was left by a notification.
Every way to complete a job looks at such a marker.

**Refresh controller.** `RefreshInv` is inductive. Its core is `OneAtATime`:
refreshes before the latest are done, later ones have not begun, and an active
one holds the slot. So whatever a tracker writes to the shared status, event
and process concerns its own run. `OwnsChild` adds that the active tracker's
child is the one `_refresh_process` names and that the tracker leaves its wait
only when the child exited or was killed, from which `NoOrphan` follows.
`EventIsMine` says that a run in reach of a cancel sees the event exactly when
a cancel was sent to it: the clear at the start makes one direction true, the
absence of any other clear the other, and `NoStaleCancel` and `CancelHonoured`
are the two directions. `StatusWritten` gives `StatusSettles`.

**Migrations.** `SchemaIsWhole` needs `DraftIsCurrent`: at most one process
migrates, what it has read are the versions as they are, and its uncommitted
tables are those of its uncommitted versions. Then a commit adds each version
once, and no repeated statement or version row can clash. It rests on the
transaction's beginning before the read; with the read first (the slip), two
processes apply one version.

**Rate limits.** `LimitPerWindow` needs `CountsCover`: as long as no purge has
reached a window, its counter is at least the number of requests let through.
Requests are counted with the time they arrived, so a late one purges only
windows that were over for it, and a window it purges is one that `purgedAt`
has passed. The counter admits up to the limit, hence so does the window.
`LimitsTypes` is the bound from the other side: what a row counts are requests
that are past its rule (`RowsInv`), each once, so purging and starting a window
anew cannot drive a counter beyond the requests there were.

**Finnhub client.** `LimiterInv` says the deque is a suffix of all recorded
calls (`DequeIsSuffix`), that these are in order of time and not in the future,
and that those the deque has forgotten are out of the window
(`RecordedBefore`). `HasRoom` is about the thread that holds the lock: past the
budget's wait the deque has room for one more call, since the wait ended when
the oldest entry had aged and the purge dropped it; and no call was recorded
after the time it has read. So the window of the call it records is within the
deque. The lock's marker for "free" must not be a thread, which
`BudgetAssumption` states. `LimiterTypes` adds that the lock is of the thread at
the limiter and that the bucket stays within its capacity (`BucketInv`), although
a 429 fills it by another thread's hand.

**Accounts.** `ResetOnce` rests on `AppliedOnce`: a token that a request is
applying, or that has set a password, is spent, and by that request alone; the
guarded `UPDATE` is what lets one request pass. `PasswordEndsSessions` rests on
`SessionsNotAhead`: no signed session has a later version than its account, so
adding one outdates them all, also those signed from what another request reads
at that moment. `NoOrphanToken` follows from the foreign key and the cascade,
whatever background tasks do.

**Stored configurations.** `StoreImplementsIndex` is the refinement: every step
is a save of one user, a refresh of the index or a stutter. It needs what a
transaction has read to be what is stored at its commit, which is
`StoreTypeCorrect`, and that is the mutex. `IndexIsComplete` adds the history:
once a process is behind its backfill, no step makes a readable configuration
differ from its watches, since a save writes both.

`WebhookKept` (`BlanksKeepWebhooks`) rests on the same mutex and on what the
operators do to one rule: `MergeKeeps` and `PolishKeeps` say that every stored
rule is one rule of the payload with its own id and only the webhook changed,
although the loop of `Dedupe` drops rules on the way. `ConfigsShaped` adds to
the invariant that the payload of a save has distinct ids, which the route sees
to: with a repeated id a rule could get the webhook of another.

**Price hook.** `LoadingAccounted` says a symbol shown as loading belongs to a
call that waits or runs. Every exit of a call passes the `finally` that takes its
symbols away, and the batches of a call are among the symbols it was queued with
(part of `PricesTypeCorrect`). It is the safety half of `LoadingEnds`.

**Health.** `OkMeansServed` needs `HealthInv`: a thread with a result in hand
carries a time no newer than the latest success of its process, if it is one,
and so does every row. Rows are overwritten by threads of one process in any
order, so a row may go back in time; it never gets ahead of a success. The id
of a thread is that of its process since the last start, and a restart takes
the results in hand with it.

**Delivery.** `MarkerMeansDelivered` is `MarkerOK`; `SendOK` is what makes it
inductive. A thread that has counted an acceptance had one of that event; one
that has so far met only the log still has every other channel to do, so that
"only the log is left" is known at the end of the loop and not assumed. That
the loop over the names builds a list of channels is `NotifiersAreChannels`.
`HostedKeepsApart` is about every setting, by the cases of the environment.

**Local files.** For threads of one process (`InOneProcess`; run `FilesShared`
refutes it for two) `ReadersSeeWhole` and the refinement `ImplementsUpdates`
follow from `FilesInv`: one thread at most is in an update, since the others
wait for their turn; what it opened is not what the name refers to; and what it
will write is one update of what is shown, which nobody changes meanwhile. A
crash leaves at most a torn temporary file, which the next update truncates.
`FilesTypes` needs no such hypothesis: for any number of processes over one
temporary name, the names refer to files that are there, since a thread that
opens one has none open (`OpenFiles`) and so finds a free one.

**Rules.** `HostedAgreesWithFile`: conditions only ask whether a stock is there
or matches, so they are monotone in what is shown (`RuleGrows`), and a job is
shown a part (`JobInvents`). The other direction (`JobFinds`) is that a rule
about one symbol looks at nothing else, unless it screens.

`RsiFollowsPrices` is a fact about the operators, for histories of any length.
Each source of closes is in the order of the sessions (`CandlesFollow`,
`BarsFollow`, from `InOrderLists`): stored bars and candles with a timestamp
each whatever order they are listed in, candles without timestamps because
their sessions are those of the list. So consecutive closes
move as the prices do (`ClosesFollow`). `SmoothedOf` follows the loop of
`compute_rsi` with its invariant: a sum and a positive scale, the sum zero as
long as every change was and positive once all are.

**Collection.** `WatchedAreFetched` needs `WatchedInHand`: while the watched
symbols are fetched, each is in the data, still asked for or was refused.
`Combine` establishes it with the data as they are after the limit.

**Market data.** `ImportKeepsSnapshots` needs the shape of an import in the
middle of its files: which tables it has looked at, that it skips the dates it
found in each of them, and that projections inside a summary are stored only
under a date of which it read no file. Trackers add rows and replace none of
another source by less. `LatestIsNewest` is not a fact about steps but about the
ranking: rows are finite in number and `Rank` orders them totally, so there is
a first one, and no other is newer by its provider's time.

**Scoring.** `VerifiedSamplesAreFair` needs of every row that a session it names
is over before its day and its official close is that session's, and of every
projection that it was made in its day or before (`MadeBy`). The rest is the
calendar: the last completed session is the last whose close is not ahead
(`LastCompleted`), and `Horizon` sessions after it there is one
(`TargetExists`, by counting, `CountedUp`).

**Side by side.** `MovesOrRests` says that a step of `MCSideBySide` is a step of
each component or leaves it alone, so a behaviour of the thirteen together is a
behaviour of every one (`EachBehaves`), whichever of them moves and whatever the
constants are. Hence the theorems above hold of that run's specification, and
`ComponentsTypes` collects the type invariants into `ComponentsTypeOK`.

**Only model-checked.** Liveness (`EveryJobSettles`, `RefreshEnds`,
`CancelReturns`, `LoadingEnds`), which is outside the prover together with
ENABLED. Every other property of a passing run has its theorem.

## 7. Hazards without a property

Three of the hazards in `PROJECT.json` have none, each for a reason given there:
an event is lost when a worker dies between claim and send, which the code
prefers to a duplicate; an evaluation that is run again enqueues its deliveries
again, as new events; and the first initialisation of a configuration checks
and saves in two transactions, which matters only to several API processes.
A check in the API process (`run_user_check`) beside a hosted delivery of the
same watch is in neither model.

## 8. Not modelled

- Delivery status (`delivery_status.py`), the delivery log and metrics record
  what happened for display; nothing is decided by them.
- Core and utilities: reading configuration, logging, string helpers.
- Read routes of the dashboard and the alert routes that only read.
- The frontend but for the price hook: views are React state without a protocol;
  the session context and the automatic reload are left out.
- `staging_acceptance.py` and the composing of images: sequences of commands.
- Message layout, transports, signatures, hashing, URL safety; floating-point
  statistics of analyser and projector, text of the summariser; export formats;
  parsing of arguments. They keep no state two actors share, and a model checker
  has nothing to say of their arithmetic.
- The death and restart of the API process in the middle of a refresh: the
  tracker is a daemon thread, and all its state is in the process.
- Rewriting of placeholders for PostgreSQL; both databases are the same
  transactions here, and where they differ (a conflicting `INSERT` of a
  heartbeat) the model has the freedom of PostgreSQL.

## 9. Running

    tlc -workers 2 -config QueueSiblings.cfg MCAlertJobs.tla
    tlc -workers 2 -config Live.cfg MCLive.tla
    tlc -workers 2 -config Processor.cfg MCJobProcessor.tla
    tlc -workers 2 -config SideBySide.cfg MCSideBySide.tla
    tlc -workers 2 -config RefreshEarlyCancel.cfg RefreshController.tla
    tlc -workers 2 -config WorkerProbe.cfg MCRecoveryProbe.tla
    tlc -workers 2 -config FilesShared.cfg MCLocalFiles.tla
    tlapm AlertJobsProofs.tla
    tlapm JobProcessorProofs.tla
    tlapm StorageProofs.tla
    tlapm DashboardProofs.tla
    tlapm MarketDataProofs.tla
    tlapm AlertsProofs.tla
    tlapm DataLemmas.tla
    tlapm SideBySideProofs.tla

`ProcessorCooldown`, `ProcessorOne` and the three other `Processor...`
configurations run with `MCJobProcessor` too.
