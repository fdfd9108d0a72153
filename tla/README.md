# A TLA+ model of News Claws

News Claws collects articles from configured sources, clusters them into events, decides how
well an event is verified, computes impacts with a deterministic analyser or a paid model call,
publishes versioned reports and mails them to subscribers. It is one Python process (FastAPI on
one asyncio event loop, sync endpoints in a thread pool, one background scheduler) on one SQLite
file. The code is in `apps/analysis_api/news_claws/`; paths below are relative to it unless they
begin with another directory of the repository.

This directory holds the specifications of that service, the TLC configurations that check them
on small instances, and proofs of their main safety properties for every value of the constants.

- [1 Inventory](#1-inventory)
- [2 Plan](#2-plan)
- [3 The modules and the code](#3-the-modules-and-the-code)
- [4 The runs](#4-the-runs)
- [5 Fairness](#5-fairness)
- [6 The proofs](#6-the-proofs)
- [7 Where the code and its documents disagree](#7-where-the-code-and-its-documents-disagree)
- [8 What is not modelled](#8-what-is-not-modelled)

Model-check one run and one proof module with

    tlc -workers 2 -config Analysis_jobs.cfg MCAnalysis.tla
    tlapm AnalysisProofs.tla

## 1 Inventory

### Analysis pipeline (`services.py`, `domain/llm.py`, `adapters/llm.py`, `reporting.py`)

*State*: `PipelineJob` rows by idempotency key (event, input hash, operation), `AnalysisRun` rows
with a cost, the current `Claim`/`Evidence`/`Verification`/impact rows of an event, its `Report`
versions; per request the prepared analysis, in an open transaction.

*Operations*: `analyze_event_configured`, `analyze_event`, `_prepare_event_analysis`,
`complete_model_analysis` with one repair call, `_record_llm_failure`, `persist_report`; reached
from `pull_sources`, `ingest_manual_url`, `reanalyze_event`, `merge_events`, `split_event`. A start of
the service runs `seed_demo`, which ingests the bundled demo articles and calls `analyze_event` for
them, whatever the provider.

*Interaction*: coroutines on the loop that interleave only while a model call is awaited. The
first UPDATE of the preparation takes SQLite's write lock and keeps it across that await. Any
other statement that writes blocks its thread for `busy_timeout` and then fails. On the loop's
own thread that means the loop stands still for as long.

*Hard*: check-then-act across the await (is there a report? what is left of the budget?), the
lock against the loop, rows replaced before the call and not committed, exceptions of the call that no
handler names, jobs that a crash leaves running, midnight during a call.

*Correct when*: one input of an event is reported once; what is shown is one analysis; the budget
is passed by one call at most; jobs agree with reports; dead jobs stay dead; every request ends.

### Verification (`domain/verification.py`)

*State*: none; `decide_verification` is a function of the evidence of one claim.

*Correct when*: two articles corroborate only if they are of independent chains, and more support
never weakens a decision.

### Independence groups and article versions (`services.py`: `ingest_article`, `_assign_independence_group`)

*State*: `Article` (with the group it was given when first seen), `ArticleVersion`,
`SyndicationLink`.

*Hard*: the group depends on the order of arrival; articles change their texts, also back to
earlier ones, while their groups and links stay.

*Correct when*: articles joined by repost links are in one group, and evidence rows agree with it.

### Event clusters (`services.py`: `_find_cluster`, `set_event_lock`, `merge_events`, `split_event`)

*State*: `EventCluster` (`state`, `locked`, `last_seen`, `is_demo`), `EventArticle`; the event
object a session keeps from one source of a pull to the next.

*Interaction*: the entries of a source are placed in one transaction without an await; merge and
split are coroutines of the same loop, the lock endpoint is a thread.

*Hard*: a lock that is set while a batch is under way; a window that follows `last_seen`, which a
stale object or a split may set back; ids that repeat in a merge; an event without articles;
merge and split while an analysis of the same event is out (in `Analysis`).

*Correct when*: articles of one event are of one domain and close in time, no article gets lost,
and a locked event gets none.

### Notifications (`notifications.py`)

*State*: `Subscription` (with `last_sent_at`), `Notification` (status, attempts); per dispatch the
rows it read and the marks it has not committed.

*Operations*: `create_subscription`, `update_subscription`, `queue_report_notifications`,
`dispatch_pending_notifications`.

*Interaction*: queued in the transaction that commits the report; dispatched after each cycle of
the scheduler and by `POST /notifications/dispatch`, in threads that may overlap. Mails leave
before the commit; the write lock is taken in the middle of a dispatch, by autoflush. A sender may
raise although the server has taken the mail.

*Correct when*: nothing is marked sent that was not mailed; duplicates are explained by lost
outcomes and overlaps; a subscription gets one digest a day; every notification is settled.

### Collection (`services.py`: `pull_sources`, `test_source`; `scheduler.py`; `catalog.py`)

*State*: `Source` (enabled, `consecutive_failures`), `SourceRun`; `collection_lock` and its
waiters, `scheduler_stop`.

*Interaction*: pulls of the scheduler and of requests take turns by the lock, source tests do not;
all keep the `Source` rows their session loaded.

*Hard*: a failure at any await, also one that no handler names; counts in sessions that are stale.

*Correct when*: the health of a source is that of its last run; only lost runs stay open; every
pull and test ends; a stopped service ends its scheduler.

### Database (`database.py`, `models.py`)

One writer at a time, `busy_timeout`, sessions that do not expire at a commit and do at a
rollback. It has no module of its own: each module has the write lock or the session cache where
its component meets them.

### HTTP API (`main.py`, `schemas.py`), configuration (`config.py`, `config/*.yaml`)

The handlers that change state are part of the actions of the services they call. Settings are
constants of the modules.

### Fetching (`services.py`: `_fetch_source_entries`, `_enrich_source_entries`; `adapters/http_sources.py`, `adapters/rss.py`, `domain/security.py`)

*State*: of one collection only: the URL in turn and the redirects so far, the robots policy in
force, files and links still to read, entries found.

*Hard*: the web answers what it likes; a redirect may lead to another site, whose rules are other
rules, or to an address that is refused; `UnsafeUrlError` is a `ValueError`, an unparsable URL or a
date out of range is neither that nor an `HTTPError`, and what is caught where decides between a
skipped page, a fallback, a forbidden source and a collection that just breaks off.

*Correct when*: a collection ends after few requests, asks for nothing it may not ask for, and its
verdict tells what happened.

### Deployment and backup (`.github/workflows/deploy-production.yml`, `deploy/*.sh`, `scripts/backup.py`, `scripts/restore.py`)

*State*: release directories, the links `current` and `previous`, the containers of one compose
project, the database with its schema, backups with their checksums; per script where it is.

*Interaction*: the workflow runs `remote-deploy.sh` over SSH, then a smoke test, then
`remote-rollback.sh` if that failed; an operator runs the rollback and the restore by hand.

*Hard*: every command may fail, into the EXIT trap; a kill runs no trap; a job that times out leaves
its script behind; containers and links change in separate steps; the remote script is the standard
input of its shell, which `compose exec` reads as well.

*Correct when*: the links name what works and what runs, nothing is replaced without a backup, a
rollback goes back to what was displaced, and the host is free again after every deployment.

### Reading side, company registries, text extraction

See [8](#8-what-is-not-modelled).

## 2 Plan

In order of what a fault would cost a reader of the reports:

1. `Analysis` with the abstract `ReportLedger` — done, checked, proved (`AnalysisProofs`).
2. `Notifications` — done, checked, proved (`NotificationsProofs`).
3. `Verification` and `Chains` — done, checked, proved (`ChainsProofs`).
4. `Collection` — done, checked, proved (`CollectionProofs`).
5. `Clusters` — done, checked, proved (`ClustersProofs`).
6. `Fetch` — done, checked, proved (`FetchProofs`).
7. `Deployment` — done, checked, proved (`DeploymentProofs`).
8. Still worth doing: an abstract specification of the notification queue (a row that is settled once,
   with mails counted against losses and overlaps) and of the release host (links that move only between
   releases that were ready), each with a refinement mapping as `ReportLedger` has one. Perhaps a
   composition of `Collection` and `Notifications` over one scheduler cycle; the two share
   only the order "pull, then dispatch", which `Collection` has (`Finish`, `Mailed`).

## 3 The modules and the code

| module | models | state it keeps |
|---|---|---|
| `ReportLedger` | what the pipeline promises its readers: an event's report versions are of evidence it had when they were published, once each, never changed | `evidence`, `ledger` |
| `Analysis` | the analysis pipeline, the requests that lead to it, jobs, budget, write lock, event loop | rows: `home revision state demo reports current job spent`; service: `writer pc todo kind work`; environment: `mode day crashes`; history: `cut torn` |
| `Verification` | `decide_verification` | none (operators on sets of facts) |
| `Chains` | groups, versions, links and the evidence of one event | `seen group shown versions links members analysed evidence decision` |
| `Notifications` | subscriptions, queue, dispatches | rows: `queue row sub sentToday`; service: `writer run`; environment: `reached edits`; history: `losses overlaps mailed digests` |
| `Collection` | pulls, tests, scheduler, lock, source health | rows: `enabled failures runs`; loop: `owner queue stopping`; process: `pc rest at run seen`; history: `asks edits losses contended` |
| `Clusters` | placing of articles in events, the event lock, merge and split | rows: `rows locked`; service: `draft batch writer kept asked`; history: `corrections corrected blurred placed dropped` |
| `Fetch` | one collection of a source over HTTP | `source entrance stage asked url hops policy base files due found from plain enriching result`; history: `requests raised` |
| `Deployment` | the deployment workflow, its scripts, backup and restore | host: `releases unpacking current previous container ready db backups target restoring`; scripts: `pc displaced copied goal failed approved consumed orphans`; history: `unsure wasReady found` |
| `MC…` | instances for TLC | |
| `AnalysisProofs`, `ChainsProofs`, `ClustersProofs`, `CollectionProofs`, `DeploymentProofs`, `FetchProofs`, `NotificationsProofs` | inductive invariants and theorems | |

`PROJECT.json` maps every definition to the lines it models.

### Analysis

A **task** is a coroutine. `pc` says where it is: `next` (between two events of its request),
`prepare` (the job is committed as running), `calling` (the call is out), `record` (a failed call
was rolled back and its record is next). All of them but `calling` hold the loop, so actions of
other tasks need `LoopFree`. What is atomic in the model is what the code does without an await
and commits, or discards, as one.

| action | code |
|---|---|
| `Ingest`, `Merge`, `Split`, `Reanalyze` | the service functions up to the commit before their analysis |
| `ReuseReport`, `SkipDeadJob`, `StartJob` | `analyze_event_configured` lines 956–994 |
| `AnalyzeDeterministic`, `DeterministicRefusesEmpty` | `analyze_event` |
| `Prepare`, `OutOfBudget`, `PrepareRefusesEmpty` | lines 995–1028 with `_prepare_event_analysis` |
| `ProviderFails`, `OverBudget`, `ContractFails`, `Repair` | `complete_model_analysis` and the handlers of its exceptions |
| `Publish`, `Unreportable` | lines 1074–1087 with `_apply_model_analysis` and `persist_report` |
| `RecordFailure` | `_record_llm_failure` |
| `Escapes` | an exception of the call that no handler names leaves a pull through its `finally`, lines 1347–1351 |
| `LockTimeout` | "database is locked" after `busy_timeout`, caught by nobody |
| `ThreadBegins`, `ThreadEnds` | a sync endpoint that writes |
| `NewDay`, `Restart` | midnight UTC; the process dies and starts, perhaps with another provider |
| `Seed`, `NothingToSeed` | the part of a start that is `seed_demo`, `main.py:95–98` |

An input hash is abstracted to what `_event_input_hash` and `_analysis_input_hash` hash: the
articles of the event with their latest versions, and the provider. The text of an article is its
version number: an article that returns to an old text gets no version in the code and none here.
The clustering of a new article is any event it may join. Usage is a number of units.

The preparation deletes the claims and impacts of the event and writes new ones before the call, in
the transaction that stays open. `work[t].replaced` names the events of which that is so, `current`
is what is committed, and `Committed` what a commit of the task's session would make of it: every
commit of a task uses it, so that a failure handler which forgot to roll back would publish rows
of an analysis that failed. `torn` is where the `finally` of a pull does that.

### Notifications

A dispatch is a record of what it read (`batch`, `seen`, `route`), what is left (`rest`) and what it
marked (`sent`, `failed`, `stamped`). `batch` and `rest` are sets: the order of `created_at` is that
of `queue` (`Age`), and `Turn` says whose notification comes next, address by address. The marks
reach the rows in `Commit` only, or never (`LockTimeout`, `Crash`); mails count at once. `Flush` is
SQLAlchemy's autoflush at the next `session.get(Report)`. It takes the write lock, and the dispatch
mails on with it. The clock is reduced to whose digest hour has come (`reached`) and to whether
`last_sent_at` is of today. A sender that raises has mailed nothing (`Rejected`), or the server took
the mail and its answer was lost, late or an error to `QUIT` (`AcceptedUnheard`); the code marks a
failure both times. `losses` counts the outcomes that were lost, whole dispatches and such mails,
`overlaps` the dispatches that began beside another: the two causes of a second mail.

### Verification and Chains

Rules are tried in the order of the code. A text is reduced to its story (the content hash) and to
the stances its words express. `Regroup` is what merges and splits do to the one event followed;
their details are in `Analysis`. `Assigned` is `_assign_independence_group`: a declared origin
first, then the first-seen article that shows an equal text, then the publisher. `MaxVersions` bounds
the texts of each article by itself, so that an instance can revise one article often.

### Collection

`seen[p][s]` is the failure count in the identity map of a session. A pull that loaded 0 does not
write 0, a test writes the count it loaded plus one, and a rollback expires what was loaded. `queue`
is the FIFO of `asyncio.Lock`. `contended` is a history variable: sources that were tested while
another process had them loaded, for which the health is only as good as the last writer's copy.
`Escapes` is an exception that passes the handlers of a pull or test. Its row keeps the status
"running" with an `ended_at`, which is "stuck" here.

### Clusters

A batch is the loop over the entries of one source: `draft` is what its transaction sees, `rows` is
what is committed. `Begin` takes SQLite's write lock with the first flush, before any event is read;
that order, not a check, keeps `SetLock` out until `Commit`. `kept` is the event object in the identity
map of the session: `expire_on_commit=False` keeps its `last_seen` from one source to the next, and
`Join` takes the maximum with that. A merge with its target among the sources loses memberships
(`lost`), one into a merged event takes its articles out of sight; `dropped` are the articles either
took along, `placed` all that a batch has stored in an event. A split sets `last_seen` to the time of a
fetch; `blurred` records where that happened. Titles are not modelled: those of events and of articles
change over time, so an article may join any candidate, or none.

### Fetch

`stage` is what is asked for, `url` and `hops` are the loop of `fetch_public_bytes`. Answers are chosen
freely at every request. Two lists of the code are numbers here: links still to look at (`due`) and
files of a sitemap index (`files`); which URL is next is chosen when its turn comes. Exceptions are of
three kinds: `unsafe` (`UnsafeUrlError`), `error` (any other that the handlers take) and `crash` (one they
do not). `Raise` and `Abort` say what becomes of each, `raised` remembers them, and `from` the entrances
whose entries there are. An enrichment is a page fetched in one of `Slots`, with as many requests as
redirects allow, which fails without harm (`EnrichEnds`) unless it crashes (`EnrichCrashes`).

### Deployment

`pc[r]` is the command a script is at; each may fail (`Refuse`, `Fail`, `RestoreFails`,
`RollBackFails`) and any script, the rollback included, may be killed (`Die`) or lose its workflow
(`Orphan`). The workflow pipes `remote-deploy.sh` into `bash -s`, and the `docker compose exec -T` of its
backup has the same standard input. `Consume` is the deployment whose rest was read by that command: it
ends with status 0, nothing is replaced, and the smoke test is of the old release. A script that
fails from `compose up` on goes to its trap. `Boot` is the container: it migrates the database and
becomes ready, or never does. `Start` lets the reviewer approve the rollback only if the release it
displaces can run on the new schema, which is what the workflow's input asks of him.

## 4 The runs

| run | asks | bounds, and why they are enough |
|---|---|---|
| `analysis_jobs` | the inductive invariant with the types, one call at a time, the budget, dead jobs | one event and article with two revisions, two tasks, both providers, two days, one restart; budgets 2 of 3 and calls up to 2: a call can exceed what is left, two calls can exhaust a day, one can begin before midnight |
| `analysis_corrections` | what is shown is one analysis; jobs against reports; `ReportLedger` | two events and two articles, both of the demo, so that a restart may seed them and later requests may move them: an event whose evidence goes from A to B and back; both providers, two tasks that want the lock, one restart |
| `analysis_ends` | which jobs stay open; termination | two events to move one article between while a call is out, two tasks, no restart, so that what ends a request is the code; no symmetry, since a temporal property is checked |
| `analysis_stale` | violation, see 7 | the smallest instance that shows it |
| `notifications_overlap` | types; nothing is "sent" that was not mailed; duplicates; one digest a day | two dispatchers at once on two notifications of one subscriber, edits, and one lost outcome, of a dispatch or of a mail the server took while the sender raised: each dispatcher can fail or be lost while the other mails |
| `notifications_settle` | finality, settlement | one dispatcher, two subscribers and a batch of 1, so that a deferred digest fills the batch before an immediate mail; two attempts |
| `chains_evidence` | the inductive invariant with the types, traceable stances, independent corroboration, monotone support | an official source and two others, one of whose articles is revised and goes back; three stories one of which denies; one origin; two analyses |
| `clusters` | types, coherent events, `last_seen`, no lost article, the lock | three live articles a window apart in a row, so that they form a chain whose ends are too far apart, and a demo one; three events, two sessions, two requests of the analyst; events and sessions are symmetric |
| `fetch` | types, few requests, verdicts, politeness, termination | a site, a second one with the page that is also the fallback, and a host inside; two requests a fetch (so one redirect), two files, two links for one entry. The bound `MostRequests` is reached by a website and by a sitemap. With two entries the run takes twice the time and finds no more |
| `deployment` | types, links, backups, rollback, freedom of the host | two releases whose schemas are equal or one ahead of the other, either way; one rerun or manual rollback, one kill, one orphan: with the second release there is one to displace, and a script can meet what one failure of an earlier one left. A consumed script is followed up to the smoke test and to where its rollback reads the links; that rollback goes on only if there is an older release, the third, which is past the time of a run and left to the theorem |
| `chains_copies` | violation, see 7 | two sources, two stories |
| `collection` | types, health, open runs, termination, shutdown | two sources, one of them in the catalogue and with a fallback; the scheduler, a pull and a test; two of these in a behaviour, one edit, one run lost to a crash, a locked database or an exception nobody handles, any number of restarts |

`MaxRevision`, `MaxDay`, `MaxCrashes`, `MaxVersions`, `MaxReports`, `MaxAsks`, `MaxEdits`,
`MaxLosses`, `MaxOverlaps`, `MaxTime`, `MaxCorrections`, `MaxReruns`, `MaxDeaths` and `MaxOrphans`
are bounds of the models. The code has none of them; each is a guard of the action that
counts. `BatchSize`, `MaxAttempts`, the budgets, `Window`, `MaxRedirects`, `MaxSitemapFiles`,
`LinksPerEntry`, `Limit` and `Slots` are settings or constants of the code, made small.

Symmetry is used in runs of invariants and of action properties only. Deadlock is checked
everywhere but in `collection` (the service was told to stop, all it was asked for is done, and the
bounds are used up), `fetch` (one collection ends) and `deployment` (every run of the workflow has
been used).

What the properties rule out, beyond what one reads off a single action:

- `ReadersSeeOneAnalysis` — a call that fails after the impacts were replaced must not leave rows of
  another analysis beside the newest report: every failure handler has to roll back before it
  commits its record. The `finally` of a pull does not; the events that hit are `torn`.
- `JobsMatchReports` — two requests both see "no report" and race for it, while a start of the service
  may write deterministic reports under a hash of the model's.
- `OnlyCutJobsStayRunning` — an analysis has a dozen ways to end, and each has to settle its job; a crash,
  a locked database, an event that lost its articles and an exception nobody handles do not.
- `OneCallAtATime`, `BudgetBound` — nothing in the code says that calls are serialised. They are,
  because the preparation holds the write lock across the await. The budget depends on it: it is
  read before a call and charged after it.
- `ImplementsLedger` — the hash read before the call is stored after it. It is still the event's,
  because everything that moves evidence needs the lock.
- `RequestsEnd` — the same lock blocks the loop that has to resume its holder; `busy_timeout` is
  what resolves it, at the price of a failed request.
- `DeadNeedsOperator` — over restarts and provider changes.
- `SentWasMailed`, `DuplicatesNeedLoss`, `OneDigestPerDay`, `SettledIsFinal`, `EveryoneIsSettled` —
  the queue under overlap, loss, edits and a full batch. Dispatches that overlap do mail a
  notification twice (see 7), and so does a mail whose acceptance was not heard of; the second and the
  third say that nothing else does but a lost dispatch. The last two are checked with one dispatcher at a time.
- `StancesAreTraceable` — evidence that contests a claim has a stored version of its article with the
  words that made it so, although texts change and may return to an earlier version.
- `CorroborationIsIndependent` — "independent" is stated without groups: no path of repost links.
- `SupportOnlyStrengthens` — the premise excludes the case in which a new article displaces the
  representative of the event, which takes the "directly observed" mark of the old one away.
- `HealthIsOfLastRun`, `OnlyLostRunsStayOpen` — over failures at every await of a pull and a test, those
  that pass the handlers included: each of these leaves one row open, and nothing else does but a crash
  and a locked database.
- `CollectionEnds`, `SchedulerStops` — the lock is freed on every way out of a pull.
- `EventsAreCoherent`, `LastSeenCovers` — the window of the candidates follows `last_seen`, which is
  written from objects that may be stale, in any order of arrival.
- `LockedAdmitsNothing` — nothing in the code checks the lock again when it commits a batch; the write
  lock, taken before the candidates are read, is all there is.
- `EveryArticleIsListed` — of all articles ever placed, whether they opened an event or joined one: merges
  and splits move memberships one by one; only a merge with its target in the list, or into a merged
  event, takes an article out of sight.
- `PoliteRequests` — robots rules belong to a site, and sites change under redirects.
  `VerdictIsRight` — the order of exception handlers, and what none of them takes: no verdict hides
  a failure that is graver, and no entry is returned of an entrance that failed. `RequestsAreFew`,
  `FetchEnds` — loops in loops, each bounded.
- `LinkedWereReady`, `BackedUpFirst` — hold even with a kill, a rerun and a script that outlives its
  workflow. (`BackedUpFirst` asks for a sealed backup of the schema displaced. One of an earlier deployment
  with the same schema would do for it; that the deployment takes one of its own is the order of its
  commands.) `LinkTellsWhatRuns`, `RollbackGoesBack` — hold unless such a script is about, and say so.
  `RollbackGoesBack` says as well what becomes of a deployment whose script was consumed: its rollback
  takes the release that was running for the failed one and leaves it for an older one.
- `HostIsFree` — a release that never becomes ready ends in the timeout of `compose up`, and the trap
  that restores the one before ends as well.

Every passing property has a mutant in `PROJECT.json`: a definition of a module replaced by one a
slip in the code would produce, under which the property fails.

## 5 Fairness

- **Analysis.** Weak fairness of `Advance`: a task that holds the loop runs on, and each wait for
  the lock ends at `busy_timeout` (`database.py`). Strong fairness of `Resume`: the HTTP client has
  a timeout (`llm_timeout_seconds`), and the loop's ready queue is FIFO, so that a task whose call
  returned runs although others keep taking the loop. Weak fairness of `ThreadEnds`: thread-pool
  requests are short. None on requests, restarts or the end of the day.
- **Notifications.** Dispatches begin again (`collection_loop`), run to their end (`smtplib` has a
  timeout), and the digest hour and midnight come. Strong fairness of `Flush`: other holders of the
  lock come and go, and a dispatch that keeps asking gets its turn. In the code `busy_timeout`
  bounds each try; lost tries are counted by `losses`. `CyclesFitTheDay` is an assumption, not
  something the code ensures: unless the queue is empty again and again, some dispatch begins
  between the last digest hour and midnight again and again. It holds for the default interval of
  900 seconds if digest hours are early enough for one cycle; the setting admits a day.
- **Collection.** Fetches, analyses and mails have timeouts; a released `asyncio.Lock` wakes its
  first waiter; the scheduler looks at its stop event between cycles.
- **Fetch.** Weak fairness of `Next`: one coroutine, every request of which is answered or times out
  (15 seconds for a read; `adapters/http_sources.py:86`).
- **Deployment.** Weak fairness of each script: a process of the host whose commands return, those
  that wait for a container because of `--wait-timeout 180`. The smoke test between the scripts is a step
  of the runner and has the same fairness (`Deploy` contains `Smoke`): its requests have timeouts, and so
  has the job. Nothing is assumed of the container, of what may cut the workflow, or of the operator.
- **Clusters** is checked for safety only.

## 6 The proofs

`tlapm` checks every obligation of the seven modules. Every safety property that a passing run checks,
invariant or action property, is stated by a theorem. The theorems assume only the named `ASSUME`s of
the modules (kinds of constants, names that are distinct, finite sets where something is counted,
natural-number bounds), which TLC evaluates on its instances, and `SettledStays` one thing more, stated
with it. The inductive invariants were checked by TLC on the instances of the runs, or smaller ones,
before they were proved.

**AnalysisProofs** proves, for any sets of events, articles and tasks and any budgets,
`Spec => []IInv` and from it `TypeOK`, `ReadersSeeOneAnalysis`, `JobsMatchReports`,
`OnlyCutJobsStayRunning`, `OneCallAtATime`, `BudgetBound`, the action property `DeadNeedsOperator`
and the refinement `ImplementsLedger`. It proves `OneReportPerInput` as well, that no version of an event
repeats the input of another, which is a conjunct of `IInv` and which the refinement rests on.

None of the safety properties is inductive as it stands. That a publication adds a *new* hash
needs to know that the hash a task carries is not reported yet and still is the hash of its event
(`InputInv`). That needs that nothing moves evidence or publishes in between, hence that the
holder of the write lock is exactly the task whose call is out (`LockInv`) and that only one task
is between two awaits (`LoopInv`). That what is shown is one analysis needs that rows are replaced in
the transaction of the call and nowhere else (`RowsInv`), so that any other commit, a failure's record
among them, leaves claims and impacts as they are. The reports a start writes have no job because the
articles of the demo were in no event before (`UnseededInv`) and the start has the loop until it is
done with them (`SeedInv`). The budget needs that what a call may still add, with what was
spent on the day it will be charged to, fits the daily budget (`CostInv`), and that days to come
have no cost (`FutureUnspent`), because a call that began before midnight is charged to the old
day and its failure record to the new. There is a lemma for each action or group of actions
(`…Step`), with the conjuncts it disturbs below it; `RowsKept`, `TaskDrops` and `CallFails` state
what most actions share.

`LedgerImplemented` maps `evidence` to `[e \in Events |-> Hash(e)]` and `ledger` to `reports`.
`ReportWriters` names the two actions that write reports. Both are shown to append one hash that
the event has and no earlier version has; all others leave `reports` alone.

**ChainsProofs** proves `Spec => []IInv` and `TypeOK`, `CorroborationIsIndependent` and
`SupportOnlyStrengthens` for any articles, sources, texts and origins. `MoreSupport` is about
`decide_verification` alone: for finite evidence, more support never lowers the strength of the
status and never settles a dispute or a withdrawal. `Independence` rests on `LinksJoinOneChain`:
the ends of a link are in one group, so a group is a set the links do not leave, and two chains
(`TwoGroups`) cannot be connected. `EvidenceInv` says that the evidence rows still carry the group
of their article, which holds because a group never changes.
`ContestsAreTraceable` proves `StancesAreTraceable`: the stance is read from the title an article
*shows* and the summary of its *latest* version, which may be of different days. What is shown is always
among the versions (`TraceInv`), since a text that comes back had one.

**ClustersProofs** proves `Spec => []IInv` and `TypeOK`, `EveryArticleIsListed` and the action
property `LockedAdmitsNothing` for any articles, events and sessions, any window and any
number of corrections. The step in which a locked event could get an article is `Commit`, which
does not look at locks at all: the article was placed in `draft` before. `LockInv` says that what a
batch has placed is in events that are not locked, and is kept because `SetLock` runs only when
nobody has the write lock, which is when there is no batch and `draft` is `rows` (`BatchInv`). A
new event is not locked because nobody can ask for a lock on what is not committed (`AbsentInv`).
`Listed` is about `rows` and `draft` at once, for the same reason, and about the history of what was
`placed`, which only a merge may take from, into `dropped`. `PlacingRows`, `SplitRows` and
`MergeRows` state what a step does to memberships and states, without its times; `GreatestTime`,
that a latest time exists, comes from well-founded induction on the numbers.

`TimesAreKept` is a second invariant, from which `EventsAreCoherent` and `LastSeenCovers` follow. Both are
about what an article that joins is compared with, `last_seen`, and a session may write that from a
copy it kept since an earlier source. So the invariant is about three things at once: `rows`, `draft`
(a batch may be rolled back to the one or committed as the other) and `kept`. `TimeInv` says that
`last_seen` covers the articles in both tables and that a batch takes it back in no event that is not
`blurred`; `CoherenceInv` that in an event nobody corrected it is the time of one of its articles, so that
one that comes within the window of it comes near an article; `KeptInv` the same of the copies,
against the table that session will see next. It is kept because a rollback expires the copy of the
session it hits, and the others kept nothing that is not in `rows`.

**NotificationsProofs** proves `Spec => []NInv` and `TypeOK`, `SentWasMailed`, `DuplicatesNeedLoss`
and `OneDigestPerDay` for any number of dispatchers, subscribers, addresses and notifications, any
batch size and any limit of attempts. `SentWasMailed` needs that the marks a dispatch has not
committed yet are of mails (`RunInv`). That a second mail needs a loss or an overlap is not
inductive: the mails there are do not tell how many more the dispatches under way will send.
`MailInv` is an account instead. A mail is *owed* by every dispatch that found the notification open
and has not mailed it, or by the next one if there is none and the row is still open; what was
mailed and what is owed together never pass one more than losses and overlaps. A mail moves one from
owed to mailed. One whose acceptance was not heard of is mailed and still owed, and is a loss. A
dispatch that begins takes over the debt of the row, unless another has it, which is an overlap. A
commit that leaves the row open gives the debt back. A lost dispatch may put the row in debt again,
and is a loss. `DayInv` is the same account of a subscription's digests, for which a dispatch of the
day before owes one too, as its commit sets `last_sent_at` to the day it began: at midnight every
dispatch under way owes one, and all but one of those are overlaps (`ActiveInv`). It needs that an
address is one subscription's, and a digest all of its notifications (`RouteInv`). `SettledStays`
proves `SettledIsFinal` for one dispatcher, which is its hypothesis and the run's instance; with two
it is false (see 7).

**CollectionProofs** proves `Spec => []CInv` and `TypeOK`, `OnlyLostRunsStayOpen` and `HealthIsOfLastRun`
for any sources, requests and tests. `LossInv` counts: the open and stuck rows no process works on are exactly
as many as `losses`. For that every process must know its row, and no other may (`RowInv`), which rests on
where a process is in its loop (`PlaceInv`: the lock, the session and the row it holds). The health of
a source is written from the count a session loaded, so it is true of the last run only if that
count is still the stored one (`FreshInv`), and it is because nobody else has the source loaded unless
it is `contended` (`SoleInv`), which the lock gives to pulls.

**FetchProofs** proves `Spec => []FInv` and `TypeOK`, `RequestsAreFew`, `VerdictIsRight` and the action
property `PoliteRequests`, for any web, any redirects and any limits. `BudgetInv` weighs each stage
with the fetches that may still follow it, in this entrance, in its fallback and in the enrichment,
each worth as many requests as redirects allow; every step sends no more than it takes off that
weight. It needs that what the walk has left agrees with its stage (`WalkInv`). `PoliteRequests` needs
`RulesInv`: the policy in force is of the site the root page was on *after* its redirects, whose robots
rules are asked for first (`moved`). `VerdictIsRight` needs `VerdictInv`: what was raised of the entrance
under way is no more than what its walk may skip, and what it has found is its own.

**DeploymentProofs** proves `Spec => []IInv` and `TypeOK`, `LinkedWereReady`, `BackedUpFirst`,
`LinkTellsWhatRuns` and `RollbackGoesBack`, for any runs of the workflow, any schema revisions and
any number of kills, reruns and orphans. Links are safe because all that may become one is: what a
script has read as displaced, failed or its goal (`ReadyInv`, `NamedInv`). A backup is good because
a torn file never gets a checksum (`FilesInv`) and migrations only go up (`SchemaInv`). The last two
properties are about a script that is alone, so most of the argument is `SoloInv`: while there is no
orphan, at most one script is under way. Then what it has read of the links is still so (`LinksInv`,
which tells a deployment that ran from one whose script was consumed), and the containers are those
of the current link unless it stands between switching the one and the other (`ServiceInv`).

**Only model-checked**: all liveness (`RequestsEnd`, `EveryoneIsSettled`, `CollectionEnds`,
`SchedulerStops`, `FetchEnds`, `HostIsFree`), which the prover does not reach; and the violations
(`ReportFollowsEvidence`, `CopiesDoNotCorroborate`), which are not true. What `GreatestTime` says of a
maximum and the counts of finite sets are proved from the library's theorems about well-founded
relations and cardinality; nothing is assumed of them.

## 7 Where the code and its documents disagree

Two runs end in a violation of a sentence of the documents:

- **`analysis_stale`**: `docs/RELEASE_ACCEPTANCE_MATRIX.md:63` says that report versions follow
  changed event evidence. `services.py:967–975` returns any version with the same input hash. An
  event that gains an article by a pull or a merge and loses it by a split has its old evidence
  again, and its latest report is of the evidence it no longer has.
- **`chains_copies`**: `README.md:127` says that reposts of one release share an independence group
  and do not become multi-source corroboration. `_assign_independence_group` looks at a declared
  origin before it looks at equal texts: of two articles with the same text, the one that declares
  an origin gets another group than the one that came before it, and the two corroborate each
  other.

Behaviours of the models worth knowing that no run is spent on:

- A model answer whose `horizon` or `mechanism` the report contract refuses raises a `ValueError` from
  `persist_report` (`Unreportable`); the handlers of merge and split answer 400 although the
  correction was committed. `README.md:45` says that a later model failure does not misreport it.
- A repair call that fails with a provider error loses the cost of the first call
  (`ProviderFails`), although `docs/PRODUCTION_RUNBOOK.md:111` counts failed calls.
- An answer of the provider whose `message` is no object raises an exception that no handler of the
  call names (`adapters/llm.py:95`). In a pull it reaches the `finally` (`services.py:1347–1351`), whose commit
  publishes the claims and impacts the preparation has replaced, beside the report of the analysis before
  (`Escapes`); the job stays "running".
- The reports `seed_demo` writes under `openai-compatible` carry that provider's hash although they are
  deterministic, and have no job: a later request for the event reuses them.
- A date out of range (`adapters/rss.py:43`) or a URL `httpx` cannot parse
  (`adapters/http_sources.py:97`) raises what is neither an `HTTPError` nor a `ValueError`. It ends the
  pull there: the fallback is not tried, later sources are not pulled, and the run of
  the source says "running" for ever (`Escapes` of `Collection`, `crash` in `Fetch`).
- A notification is mailed twice after a dispatch was lost, by two dispatches that overlap, or when the
  sender raised after the server took the mail (`notifications.py:293–295`, `316–318`).
- A text that returns to an earlier version adds no version (`services.py:342`): the article shows
  the new title and hash beside the summary and body of the version in between.
- `merge_events` with the target among the sources deletes memberships (`Merge`, `lost`; the
  articles are in `dropped`). It takes events in any state, locked or not, and of both domains: an
  event may then show demo articles among live ones, since `event.is_demo and source.is_demo` never
  changes a flag `_find_cluster` has compared.
- `last_seen` of an event can go back: by a session that kept an older value, and in an event that a
  split made, whose `last_seen` is when an article was fetched and not when it was published.
- A page of a website or sitemap that redirects is followed to any public site, and the enrichment
  fetches the pages of entries wherever they are, both without robots rules.
  `docs/OPEN_SOURCE_BOUNDARIES.md:15` says that discovery fetches only same-origin HTML.
- One item of an API answer with a refused `origin_url` makes the whole source forbidden, while one
  with a refused `url` is skipped (`adapters/http_sources.py:165–187`).
- `deploy/remote-deploy.sh` is read by `bash -s` from the standard input its `docker compose exec
  -T` inherits (lines 123–124; `.github/workflows/deploy-production.yml:158–162`). If that command
  reads the rest of it, the deployment reports success with the old release running, and should its
  smoke test fail, the rollback goes to the release before that one.
  `docs/PRODUCTION_RUNBOOK.md:72–73` promises the previous release.
- A deployment that dies before it sets its first `current` link leaves a running service that the next
  deployment replaces without a backup, since only a current release is backed up.
- A run of the workflow that is run again after it wrote its release always ends at "Release directory
  already exists". One that finds the temporary directory of a killed attempt ends too, but its
  EXIT trap removes the directory, and the attempt after it goes on.
- A script that outlives its workflow, a rollback included, may finish after the next deployment:
  then `current` names a release that no longer runs, and a rollback goes to another release than
  the one displaced.
- A job whose request was cut by a crash or a lock timeout stays "running" until the next request
  for its event.

## 8 What is not modelled

- **Parsing and text extraction** (`adapters/article_extraction.py`, the parsers of `rss.py` and
  `http_sources.py`): functions of one document. `Fetch` has what depends on their results.
- **Details of modelled parts**: titles, and with them the limit of 200 candidates and the choice of
  the most similar one in `_find_cluster`. An analysis renames its event after the representative
  (`services.py:456–458`) and a re-fetch renames an article, so which candidate an article joins, if
  any, is left open; name resolution, which blocks the loop; registry login and image digests;
  migrations that stop half-way; switching the service to a restored database, which is the
  operator's; how much of a piped script is consumed, if not all or nothing; the upgrade by hand of
  the runbook, which moves no link.
- **How impacts, claims, prompts and reports are computed and worded**: pure functions of their
  input; what depends on their failing is in `ContractFails` and `Unreportable`.
- **Reading side** (`list_events`, `event_detail`, `system_summary`, pages, `quality.py`): changes
  nothing. What it may show is stated on the rows it reads.
- **Authentication, payload validation, headers, audit log, health endpoints** (`main.py`): no part
  of the interleavings above, except that an audit row is written after the commit it is about.
- **Company registries and maintenance scripts** (`company_registry.py`, `scripts/`): one-shot
  conversions without shared state.
- **Configuration parsing, migration scripts, templates, static files, CI.**
