# job-scraper-9000: a TLA+ verification development

job-scraper-9000 plans, scrapes, consolidates, classifies and scores job
postings for several users overnight on one workstation, uploads the scored
files to blob storage, ingests them into Postgres next to the database, and
serves them through a FastAPI application. This directory holds TLA+ models of
that program, the TLC configurations that check them, and TLAPS proofs about
them. Paths below are relative to the repository root.

## 1. Inventory

### Components, their state and operations

| component | code | state it keeps | operations |
|---|---|---|---|
| settings and configuration | `src/api/routes/settings.py`, `src/user_config/` | `app.candidate_profiles`, `app.user_search_configs` | put_profile, put_search, put_pipeline_enabled; search_config_to_pipeline_yaml, derive_policies |
| planner | `src/pipeline/planner.py` | the run directory of each user | plan_run |
| company aliases | `src/pipeline/alias_cache.py`, `resolver.py`, `cse_search.py`, `src/job_scraper/discover.py` | tables `raw.company_aliases`, `raw.company_boards` | lookup, write, resolve_and_cache, discover |
| scrape queue | `src/pipeline/queue.py`, `migrations/versions/0010_pipeline_queue.py` | table `pipe.scrape_jobs`: status, attempts, created_at per (run, user, source) | enqueue, claim_next, mark_succeeded, mark_failed, requeue_running |
| worker | `src/pipeline/worker.py`, `src/prefilter/embedding/` | `<run>/<slug>/scrape/<source>.jsonl`, the row in hand, the embedding cache | run_worker, process_job, title filter, veto, _persist |
| consolidation | `src/pipeline/consolidation.py`, `src/utils/dedup.py` | table `pipe.consolidated_postings`, the union file | consolidate_run, classify_consolidated |
| orchestrator | `src/pipeline/overnight.py` | one process: its run id and its phase | run_overnight, the signal handlers, _requeue_interrupted_run |
| email-overnight | `src/pipeline/email_overnight.py`, `src/email_scraper/` | a synthetic queue row, its scrape file, the downloads, the seen store | _run, email-enrich |
| classification | `src/agents/remote_filter/` | classified.jsonl, an analysis cache | the plan pass, the pool, the batch |
| scoring | `src/pipeline/scoring.py`, `src/agents/skills_fit/` | scored.jsonl per user, an analysis cache, the summary | score_run, _gate_user, the resume, _stamp_user_email, _score_run_batch |
| batch submissions | `src/agents/skills_fit/batch.py`, `src/utils/batch_api.py`, `src/utils/run_tracker.py` | a submission and its RunTracker; the batch at the service | submit, poll_all_until_done, collect, abort, RunTracker.\_\_exit\_\_ |
| blob ingest | `src/ingest/`, `scripts/upload_blob.py`, `infra/modules/ingestJob.bicep` | containers pending, processed, failed; tables `raw.job_postings`, `raw.job_scores` | upload, _ingest_from_blob, _move_blob, ingest |
| accounts | `src/api/auth.py`, `users.py`, `starter_set.py`, `main.py`, `dependencies.py` | the allowlist, `app.users`, example scores | startup sync, current_user, ensure_starter_set |
| applications API | `src/api/routes/applications.py`, `jobs.py` | `app.user_applications`, `app.application_events` | create, update, delete; create, update, delete an event; create a manual job |
| upcoming steps | `src/api/upcoming_steps.py`, `routes/upcoming_steps.py` | a pool connection it leaves in a transaction | get_upcoming_steps, the four check_ rules |
| scrapers and their command line | `src/job_scraper/`, `src/jobs_cli/_common.py`, `src/utils/salary.py` | files under `data/raw`, `known_failures.json` | run-config, the single-source commands, the quality gate |
| prefilter | `src/prefilter/router.py` | three output files | routing |
| evaluation, review, CI, scripts, frontend | `src/agent_eval/`, `src/review_ui/`, `src/ci/`, `scripts/`, `frontend/` | none of the pipeline's | offline tools and the client |

### How they interact

Users save settings through the API. An *invocation* of `job-scraper-9000
overnight` reads them in one SELECT, resolves the target companies through the
alias table, writes each user's artifacts and plans rows into the queue. It runs
the worker until the queue has nothing it can claim, consolidates its own run,
classifies the union and scores it per user. Invocations and the email pipeline
share the queue: a claim takes rows of any run, while the fan-in and the interrupt
handler are scoped to the invocation's own run id. The worker hands postings to
the fan-in through files, named by a row that is `succeeded`; the fan-in hands the
union to the classifier and the requested_by sets to the gate. All users and runs
share the two analysis caches. Batch scoring hands one submission per user to an
external service, polls them together and collects them in order. The uploader
reads the scored files of a run; an Azure job, triggered by the blob, ingests
them, and the API serves the tables to the account a login is linked to. The
nudges are computed from the timelines the applications API writes. The
single-user command line scrapes into a pile of files that the prefilter splits.

### What is hard

* **Interleavings.** Two claims overlap between their snapshot and their commit.
  An operator's signal is an exception between any two bytecodes of the main
  thread. API requests overlap in READ COMMITTED transactions, first logins
  included. Boards change under a scrape that pages through them; commands share
  directories and file names.
* **Failure.** A worker that is killed leaves a row `running` and a file
  truncated; a machine that dies leaves half a line in a cache. Every step of
  batch scoring may raise. A requeue may itself fail. Plans die between two rows.
* **Ordering.** Persist before mark; mark before fan-in; marker and scores
  together; a tracker closed by collect must not be closed again by abort.
* **Staleness.** Settings, policies, profiles, aliases and resumed records are
  read at one time and used at another.
* **Liveness.** Source exclusion must delay rows and never strand them; polling
  must end; a rejected blob must leave pending.

`PROJECT.json` lists every such hazard at its line, with the property that
watches it or the reason none does.

### What makes each component correct

* planner and aliases: a finished plan has a row per section of every eligible
  user, rows and artifacts come from one search; a scraper asks boards only for
  slugs a probe has confirmed, and a resolved name is never repointed silently;
* queue: one lease per row and one per source, leases end or are given back,
  finished rows stay finished;
* worker and fan-in: a succeeded row has a complete file, what is missing from it
  was excluded or vetoed with the system's consent, the fan-in holds the postings
  of the succeeded rows of its run and only them, once per key, for all who found
  them;
* email-overnight: what it enriched is fanned in, and a link costs one browser
  visit;
* classification and scoring: a scored file holds exactly this attempt's survivors,
  each answer was asked for that posting, context and profile, and is bought once;
* batch scoring: each tracker is exited exactly once, each user is counted
  exactly once, failures stay with their user, the phase ends;
* blob ingest: every uploaded blob ends in processed or failed, a processed blob's
  records stand in the tables, newer scores are not overwritten by older ones, and a
  rejected blob writes nothing;
* accounts: a subject has one row for ever, nobody is marked as handled with an
  empty feed;
* applications and nudges: the timeline's transitions form a chain that ends in the
  application's status and dates it; no event without its application; the nudges
  name exactly what has been quiet for too long;
* scrapers: a paged scrape brings home what the board held, and what a command
  wrote reaches exactly one of the prefilter's outputs.

## 2. Plan

| order | module | kind | status |
|---|---|---|---|
| 1 | `ScrapeQueue` | the table and its SQL statements | done |
| 2 | `Overnight` | composes the queue with invocations, files and fan-in | done |
| 3 | `JobLedger` | abstract specification that `Overnight` implements | done |
| 4 | `BatchScoring` | batch scoring and the tracker protocol | done |
| 5 | `BlobIngest` | uploader, containers, replica with retry, tables | done |
| 6 | `Applications` | concurrent requests on an application and its timeline | done |
| 7 | `Accounts` | logins, links and the starter set | done |
| 8 | `UserConfig`, `AliasTable`, `Planning` | settings, resolvers and the planner, composed | done |
| 9 | `AnalysisCache`, `PolicyGate`, `Scoring` | caches, gate, classification and serial scoring, composed | done |
| 10 | `FanIn`, `EmbeddingVeto`, `EmailAlerts`, `EmailOvernight` | the worker's filters, the fan-in and the email pipeline on one queue | done |
| 11 | `Salary`, `Scrapers`, `Prefilter`, `Pile` | the command line, its boards and the router | done |
| 12 | `UpcomingSteps` | the nudges | done |
| 13 | `OvernightProofs`, `BlobIngestProofs`, `ApplicationsProofs`, `AccountsProofs` | the queue and its workers, ingest, timelines, accounts | done |
| 14 | `BatchScoringProofs` | the tracker protocol for any number of users | done |
| 15 | `PlanningProofs` | plans, rows and aliases for any world of boards | done |
| 16 | `ScoringProofs` | caches, gate and resumed scoring for any number of attempts | done |
| 17 | `PileProofs` | files and routing for any commands, and the stateless rules | done |
| 18 | `ApplicationsProofs`, the nudges | `NudgesDue`, `QuietTold` for any applications and thresholds | done |
| 19 | `OvernightProofs`, the e-mail pipeline | `VisitedOnce`, `VetoRatified`, `FannedIn` for any night, e-mails and policies | done |
| 20 | `PileProofs`, the paged searches | `PagedWhole` for any boards, page size and searches | done |

Modules are written to be proved about: no recursive operators, parameters as
constants with a named ASSUME, one action per operation, invariants as
conjunctions of named parts.

## 3. The models

Each module names at the top what it abstracts. `PROJECT.json` maps every
definition to the lines it models. Where a module has a definition introduced by
"A fault", the definition is a wrong variant of the one it precedes, which the
properties are known to reject.

### ScrapeQueue, Overnight, JobLedger

`ScrapeQueue` is the table: `status`, `attempts` and `inserted` (rows in
created_at order) per `[run, user, source]`, the UNIQUE triple. One operator per
helper. The connection is autocommit, so a statement is one step, except the
claim: its subquery takes a snapshot and locks the row it picks, the UPDATE
commits later, and `ClaimBegin` / `ClaimCommit` of `Overnight` are these two
instants, with `Locked` the rows of claims in flight (SKIP LOCKED).

`Overnight` has a set `Procs` of invocations, each with the run id `RunOf[p]` its
CLI minted (minute resolution: two may share one), and the phase `pc[p]`:

| phase | code |
|---|---|
| `plan` | plan_run's enqueue loop, `planned[p]` rows done |
| `work`, `claim` | run_worker between jobs; a claim in flight |
| `scrape`, `write`, `mark`, `fail` | process_job before and inside _persist; mark_succeeded, mark_failed about to run |
| `consolidate`, `upsert` | consolidate_run before its SELECT; `batch[p]` rows left to upsert |
| `score` | classification and scoring |
| `stopping` | _OperatorInterrupt caught, requeue about to run |
| `off`, `done`, `dead` | not started; returned; exited otherwise |

`file[j]` is the row's scrape file (none, partial, whole) and `merged[r]` the rows
whose postings are in consolidated_postings. Faults are constants: `"interrupt"`
(a signal), `"crash"` (SIGKILL, power loss, an exception nobody catches, a second
signal in the handler), `"requeue"` (the requeue fails). A claim in flight when
its process stops may or may not commit (`ClaimOutcome`). `Overlap` says whether
an invocation may start while another is alive: the documented use is one process
(queue.py:18-21), the lock-free file system and the CLI enforce nothing.

Abstracted: what postings are in a file (`EmailOvernight` has them); the payload,
error and timestamp columns; --scrape-only.

`JobLedger` is the promise: a row is planned once, leased from pending while no
row of its source is leased, finished once from a lease, given back only while
leased. `LedgerSpec` is its INSTANCE with the table's `status`.

### UserConfig, AliasTable, Planning

`UserConfig` has the pure part: what search.yml and policies.yml say for a search
(`PipelineSearch`, `DerivePolicies`). `AliasTable` has the table `alias`, the world
of boards `live` (which pairs of board and slug answer) and the history `verified`
(which have answered a probe). `Candidates` are the resolver's heuristics over the
words of a name; `Resolutions` is the set of results a resolution may come to when
the probes in `lost` do not answer in time; `Collides` / `WriteAlias` are
AliasCache.write after its SELECT.

`Planning` composes them. `planner[p].pc` is where plan_run is: `lookup`, `select`,
`upsert`, `board` (resolve_and_cache, one statement each), `user`, `policies`,
`profile`, `enqueue`. Each of the three artifacts is opened, which empties it (`Truncate`), and then
written (`WriteText`), and the planner may die in between: the file stays `Torn`. `snap` is what its one SELECT of users returned. Saves of the settings
page, moves of companies, `Discover` and `Die` interleave with every step. `Scrape` is
load_config of a worker: the slug is looked up when the row is worked, not when it
was planned. `snaps`, `finished` and `cut` (files a planner died at, until they are written again)
are history.

### AnalysisCache, PolicyGate, Scoring

`AnalysisCache` is the append-only file and its torn line. `PolicyGate` is
_gate_user's verdict over a posting; a restriction is the tuple of what each of
_resolve_restriction's readers makes of it.

`Scoring` is one process, `job`: `classify` with `todo` (misses), `flight` (calls of
the pool or of the batch) and `results`; then per user `gate`, `score`, `stamp`. An
answer remembers what it was `asked` for. `Start` begins an attempt for the same run
id or a fresh one, with settings and profiles that may have changed since.
`Interrupt` writes what skills_fit has collected; `Die` cuts a rewrite of the scored
file at a prefix; `DieInAppend` tears a cache. With --batch only the classification
is here, the scoring is `BatchScoring`'s. The users still to be scored are the set `job.users`,
taken in the order of their e-mails (`Earliest`), and a file of records is a set: the
order of its lines decides nothing a property is about.

### FanIn, EmbeddingVeto, EmailAlerts, EmailOvernight

`FanIn` is dedup_jobs as a fold (`Place`) and the search contexts attached after
it. `EmbeddingVeto` has the precedence of the switches (`Enabled`), the ranking and
the cut. `EmailAlerts` has what a pull leaves on disk, which files are selected, and
what a visit may yield.

`EmailOvernight` puts a worker and the email pipeline on one `ScrapeQueue`, with rows
already planned. The worker goes `claim`, `scrape`, `filter`, `embed`, `persist`,
`succeed` or `fail`; the email pipeline `pull`, `select`, `loop`, `visit`, `hand over`,
`enqueue`, `succeed`; both then `read`, `upsert`, `consolidated`. A claim is one step
here. `lost` counts the crashes of the email pipeline (a torn append twice: it takes
the next line with it), which is what `VisitedOnce` allows for. `scraped` is history:
what a row's search found, for `Justified` to compare the row's file with. Where the code
sorts, the models use `Orders`: a set in the order of a relation (`InOrder`), and the
entries of a sequence at given positions (`Pick`). The named assumptions say what the
configuration's own checks and the table's constraints do: addresses and sources are
unique (`RanksOK`), a depth is a percentage (`PoliciesOK`), the night's rows are rows of the
night's run (`NightOK`); `OffersOK`, `OptionsOK` and `AlertsOK` type the rest.

### BatchScoring

The three phases of `_score_run_batch` with the loop index and the step inside
the body (`phase`, `step`, `i`), the bookkeeping (`pending`, `open` for
open_submissions, `polled`/`batches`, `aborted`), and per user the tracker
(none, open, closing, exited), the run records it wrote, the service's batch, the
output file and the summary entries. `closing` is the instant between
`_closed = True` and the tracker's `__exit__`. A user stands for its submission.
`Faults` says which steps may raise; `telemetryDown` is drawn at the start, because
what makes _finalize_telemetry raise (the pricing table) is the same for all.
`Signal` may strike anywhere in the `try`, `SignalAgain` inside the handler. The
batch service is external: it ends each batch in one of four statuses within its
24 h window. `blamed` is a history variable for `FailureIsolated`.

### BlobIngest

A blob is its position in name order: names start with the run's date, and the
operator uploads runs in that order. `Content` fixes what each blob holds. The
three containers are sets (`pending`, `processed`, `failed`); `upNext` is where
upload_run is in its walk, and a failing `az` starts the run's upload over
(`UploadFails`). The replica (`pc`, with `listed`, `cur`, `target`) lists pending once
and takes its blobs in name order: `Take` downloads and reads one, `IngestRejects`,
`IngestExits` and `IngestCommits` are the three ends of the transaction,
`MoveUploads` and `MoveDeletes` the two calls of _move_blob. `ReplicaDies` may
strike between any two of them. The tables are reduced to which blob inserted a
posting and which wrote a score last. Azure's part is external: one replica at a
time, started while pending is not empty, run again from the top after a failure
(ingestJob.bicep). A record without dedup_hash is left out: the fit stage refuses
such a posting, so no scored file holds one. A record may be one Postgres refuses
(`storable`): the salary columns are INTEGER and JobSpy's amounts are multiplied
without a bound.

### Accounts

`users` has the row of each e-mail (role, linked subject, marker), `scores` whether
example or real scores are there, `req[r]` a request's way through current_user:
`find`, `link`, `starter`, `feed`, `mark`, `commit`. What a request reads is what
others have committed; `Link` waits for the row's lock, evaluates its WHERE again,
and waits for a link of the same subject in flight (the unique pair). Its writes
appear in `Commit`. `StartServer` syncs the allowlist, in the bypass it does not;
`StopServer` rolls open transactions back. Which principals a browser may present
is a constant: a subject with two e-mails, an e-mail with two subjects.

### Applications, UpcomingSteps

One user's application for one posting: `app` is its status (or no row), `events` its
timeline, `scored` the row that makes POST /jobs a duplicate. A create or a patch
is `Begin` (the transaction's now(), which becomes occurred_at) and its statements
`Read`, `Write`, `Emit` and `Commit`, with any other request's between them. Only
`Commit` shows the others anything: `pending[r]` is the event in the transaction, and what the
write put in the row follows from `req[r]` while `Holds(r)` says that it has the row's lock (or
the key of the row it inserts), for which other writers and deletes wait. A patch
whose row is gone finds nothing and goes on (`found[r]`); its event then needs a row
that another request has committed (the foreign key), and takes a share of it
(`Shares`). `Missing` and `Fail` are the ways a request ends without effect, before any
statement and before the COMMIT. The handlers that decide in a statement of their own
are single steps. `since` (when the application entered its status), `author` (whose write
the row shows) and `spoiled` are history variables. `spoiled` names what puts a timeline out of
step: a commit on a read that is no longer true, a commit dated before the one it
follows, the event of a patch that wrote nothing, a manual job's status, a transition written, moved or
deleted by hand. Requests that merely overlap spoil nothing, and a deletion ends its effect.
Each request is taken to begin a transaction of its own, which the nudges' endpoint
can break: that is `UpcomingSteps`' subject.

`UpcomingSteps` has several applications and a clock; a request is one tick. The
four rules are operators over the timelines. `open[c]` is the begin of a transaction
that `GetUpcomingSteps` left on connection `c`; the next request on `c` is dated with
it. `entered` and `submitted` are the truth the answer is compared with, and
`misdated` remembers that a transition got another date than its request's, or was
edited by hand.

### Salary, Scrapers, Prefilter, Pile

`Salary` decides between what the regular expressions found; `Scrapers` has the
searches of a YAML file, what each scraper makes of an ad, and the quality gate;
`Prefilter` routes over sets of words. `Pile` composes them: commands (`run-config`
or single-source) go through their searches, `request` pages, open one `cards` at a
time, are refused (`BoardGone`, `LimitLinkedIn`, `SelDetailGone`, and `RequestFails` for a list or a detail page),
`check` the gate, and `open`, `write`, close a file whose name is directory, minute,
source and slug. A long file reaches the disk in pieces (`Flush`), a command may be
killed, the skip list is read, cut to nothing and written in three steps. The
prefilter lists, reads and routes while they run; boards publish and withdraw ads. What
it has read and what it has routed are sets: each posting is judged by itself.
A card without an id (`HasId`) is passed over, a search that asks for nothing makes no
request (`NothingAsked`), and a limit below zero, which would behave the same, is left
out (`SearchesOK`). `BoardsOK` is what a board is: it lists an ad with an id once, and a
new ad has a new id.
`landed` (the files written to their end) and `filter.since` (those that had landed
when the prefilter started) are history. A search that opens a file of the same name
truncates it, and takes the file out of both: what is there afterwards is its own,
and the prefilter may have read the file while it was empty.

## 4. The runs

| run | instance | shows |
|---|---|---|
| `overnight_serial` | 3 invocations, 2 run ids (one repeated), one user on 2 sources, no overlap, crash + interrupt + failing requeue | types, `SourceSerialized`, `SucceededFileWhole`, `MergedRowsSucceeded`, and the refinement `LedgerSpec` |
| `overnight_overlap` | 3 overlapping invocations, 2 run ids, one source, no faults | `LeaseExclusive`, `ScrapedOnce`, and under fairness `RowsSettle`, `InvocationsEnd` |
| `planning` | 2 users, 2 serial plans of one run id that may die at any statement and inside any write of a file, 1 save, 1 move or discovery, 3 searches in 3 combinations, 3 worlds of boards; 3.0 million states | `ScrapesVerified`, `PlanComplete`, `RowsMatchFiles`, `NoRepoint` |
| `scoring` | 2 users, 2 postings, 3 attempts with or without --batch, 2 threads, 1 fault, 1 failed call | `ScoredWhole`, `ServedRight`, `BoughtOnce` |
| `email` | 2 users, 3 planned rows, 2 alerts with 3 links, 6 scenarios of veto switches and lives, 1 crash or interrupt | `FannedIn`, `VetoRatified`, `VisitedOnce` |
| `batch_scoring` | 3 users, every fault, a lost run record included, up to 2 signals; 1.7 million states | one record per tracker, the summary is true, failures are isolated, trackers are exited, the handler reaches what is registered, the phase ends |
| `blob_ingest` | 6 blobs of two runs: good, truncated, unknown user, empty, refused; 3 faults | a stored blob is never in no container, processed records stand and older scores never return, rejected and half-ingested blobs write nothing, and every blob not behind a refused one leaves pending |
| `accounts` | 2 lives of the server, 2 requests in flight, 3 logins, 3 addresses, 2 subjects, one e-mail that rotates | `SubjectOneRow`, `StarterNotEmpty`, `LinkStable` |
| `applications` | 4 requests of any kind, 2 statuses, overlapping, waiting and failing between any two statements | an unspoiled timeline is a chain ending in the status and its date; always: no orphaned events, neither status nor event of a request that has not committed |
| `upcoming` | 2 applications, 5 statuses, 2 connections, 5 ticks, thresholds of 1 and 2 | `NudgesDue`, `QuietTold` |
| `pile` | 2 commands and the prefilter, 9 scenarios, pages of 2, 2 minutes, 2 changes of a board, 1 refused request | `PagedWhole`, `LandedRouted` |
| `accounts_first` | 1 start, 2 requests | **violation** of `RefusedOnlyWhenForeign`, see below |

**Bounds.** Two rows contend for a source as soon as two runs plan one row each,
and a third invocation is the smallest that reruns an id while another run's row
is pending, so three invocations and two run ids reach: a row orphaned by a
crash, requeued by a later invocation of its id, resumed by an invocation of the
other id, and planned again. No counter is bounded by a guard there: plans,
invocations and signals are finite. Three users give a submission before, at and
after the failing one; two signals reach a signal inside the handler. Three faults
let a replica die after the commit, again after the upload of the next attempt, and
once more behind an upload started over; two runs of one key are what an older score
needs to come back. Four requests make an application, a patch
of it, its end and its new start, in any overlap; dates a user enters are before everything or now. Two plans are a dead
one and its repetition; one save and one change of the world fall anywhere between
their statements, and a company of one word has a slug, an acronym and two boards
to move between. Three attempts are a cut one, its resumption and a resumption after
a change of profile; the day's local file holds a posting that both users are
scored on. A batch of three postings is what a cut of 50 or 67 percent needs to drop
one or two. Five ticks with thresholds of one and two leave room for a move, a
follow-up, a leaked transaction, a misdated move and the answer. Pages of two over
boards of two to four ads give a full, a partial and an empty page; two changes
move an ad across a page border and back. Symmetry is used in `upcoming`, over
applications and connections, and in `applications`, over requests and statuses, where nothing
orders or names any of them.

**Preconditions inside properties.** `PagedWhole` expects LinkedIn's first
max_results ads unless a request was limited, ads went away, or the ads that came in
while it read and those without an id are together enough for a page: a page without a
new id ends the loop (linkedin.py:143), and that many can make one up.
`TimelineTellsStatus` and `TimelineChains` hold while the timeline is not `spoiled`,
`NudgesDue` and `QuietTold` while no transition is `misdated`, and the modules name what
does either. `NoRepoint` is run, and proved, for planners and discoveries one at a time: two of them may
each decide on a row the other has overwritten since. `RowsMatchFiles` is about run ids
planned from one state of the settings: a repeated plan after a save writes new
artifacts next to old rows (ON CONFLICT DO NOTHING). It also lets a file be torn while a planner
is writing it, and after one died there until the file is written again; section 4 ends with
what workers make of that. `FailedLeavesNothing` leaves one case, `NoEventWithoutWrite` below. `BlobsSettle` excepts what sits
behind a blob the tables refuse. `EmailOvernight` is run with the pipelines one after
the other: side by side, a worker may lease the email row between its enqueue and its
mark and fail it after, and nothing promises that it does not.

**Fairness.** `FairSpec` of `Overnight` is weak fairness of the steps of each
started invocation: the loop is sequential code whose scrape and database calls
return or raise. Nobody is obliged to start one, so liveness is about started
invocations and enqueued rows, and in the run without faults: a crash may strand
a row. In `BatchScoring` the process
runs (`WF(Work)`, which forces no exception) and the service ends every batch (`completion_window="24h"`);
no signal is ever required. In `BlobIngest`
the replica keeps going and is started again while pending is not empty (the
scaler polls every minute); uploads are never required, and faults are bounded, so
liveness is about what happens once they stop. The other modules have safety
properties only and no fairness.

**Deadlock** is not checked: every one of these systems really stops (returned
invocations, an ended phase, an empty container, no more requests, a finished
pile).

### What the documents say and the code does not keep

`accounts_first` checks what a comment says of a refusal (users.py:130-132): "either
startup sync never ran, or the email's row is already linked to a different external
id". A page of a new member sends two requests; both find no row of the subject, the
second waits in the UPDATE, finds the row linked to its own subject, and is denied.

The following promises are stated as properties at the end of their modules, under
"promise the code does not keep". No run checks them; each is violated, in a
few steps, as described, when it is put into a configuration of its module.

* *One running row per source* (queue.py:8-9, "source-serialization enforced in the
  SQL (<=1 in-flight per source globally)"). `SourceSerialized` with `Overlap`: SKIP
  LOCKED hides only the locked row, and the NOT IN subquery reads a snapshot in
  which it is still pending, so two claims lease two rows of one source. Two
  overlapping invocations (`MCSharedSource`, `MCRunOf2`) suffice.
* *Aborts leave no blockers* (queue.py:134-135, `AbortLeavesNoBlocker`).
  requeue_running takes the interrupted run's rows; an older run's row that the
  invocation was working on stays running, and its source blocked.
* *Rerunning the same date can resume* (README.md:139, `ResumedRowFannedIn`). The
  command has no --run-id option: the rerun scrapes the requeued row into the old
  run's directory and consolidates only its own run.
* *Every submission ends in one collect or abort* (scoring.py:696-698,
  `NoTrackerLeaks`). A signal after submit_skills_fit_batch returned and before
  scoring.py:715 registers the submission leaves its tracker open.
* *A bad record dead-letters its blob alone* (upload_blob.py:8-10,
  `BadRecordStaysAlone`). A row Postgres refuses is answered with sys.exit(1)
  (ingest/cli.py:51): the blob stays pending, and so does everything after it.
* *Every status change emits an event* (specs/application_activity_tracking.md:85,
  `EveryChangeTold`). create_manual_job (jobs.py:353) upserts a status and emits
  nothing; and a patch to the status it has read emits nothing although another request has
  changed it since. Two overlapping creates that both read no row tell two entries into the
  funnel, and of two overlapping changes the one committed last may be dated first, so that the
  alerts take the other one for the current status.
* *The status and its event commit atomically* (applications.py:40, `NoEventWithoutWrite`).
  A patch reads its row, the row is deleted, the UPDATE finds nothing; before the event
  is inserted another request makes the application anew, so the foreign key is
  satisfied. The event is committed and the patch is answered with 404
  (applications.py:194-217).
* *Each user scores against their own profile, and records the right
  profile_version* (scoring.py:27-30, `OwnProfile`). A resumed record of an earlier
  attempt is taken over whatever profile it was scored with (io.py:72,
  runner.py:352-357).
* *The newest .eml files* (process_eml_directory.py:91, email_overnight.py:297,
  `TakesNewest`). The choice is by modification time, and the grabber saves Gmail's
  newest mail first (gmail_eml_grabber.py:68-104), so of one pull the oldest mail has
  the newest file.
* *Only boards that do not exist are skipped for good* (skip_list.py:12,
  `OnlyDeadBoards`). An SEL ad withdrawn between the list and its detail page answers
  404 (sel.py:106-107), and the command records the whole source
  (skip_list.py:44-50, cli.py:438-441).

What else the models show of the code without a document saying otherwise:

* A planner that dies inside write_text leaves a file empty or cut beside rows of an earlier
  attempt, which workers go on claiming: an empty policies.yml is read as no policy at all
  (worker.py:460-470, `or {}`), an empty search.yml or candidate_profile.yml fails the veto's reference
  texts (worker.py:258-300). A plan of the run id that comes past the user heals it.
* RunTracker.\_\_exit\_\_ swallows a failure to write its record (run_tracker.py:283-286): a tracker
  that was exited may have none, so `RecordedOnce` is "at most once", and a scored user's run may be missing from
  the records (`SummaryTrue`).

Two more errors are part of `UpcomingSteps`' steps. With a settings row the endpoint
asks the row for `post_application_nudge_days`, which its SELECT does not name
(routes/upcoming_steps.py:119-135): every such user gets an error, `answer.how =
"error"`. And it reads the follow-ups after the connection went back to the pool
(:139-150): the transaction that begins there dates the next request on that
connection. The `sel` command reads an argument its parser does not define
(cli.py:323) and always ends there (`LoadArguments` of `Pile`).

## 5. The proofs

TLAPS proves the following for every value of the constants that satisfies the
modules' named assumptions.

The models write `[s EXCEPT !.f = ... @ ...]` with `s` a name, never with another `@`
in its place: TLC and tlapm 1.4.5 differ on an `@` nested in `[@ EXCEPT ...]` (tlapm takes
the field twice), so what would be proved is not what would be checked.

`OvernightProofs` (every set of invocations, runs, users and sources and every plan;
assumption `ConstantsOK`):

| theorem | assumption | statement |
|---|---|---|
| `TypeCorrect` | none | `[]TypeOK`, any overlap and any faults |
| `SerialSources` | no overlap | `[]SourceSerialized`, any faults |
| `ImplementsLedger` | no overlap | `LedgerSpec`, any faults |
| `FilesWhole` | no overlap | `[]SucceededFileWhole`, any faults |
| `FanInSound` | no overlap | `[]MergedRowsSucceeded`, any faults |
| `ExclusiveLease` | no interrupt, no crash | `[]LeaseExclusive`, any overlap |
| `ScrapedAtMostOnce` | no interrupt, no crash | `[]ScrapedOnce`, any overlap |

Every assumption is needed: overlap violates `SourceSerialized` (section 4), and an
interrupt lets another invocation of the run id take a leased row back.

*Leases.* `SourceSerialized` is not inductive: a lease may violate it unless the
picked row still has no running sibling when the UPDATE commits. `LeaseInv` adds
`ClaimFresh` (that fact, from the snapshot on), `OneLive` (nobody else can disturb
it) and `HoldsLease` (the row of process_job stays running, needed for the
ledger's Finish). `EmptyHandedStep` and `JobStep` handle the actions that
touch no lease. The refinement follows: each statement is one ledger action
(`EnqueueIsPlan`, `LeaseIsLease`, `MarkIsFinish`, `RequeueIsGiveBack`).

*Fan-in.* `FanInv` adds `FileReady` (the file is whole when mark_succeeded is
about to run) and `BatchSucceeded` (rows read and not yet upserted stay succeeded);
both rest on finished rows staying finished, hence on `HoldsLease`.

*Exclusive leases.* `ExclusiveInv`: a process has a row in hand exactly from the
lock to the mark, two never the same one, the row's status is what the phase
says, every running row is in a hand, and attempts counts the lease.

The same module has the worker's filters and the e-mail pipeline (every planned night,
user, policy, set of postings, e-mails and options that satisfies the assumptions of
section 3, any number of lives and faults):

| theorem | assumption | statement |
|---|---|---|
| `EmailInvHolds` | none | `[]EmailInv`, the types of the pipelines, files and records |
| `VisitedOnceHolds` | none | `[]VisitedOnce`, the pipelines side by side or not |
| `VetoRatifiedHolds` | none | `[]VetoRatified`, the pipelines side by side or not |
| `FannedInHolds` | the pipelines are not alive at once | `[]FannedIn` |

The last assumption is needed: side by side, the worker can lease the e-mail row and
fail it after its postings are in the union.

*Visits.* A link may be visited again only for a loss. `VisitsPaid` keeps the account:
the visits of a link are at most `lost` plus one, and the one more is paid for by
the record of its e-mail or by the run that has passed the link and will write it. A
torn line owes the next record (`Owed`), which is why a torn append counts twice.
`LinksLeft` and `RecordsKnown` say that a run is at the link it says and knows each record.

*The veto.* `InVeto` carries `Justified` from the search's result through the title
filter, the ranking and the file to the row's mark; `RowsJustified` says it of the
succeeded rows, whose files and settings no step touches again. The step that needs an
argument is `Embed`: `VetoDrops` says that ranks are the places in a strict order, hence
each taken once (`RankIs`), that what is dropped is the far end of it, and that
`DropCount` is no more than the depth's share.

*The fan-in.* `HandoverInv` says that while a run is fanned in the union is
`Canonical` of its succeeded rows' files, that a key of it has its table row or is still
to be upserted, and that the e-mail pipeline's file holds what it handed over. What
remains is what `Canonical`, a fold, yields for every sequence. The library's induction
schemas cannot be instantiated, but its theorem on minimal elements of a well-founded
relation can: `LeastOf` gives a least counterexample among the lengths, and the step of
the fold excludes it. Sorted sequences and sums are treated the same way.

`BlobIngestProofs` (every content of the blobs that satisfies `ContentOK`: names sort
by run, blobs of one run share no user; any number of faults): `TypeCorrect`,
`BlobsKept` (`NothingLost`), `ProcessedForGood` (`[]ProcessedStands`) and
`WholeBatches` (`[]AllOrNothing`).

*Older scores.* `ProcessedStands` is not inductive: the transaction of a blob of an
older run would overwrite. `OlderGone` says that nothing of an older run is pending
once a newer blob was taken; it rests on `OlderListed` (what is older and pending is
in the listing of the running replica, which is in name order) and on
`UploadsInOrder` (a restarted upload repeats its own run only). `CommitKeeps` is
the step that matters: a newer run may overwrite, the same run has other users.
`Written`, `Sorted` and `Moving` follow a blob from the commit to its container.

`ApplicationsProofs` (any number of requests and statuses, `ConstantsOK`):
`TimelineTrue` (`[]TimelineTellsStatus`), `TimelineChained` (`[]TimelineChains`), and,
whatever overlaps or fails, `EventsBacked` (`[]NoOrphans`) and `FailuresLeaveNothing`
(`[]FailedLeavesNothing`).

*Timelines.* `NoOrphans` and `FailedLeavesNothing` are not inductive: whether an event may be
committed depends on statements ago. `Stepwise` says where each request is in its
transaction: one that has not written counts as having found its row, an event is pending
exactly from the `Emit` of a change to the COMMIT, and where the request's own row does not back it
the row it shares is there, since deletes wait. `CommitInv` is the step that matters: if
its read is still true and its begin later than the last change, the event it commits starts where the
chain ends and is dated last; otherwise the timeline is spoiled. `QuietInv` handles
the steps that touch neither the status nor a transition, `ByHandInv` edits, and
`SpoiledInv` what is left to show once a timeline is spoiled.

*Nudges* (any postings, connections, thresholds and horizon; `DefaultsOK`): `UpcomingInvHolds`,
`NudgesDueHolds` (`[]NudgesDue`) and `QuietToldHolds` (`[]QuietTold`). The rules read
transitions, the properties compare with the history. `Tells(j)` is the bridge, and
holds while nothing is misdated: the transition to the present status is dated
`entered`, no other as late; one to `applied` is dated `submitted`, and none later. So the
newest transition is the status and its entry (`LastTold`), and each rule counts from
the right date. Each request keeps `Tells` because the tick it takes is later than every
date in the timeline.

`AccountsProofs` (any sets of e-mails, subjects, principals and requests, any number of
restarts and logins; `AccountsAssumption`): `TypeCorrect`, `OneRowPerSubject`
(`[]SubjectOneRow`), `HandledHasFeed` (`[]StarterNotEmpty`) and `LinksStay` (`LinkStable`).

*Links and feeds.* None of the three is inductive: a commit writes what its request
decided on some statements ago. `Sound(r)` says of each request what still holds
then: `Known` (the row it read has not changed in the parts it relies on), `Held` (a
link in flight owns the row's lock, and the row is free), `Feed` (a request about to
mark has seen scores or brings them). `Apart` says that no two links in flight are of
one subject, and none is of a subject that has a row, which is what the unique pair
makes `Link` wait for. With these, `Commit` is the only step that needs an argument,
and each other action preserves `Sound` because locks keep the others off the row.

`BatchScoringProofs` (any number of users and signals, any set of faults;
`ScoringConstants`: user rows are distinct): `InvHolds`, `RecordedOnceHolds`,
`SummaryTrueHolds`, `FailureIsolatedHolds`, `TrackersExitedHolds` and
`DrainReachesRegisteredHolds`, each `[]` of the property it is named after.

*How far everybody is.* None of the five is inductive: that no tracker is exited
twice, or that a user gets one verdict, depends on which users the loops have passed.
The invariant says so per phase: in `Submission` the users before the index are
`Waiting`, `Skipped` or `Rejected`, the one at it is `Submitting`, those after it are
`Fresh`; in `Aborting` and `Collection` the registered ones before the index are
`Aborted`, `Failed` or `Scored`, and the one at it is `Collecting`, which fixes tracker,
record and output for each step of the loop's body. `Retrieved` and `Answered` carry
the polling's result to the collection: what was retrieved was terminal, and nobody
waits for a batch that was not. `Draining` is the same for the interrupt's handler.
The frame lemmas say that a step moves one user (`Kept` for the others), so a step
needs an argument for one user only.

`PlanningProofs` (any users, planners, run ids, searches and worlds of boards;
`PlanningAssumption`: settings are those the API accepts, no section is `None`, boards
that answer do so under some slug): `InvHolds`, `ScrapesVerifiedHolds`,
`PlanCompleteHolds`, `RowsMatchFilesHolds`, and, for planners and discoveries that do
not overlap, `NoRepointHolds`.

*Plans that die.* A row is planned in one statement and its user's artifacts in two
before it, by any of several plans of the run id. `Sourced` says that a row comes from
some snapshot of its run and stands behind its user's artifacts; `Written`,
`Policied` and `Profiled` that each artifact comes from a snapshot too, or is torn. `Placed` follows a planner:
the users before it are served (`Behind`), the one at it has the artifacts it is past and a row for
all but the sections in `todo` (`Amid`), and it has no file open but the one that is due
(`Opened`). `Explained` accounts for torn files: a planner has opened each of them or has died at it. With one snapshot per run these
are the same search, which is `RowsMatchFiles`; `PlanComplete` follows when the
last user is behind. *Aliases.* `Trusted` is confirmation on the way: a result in a
planner's hands is as verified as one in the table, since a board that has
answered stays in `verified`. `NoRepoint` needs `Alone`: the row a planner read before
its upsert is the row it overwrites. Two planners break that, hence its assumption.

`ScoringProofs` (any users, any finite set of postings, any attempts and threads;
`ScoringAssumption`): `InvHolds`, `ServedRightHolds`, `ScoredWholeHolds`,
`BoughtOnceHolds`, and the operator theorem `WillingKeepsMore` (a more willing user
loses no posting to the gate).

*Whose answer it is.* `ServedRight` says that a record of this attempt holds the
answer to its own question. An answer passes through a cache file that may have
been torn, the copy of it in memory, the pool's results and the output: `Caches` says
that an entry was asked for the key it stands under, `Lines` that the classification
is of this attempt's union, `Records` that an output has one record for a posting and those
of this attempt are its user's. *Wholeness.* `Pool` says that, while a user is scored,
each of their postings is to do, in flight or a record, and no two of these; so an empty pool
is a whole file, `Served` keeps it whole until the next attempt. *Money.* `BoughtOnce`
is an action property: `Bought` says that what was answered is a hit in its cache and
not to do, so a step can ask only for what was not.

`PileProofs` (any commands, boards and scenarios; `PageSizeOK`, `BoardsOK` and
`SearchesOK`, which only the paged searches need): `InvHolds`, `LandedRoutedHolds`
(`[]LandedRouted`), `PagedInvHolds` and `PagedWholeHolds` (`[]PagedWhole`), and two theorems
about operators:
`ReadSalaryPlausible` (a salary read from a description is within the yearly bounds and
in order, hourly rates included, after conversion and rounding; the pay columns
JobSpy returns pass no such test) and `BansOnlyReject` (more banned terms only move
postings to the rejects).

*Files that land.* `Named` says that the file a command writes is the one its name
says, and that two commands on one file know it; hence `LandedInPlace`: a landed file
is whole and nobody writes over it. `SinceRead` follows what had landed
through the prefilter: still in its listing, among what it read, in one output. A file
that landed, was truncated by another search of its name while the prefilter read it,
and landed again has been read empty: it is not among those the property is about,
which is why opening a file takes it out of `filter.since`.

*Pages of a moving board.* A search remembers the listing it began with (`base`) and how
many ads came in above it since (`grown`); while none went away, the board is the one
under the other (`Under`). `PagedInv` follows the search through it. For LinkedIn,
`Got(s, n)` says that what it has seen and what it took are exactly the first `n` ads of
`base` that have an id. Between pages `n` has reached the offset but for the ads that came
in; on a page (`OnPage`) what is left of the page is a stretch of `base` that begins at
most at `n`: the overlap is passed over, since those ids are seen (`CardPlace`), and the
next ad is new or has no id. A page that yields nothing new ends the search, and then the
listing has ended too: otherwise the ads that came in and the run of ads without an id
(`BlankRun`) would fill the page, which the precondition excludes. For Workday, whose pages
are cut by the number of ads seen, `SelRead` says that the jobs are the wanted ads of
`base` up to the offset less the rest of the page. Publishing moves each listing by one
and `grown` with it (`SeesMore`); withdrawing ends the promise and keeps only that no ad is
taken twice.

**Only model-checked.** The liveness properties `RowsSettle`, `InvocationsEnd`, `ScoringEnds`
and `BlobsSettle`: the prover treats neither fairness nor ENABLED. Every invariant, action
property and refinement that a passing run checks is stated by a theorem above.

## 6. Not modelled

For good: HTML and mail parsing, regular expressions, prompts and their answers' text,
token verification, browser automation and the mailbox protocol (their outcome is
nondeterministic where a model meets them); the evaluation and review tools; the
calibration and comparison scripts; queries without a state of their own; field
validation; deployment templates and the frontend.

Left open: the contents of a batch's output file in skills_fit (its lines could be
joined with `Scoring`'s records), the alert thresholds and the grab bag of the
settings, the end-of-run summary beyond its counts, and different addresses with one
slug (worker.py:166), which would share a directory: every module takes users to
have directories of their own. The temporary YAML of default_scrape_fn
(worker.py:140) is named after its source only, which is safe as long as sources
are serialized.
