# Verification of the diagnosis service

This directory holds TLA+ modules about the service in this repository: sellers
upload products, the backend (`src/backend`, Java) asks the AI server
(`src/ai`, Python) for a diagnosis of each, the AI server runs it in a thread,
may ask the seller questions in between, and reports progress, questions, result
or failure by callbacks; the frontend (`src/frontend`, TypeScript) shows it. A
diagnosis is a pipeline: a guard looks at what came in, a model extracts the
product, six tools look up laws and cases and judge, a verification stage decides
whether they have to try again, and the result is shown as a verdict with cards.

Every module is checked with TLC on small instances (`*.cfg`), and the theorems
are checked with TLAPS for every value of the constants. Paths below are relative
to `src/`; `PROJECT.json` maps each definition to the lines it models.

Contents: [the system](#the-system), [hard behaviours](#hard-behaviours-and-what-correct-means),
[modules](#modules), [runs](#runs), [fairness](#fairness), [proofs](#proofs),
[findings](#findings), [observations](#observations), [not modelled](#not-modelled),
[plan](#plan).

## The system

| part | state it keeps | operations | what is hard |
|---|---|---|---|
| AI session manager (`ai/app/sessions`) | session per product, places, pool queue, futures | submit, submit_dev, resume, restore, expire_overdue, purge, drain, the job in a thread | event loop, pool threads and sweeper interleave; checks and actions under different locks |
| AI archive (`ai/app/db/session_archive.py`) | a row per session to bring back | save, remove, load; skipped for a while after a failure | crash between two writes, stale rows |
| AI event builder (`ai/app/callbacks/events.py`) | number, open stage and end of each run | build | late events of finished runs, retry rounds, restart |
| AI outbox (`ai/app/callbacks/outbox.py`) | a lane per product, turns, threads | put, transmit, retry, close | order per product, retries, shutdown |
| AI guard, page, pictures, extraction (`ai/app/diagnosis/guard.py`, `agents/input_guard`, `agents/image_triage`, `agents/extraction`, `pipeline/image_split.py`) | one run's input | judge, fetch, choose and cut pictures, cut the page, clean the model's flags | partial failures, limits, order of rules |
| AI pipeline (`ai/app/pipeline`, `ai/app/agents/verification`) | findings, results, history of a run | extract, select, run tools, aggregate, verify, retry, stop | parallel tools, what a retry keeps, stop rules |
| AI job (`ai/app/diagnosis`) | rounds, questions, answers of a product | run, ask, resume, close at the limit | keys of questions are positions in a list built anew |
| AI tools (`ai/app/tools`) | one run's facts and rows | extract, search, review, conclude | a model that says anything, rules that must hold all the same |
| AI evidence (`ai/app/tools/*/evidence.py`, `tools/common`) | the evidence of a day, cached per tool | load, parse annexes | a day that changes, tables with merged cells |
| AI law cache (`ai/app/db/law_cache.py`, `fetchers.py`) | versions and texts of laws | nightly check, read, write through | a check that fails midway, a late write, a database that is down |
| AI cases (`ai/app/db/clip_ingest.py`) | decided customs cases | weekly run, ingest by hand | a list that grows while it is read |
| AI records (`ai/app/agents/base`, `usage.py`, `observability`) | listeners, log files, trace | call, record, rotate, trace | failures after a paid call, rotation cut short |
| AI metrics (`ai/app/observability/metrics.py`) | a registry per app, open stages, sinks | subscribe, publish, count | reports and endings told by two threads, apps that come and go while others publish |
| AI presentation (`ai/app/results`) | none | decide, present | one verdict out of several reasons |
| Backend diagnoses (`backend/.../domains/diagnoses`) | product and diagnosis rows | create, answer, retry, remove, callbacks, three schedulers | lost answers, callbacks before the run id is known, clean-up against late callbacks |
| Backend auth (`backend/.../domains/auth`) | refresh tokens | log in, reissue, log out | one-time use, two pages, lost answers |
| Backend files (`backend/.../infra/s3`) | file rows, objects | presign, confirm, delete, clean up | two steps to delete, either may fail, while others upload and confirm |
| Frontend client (`frontend/.../api/core/client.ts`, `App.tsx`) | access token, one reissue at a time | request, reissue, restore | many requests expire at once |
| Stand-in for the AI server (`loadtest/mock-ai`) | marks and attempts per product, runs | diagnose, resume, send | must send what the AI server would |

The parts talk by HTTP in both directions: backend to AI server (`/diagnose/content`,
`/diagnose/resume`), AI server to backend (callbacks). Inside the AI server the
manager hands each run to a job (`diagnosis/job.py`) in a pool thread; the job calls
guard and pipeline, and the pipeline the stages; the manager announces session
events to a listener, which turns them into callbacks and puts them in the outbox.
Manager, archive, law cache and cases share a database. The full list of components,
the ones without a model included, is in `PROJECT.json`.

## Hard behaviours, and what correct means

**Session manager.** The event loop, the threads of the pool and the sweeper
share four structures, each behind a lock of its own, and a change is stored
first and announced after the lock is gone. Correct: the counter of places equals
the runs that hold one; an unfinished session always has somebody who will
finish it; nobody's late result, stale snapshot or restart touches a newer run or
brings an ended one back; each run ends, and its end is told at most once.

**Archive and restart.** The store and its rows in the database change in one
locked step, but a write may fail (and is then skipped for a while), and the
process may die between any two steps. Correct: with a working database a restart
finds exactly the sessions that have to come back.

**Event builder.** A run's events come from different threads, some after its
end. Correct: numbers from 1 without gap, stages opened and closed in turn,
nothing after questions, result or failure.

**Outbox.** Several threads, one order per product. Correct: one thread at a
time has a product, no event is lost, duplicated in the lanes or overtaken, the
retry limit holds, and `close` settles everything.

**Backend and AI server.** An answer of the AI may be lost after the AI acted on
it; a callback may arrive before the backend knows the run id it carries, twice,
or after the product has failed; three schedulers clean up what stays behind; the
AI may have forgotten everything. Correct: the user is asked only what the AI
waits for, an answer is never refused for good because something was late or
lost, the result shown is of the AI's last run, a product always settles, the
overall status is what its products add up to. The AI server comes back from rows
that may be out of date; where it does, the first three are not kept (finding 4).

**Guard, pictures, extraction.** Some pictures cannot be read, some calls fail, and
there are limits to what one call takes. Correct: a pass means that everything that
counts was seen, or the verdict says it was not; tall pictures are covered by their
tiles; the lines of a page that are given to the model are the seller's; a "no" that
survives has a ground in the text, and what contradicts the text stays open.

**Pipeline and job.** Tools run in parallel, fail, and are run again as verification
demands; questions go to the user and come back in another run. Correct: results
and history are in the order of the tools whatever the threads do, a judgement
nobody challenged survives a failed retry, "completed" means verified, a run ends;
each answer stands beside the question the user saw, and nothing is asked twice.

**Tools.** The model may quote what is not there, choose rows that do not exist, and
contradict itself. Correct: judgements rest on confirmed quotes and on rows no rule
of the law excludes, and what is open is asked or explained.

**Laws, evidence, cases.** Sources fail in the middle, days change in between. Correct:
evidence is of its day and whole, stored lists are not replaced by worse ones,
changes of the law in force are reported, a listed case is not deleted.

**Records.** Correct: every call is told once to each listener as what it was, the
log loses only its oldest lines, a failure is traced to the step it began in.

**Metrics.** A run's worker and the sweeper each store a change first and tell of it later,
and threads publish while apps are entered and left. Correct: each run is counted and
measured once, as what it ended as; no second is measured in two stages; an app counts
what was published while it was entered.

**Stand-in for the AI server.** Tests of load and of the whole system rest on it. Correct:
the callbacks it sends of a run are those the AI server would send of the same run, and a
marked product ends as marked.

**Tokens.** A refresh token works once, and two pages share its cookie. Correct: one
token buys one pair, and a user whose answers arrive stays logged in.

**Files.** A page puts images straight into S3 and creates the diagnosis afterwards;
rows and objects are deleted in two steps, by a listener and by the hourly clean-up.
Correct: the images of a diagnosis are there as long as it is, and an object nobody uses
has a row by which it can be found.

`PROJECT.json` lists the hazards one by one, with their lines and the properties
that would notice; the one without has a note saying why.

## Modules

| module | models | promises checked against |
|---|---|---|
| `EventBuilder` | `ai/app/callbacks/events.py`: what is remembered per run and the callbacks each event becomes | |
| `SessionManager` | manager, store, capacity, updater, runner, archive and the table of statuses (`transitions.py`); uses `EventBuilder` | `RunLifecycle` |
| `CallbackStream` | the event builder alone, under events in any order | |
| `CallbackOutbox` | `ai/app/callbacks/outbox.py` | `OrderedDelivery` |
| `ProductEntity` | entities `Product`, `ProductProgress`, `Diagnoses` | |
| `DiagnosesBackend` | services, use cases, AI client, schedulers; uses `ProductEntity` | |
| `DiagnosisProtocol` | `DiagnosesBackend` composed with the AI server's promises and the network | `ProductLifecycle` |
| `Intake` | guard, page, choice and cutting of pictures, up to extraction | |
| `Extraction` | seller's region, conflicts in the listing, cleaning of the model's output | |
| `VerificationAgent`, `Pipeline` | findings, draft and verification; batches of tools and the loop of the runner | `PipelineContract` |
| `DiagnosisJob` | rounds of questions and answers over runs of the pipeline; uses `PipelineContract` | |
| `EvidenceSearch` | what five tools share: facts, confirmation, selection, conclusion | |
| `RadioTool`, `ElectricalTool`, `ChildrenTool`, `FoodDrugTool`, `CustomsTool`, `AdvertisingTool` | the six regulatory tools | |
| `LawLibrary` | versions of a law; nightly check and readers over a cache | |
| `EvidenceLoad` | evidence of a day: loader, documents, completeness | |
| `ElectricalAnnex`, `AnnexRows` | how the rows of annexes are read: of electrical goods, and of all others | |
| `CaseIngest` | weekly ingest of customs cases | |
| `AgentCalls`, `TraceRecorder` | records of model calls and their rotated log, trace of failures | |
| `Metrics` | `ai/app/observability/metrics.py` and the measurements it hears | |
| `Presentation` | verdict, cards, actions, notices | |
| `TokenRotation` | refresh tokens, two pages of a browser, the client's single call | |
| `FileStore` | images in S3: addresses, uploads, rows, deletion and clean-up | |
| `MockServer` | `loadtest/mock-ai/app.py`, compared with `EventBuilder` | |

`RunLifecycle`, `OrderedDelivery`, `ProductLifecycle` and `PipelineContract` are the
abstract specifications. `PipelineContract` is used from both sides: `Pipeline` implements
it and `DiagnosisJob` is built on it, so that the job is checked against every run
the pipeline may make. `MC*` modules give the constants of the runs, and `*Proofs` modules
hold the theorems.

### SessionManager

State and code: `sessions` is `SessionStore._sessions`; `archive` the rows of
`diagnosis_sessions`; `skipping` is `DbSkip`; `inflight`, `devRuns` are
`SessionCapacity`; `queue`, `workers` and `futures` are the thread pool and
`SessionManager._futures`; `expirers` are the sweeper and the drain at shutdown;
`door` is what the event loop is doing; `builder` and `sent` are the event builder
and what was put in the outbox; `overdue` are the runs accepted longer ago than
`SESSION_MAX_DURATION_SECONDS`.

One action is what a thread does under one lock. So a submit is `AcceptCheck`,
`AcceptAdd`, `Take`, then `Schedule` and `Register` for each run; a job is `Pick`,
`Start`, reports, `Finish`, `PublishNews`, `Release`, `Forget`; a sweep is
`Scan`, `Expire` and `PublishTimeout` for each overdue run, `Purge`. A change of
the store and its archive rows is one step (the store writes the rows inside its
lock), with every way the write may fail (`Persist`). `Crash` may fall anywhere;
`Drain` and `Exit` are the orderly end; `Restore` to `Serve` are the start.

Abstract: contents of requests and results; time (deadlines pass in any order the
acceptance times allow); refused requests, which change nothing. Product ids of
the sandbox are drawn fresh, as in `submit_dev`.

### EventBuilder and CallbackStream

`Built(builder, event, convertible)` is the list of callbacks an event becomes,
`Remembered` what the builder keeps. A result that cannot be converted becomes a
failure (`convertible` is free). Sequence numbers, the open stage and the set of
finished runs are modelled exactly, as they are what the receiver relies on.

### CallbackOutbox

`lanes` and `keys` are `_lanes` (a lane may be empty and still there), `ready` the
queue of products, `threads` the transmission threads. `Put`, `Get`, `Leave`,
`Take`, `Send`, `Wait`, `Close`, `CloseClears`, `CloseStops` are the steps under
the lock, a request, or a delay. A failed request may have reached the backend.
`sent` and `outcome` are histories.

### ProductEntity, DiagnosesBackend, DiagnosisProtocol

`rows` are the products, `overall` the status of the row of diagnoses. The
operators of `ProductEntity` are the methods of the entity, each with the guard it
throws on. A transaction of `DiagnosesService` or `ProductService` is one step,
because each takes the lock of the row of diagnoses first. A request to the AI
holds no lock and is an entry of `calls`: it is begun by a transaction, answered
(`Submit`, `ResumeSession`) and its answer handled by another transaction
(`TakeAnswer`); or it ends without (`NoAnswer`), or with an answer that never
arrives (`LoseAnswer`). Each class of outcome in the clients is kept apart:
accepted, conflict with products, not received, unknown, rejected, not found. A
restart of the backend is every open request ending as unknown. The stuck
scheduler reads ids first (`FindStuck`) and looks again under the lock (`FailStuck`).

Callbacks wait in the lane of their product and are handled in order, except
that one whose request timed out may be handled later, and again
(`TimeOut`, `HandleLate`). A reply is "ok", "refused" (the AI drops it) or
"again" (the run id is not known yet; the AI repeats it until it gives up).

The AI server is one session per product (`ai`): what `SessionManager` shows of itself
to a backend. It accepts or refuses a request as a whole (`Accepted`), takes a run up
(`StartRun`), asks, ends, lets time out what was never taken up (`Expire`) and forgets what
is old. `archive` has the row of each session as it was last written: `Persist` writes the
rows of sessions that change, or, when the database fails or is left alone, any part of them.
`CrashAI` drops sessions and lanes and restores whatever rows can be read (`Restore`), be they
current or of a run or a round long over: who waited waits again, who was accepted runs again
or is overdue and fails, who ran fails. `astray` is a history of the products that were
restored from a row that was out of date.

The rows of one request are written one by one and may be missed one by one. A removal of several
(`purge`) is a single statement in the code; the model forgets session by session.

Assumptions about time, in `Matters`: a request ends within seconds (3 s to connect,
5 s to read) and a round of a scheduler within minutes, so the 15 minutes of
the stuck threshold do not pass while a request about the product is open or
its id is in the scheduler's hands; and they pass after the 10 minutes of
`resumePendingSince`, which is set when the row changes. Without the first, a
resume that was sent again could be accepted after the product failed and was
started anew, and its run id taken for the new attempt: the row lock is what
orders transactions, but nothing except the clock orders requests. Likewise a request
the backend has given up is taken to arrive soon or never.

Abstract: texts, images, contents of questions and answers; one row of progress
stands for each stage and tool; the async executor is a set of threads that
bounds how many requests wait.

### VerificationAgent, Pipeline, PipelineContract

`state` is `PipelineState` (findings, results, history), `draft` what `aggregator.py` makes of
it, `verification` the verdict of `diagnosis/stages.py`, `previous` the snapshot
`early_stop.py` compares. `pool` is the executor's batch: `StartTool` and `EndTool` are taken
by its threads in any order, within `max_parallel`; `CollectTools` is the `result()` of the
futures in the order of submission. The ends of a round (`EndNoProgress`, `EndByStatus`,
`EndAtLimit`, `RetryTools`) are the branches of `run` in `pipeline/runner.py`, with the
order of its ifs in their guards. A stage that raises ends the run as failed.

Abstract: a tool answers with one of the answers of the instance, a claim standing for
the content of a finding; the reviewing model raises issues and questions as it
likes, or fails; the signals of a product are any set of tools, each called for or perhaps
called for (an age is stated, for whom it is unknown). Of the detailed result of a tool only
remains whose it is.

### DiagnosisJob

`questions`, `answers`, `question_round`, `result` are what the session carries from run
to run, `shown` the history of what users saw. `RunJob` is one call of
`diagnosis/job.py`: a run of the pipeline, that is an `Ending` of `PipelineContract` with
any questions of model and tools, then the rules about what has been asked before and
about the limit. `Resume` is an answer to any subset of the questions.

### EvidenceSearch and the tools

`run` is one execution, `stage` where it stands. A fact names the snippet it quotes and
whether its quote is there (`verbatim`); `Confirmed` is what `evidence_search.py` and the
rules compare. Each tool is `Start`, `Prepare`, `Extract`, `Search`, `Review` (and
`Lookup` for customs) over the same variables; each may fail where the code lets an
exception through. What the rules of a tool know beyond that is in its module: low
voltages and battery products, ages as they are written, milder and stricter
certification, the three answers about food and skin, tariff codes and the laws of the
customs annex, marks and claims of an advertisement.

Abstract: texts are sets of values, ranking of search results is any subset up to the
limits, notes and actions stand for their lines of text.

### LawLibrary, EvidenceLoad, ElectricalAnnex, AnnexRows, CaseIngest

`LawLibrary` is one law: `ministry` what is published, `stored` and `bodies` the rows of the
cache, `check` the nightly `refresh_laws`, `reader` a tool in `load_law`. A step is one call
of the ministry or one use of the database. `stored.by` says who wrote a list; the
database may go down and is left alone for a while (`DbSkip`).

`EvidenceLoad` has a `CachedLoader` with its lock (`lock`, `cached`) and two threads on
either side of midnight; documents come whole or with one edit (a missing article,
an annex without one of its rows), and the needs of each tool are those its
`evidence.py` raises about. The annex modules read a table line by line; `lines_read`,
`table` and the operators `TakeRow`, `TakeLine`, `Take` follow the local functions of the
parsers. A cell is known by its line, so that the properties can say where it ought to
go. `AnnexRows` reads the sections of the radio annex (`SectionNext`) and links the scopes of the children's notice with the items of the rule.

`CaseIngest`: `published` is the list, newest first, which goes on while its pages are
read; `withdrawn` the cases that left it; `cases` the rows stored. `ingest.began` is the list when
the run began and `ingest.crowded` whether more cases have come since than a page holds: both are
kept for the property.

### AgentCalls, TraceRecorder

`AgentCalls` follows two threads of one run through calls of chat and deciding models;
`sinks` are the listeners; a call is told to a copy of their list (`copy`).
Its other half (`LogNext`) is the usage log with its backups; a rotation may fail after some renames, a
process may die within a line, and what is written next, whole or not, joins that line. `TraceRecorder` has steps within steps, calls of models
and exceptions raised from others; `IdNext` are the short numbers that stand for ids in a
trace, counted on from earlier runs.

### Metrics

Two halves. The sessions: `runs` is what the manager stores of each run of a product with the
times it keeps, `teller` the change a worker or the sweeper has stored and has yet to tell,
`stages` is `_stages`, and `series` the samples. A stage is closed and the next one opened in
two steps, as the lock is given back in between. The measurements: `listening` are the sinks,
`publishing` the copy of them a thread goes through, `registry` the registry of each app,
`gauges` the times of the last success; `heard` and `published` are histories. A record is
counted by `Counts` under all the labels `on_record` gives it. Buckets of histograms, the
label that tells dev runs from others, and the collectors that read a snapshot at scrape time
(sessions, memory, circuit breakers) are left out.

### MockServer

`markers` are the marks in the text of the product, `known` is `e2e_markers`, `attempts` is
`e2e_attempts`, and `mock_runs` the runs with the callback each is sending (`event`) and how
often it was tried. `Plan` is `_e2e_plan`, `ProgressSteps` is `_progress_steps`, `Send` one
pass of the loop of `_send`. The properties build the same run with `EventBuilder` and compare
callback by callback. Refusals by chance, waiting times and wording are left out.

### Extraction, Intake, Presentation

`Intake` is what happens up to extraction: verdict of the guard (scores of the model in
three classes), page, sorting of pictures, tiles. Sizes are numbers, small ones, and
the limits of `image_split.py` and the guard are constants. `Extraction`: `listing` is a
sequence of blocks, a block of lines, a line a landmark of the mall or a text that says
facts. The rules run in the order of `_finalize`. `Presentation` is `decide_result_status`
and `present` over any result of three fields; a text is its length.

### TokenRotation

`valid` are the tokens of the repository, `cookie` the one of the browser, `calls_out` the
requests of the pages, each "sent", "used", "answered" or "refused"; `waiting` counts the
requests of a page that wait for its one call. A token is read and deleted by `Use`, its
successor stored by `IssuePair` and brought by `Receive`. `strays` are the tokens of requests
that are still under way though their page is gone; `fate` is a history of who used a
token. Access tokens expire at any moment; the lifetime of refresh tokens, which is that
of their cookie, is left out.

### FileStore

`file_rows` is the table `s3_files`, `bucket` the objects; `uploads` is how far an attempt of
a page is in `submitDiagnosis`, `on_way` the puts that may still arrive (a page that gives
up does not stop them), `diagnosed` the attempts whose diagnosis exists. `removals` are the
events of `S3FileDeleteEventListener` with the step they are at, `cleaner` is
`S3OrphanFileCleanupScheduler`; a step of either is one call of S3 or one transaction, and
either may fail, with some of the objects gone. S3 may also answer that it kept some
objects (`refused`); the code does not look.

Assumption about time, in `DayPasses`: when a row is a day old, its page has created its
diagnosis or never will (a page waits a minute for an upload and ten seconds for an
answer), and its address, which is good for five minutes, is worthless.

## Runs

| run | configuration | asks |
|---|---|---|
| `session_reuse` | 1 product, 2 workers, 3 runs, 2 places, 1 question round, no crash | `TypeOK`; futures are the runs; timeouts only of overdue runs; question rounds; limits; refines `RunLifecycle` |
| `session_sandbox` | 1 product and 2 sandbox products, batches of 2, 2 places, 1 of them for the sandbox, 1 report, writes fail, 1 restart | places match work; no stranded session; limits |
| `session_restart` | 2 products, 1 worker, 1 crash or drain, jobs may hang, fair | archive mirrors store; endings last; every run ends and is told |
| `parts` | every component that runs on its own, see below | 10 invariants, 4 action and temporal properties |
| `outbox` | 2 products, 2 threads, 2 events each, 1 retry, close, fair | one thread per lane; every event accounted for; refines `OrderedDelivery`; every event settles; threads end |
| `protocol` | 1 product, 3 runs, 1 question round, 2 progress reports, 1 retry by the user, 1 late callback, fair | progress forward; refines `ProductLifecycle`; every product settles |
| `protocol_restart` | 1 product, 3 runs, 1 question round, 1 retry by the user, 1 late callback, 1 restart of the AI server, writes and load fail | both sides agree on questions, answers and results but for out-of-date rows; run ids fit statuses |
| `protocol_batch` | 2 products, 3 runs, 1 retry by the user each, no questions | overall status |
| `announced_before_finished`, `restore_beyond_limit`, `law_news_lost`, `stale_restore` | smallest instance that shows it | a statement of the code's comments that does not hold, see findings |

`parts` is one run for the components that neither share state nor call each other within
the model. The variable `part` says which of them a behaviour is about, and the others
stay as they are, so that the states explored are the sum of those of the parts. A
property of the run is a conjunction of what several modules promise, grouped by what
it is worth to the user:

| property | made of |
|---|---|
| `EndingIsLast`, `NumbersWithoutGap`, `StagesInTurn` | the callbacks of two runs |
| `VerdictIsEarned` | results and history in the order of the tools, completed means verified, giving up in time, a summary that hides nothing; "allowed" is earned |
| `ContractSpec` | `Pipeline` implements `PipelineContract` |
| `UnchallengedFindingsStay` | a step of the pipeline takes back only what was challenged or answered anew |
| `EveryPipelineEnds` | every run of the pipeline ends |
| `QuestionsFitAnswers` | keys name their round, answers under their questions, nothing missing asked twice, the limit closes over an open question only, verdict fits reason |
| `StoredListsServe` | a list of versions serves until a better one replaces it |
| `LawsAreReady` | texts stored after a check, changes in use reported; evidence of its day and whole; rows of annexes under category, remark, name and scope; listed cases stay, "ok" means stored |
| `RulesBindTheModel` | judgements grounded in the five searching tools; rules of electrical, children, advertising; no "no" without ground and contradictions open in extraction |
| `NothingGoesMissing` | open points asked or explained; claims, unproven yes, tariff codes; the seller's lines and the facts in them; cards, actions, notices; pictures to guard and extraction; images of a diagnosis, and rows of objects; the stand-in sends what the AI server would and keeps its marks |
| `RecordsAreTrue` | each call told once as it was and summed up; the latest lines kept; failures blamed on their origin; aliases tell ids apart; runs measured once and as what they ended, measurements counted by those who were there, counts that add up |
| `StaysLoggedIn` | a session survives unless an answer was lost or the user left; a token serves once |

The passing runs explore their whole state space. Why these bounds are enough for the
questions asked:

- *Two of each.* The hazards of the manager are between two threads about one
  product (`session_reuse`), or two products about the places (`session_sandbox`): two
  workers, the sweeper and the event loop already give each pair. A batch of two is the smallest in which one
  product's refusal concerns another. That takes a retry by the user of each
  (`protocol_batch`): a product fails while the AI server still has its run, the user
  retries it and the other one, neither retry is received, and the scheduler sends both in one
  request. The AI server refuses it and names the one it still has; that one fails, and
  the other is sent once more and gets the third run.
- *Three runs of one product* are an old run whose thread is still alive, the
  current one, and a successor drawn between a check and an action. They are one more than
  there are places, so that the check of the room has something to refuse: without it (the
  mutant `RoomNow`, which looks whether there is room now but not for how many) the limit is
  broken. For the sandbox two runs are one more than its place; `session_sandbox` asks
  nothing of the limit of all, which no two runs could break.
- *One question round* reaches the limit and its boundary; one more question is what
  the limit turns into an incomplete result. For the backend it gives a first
  answer, its resend and a repeat of the old questions.
- *Two progress reports* are what reordering needs; one late callback is the
  overtaking of one by another. *One retry* by the user gives a first and a second
  attempt, which is what late answers and callbacks could confuse.
- *One crash* gives the behaviour before, a restart and the behaviour after; a second
  one would find the same rows, as the manager keeps nothing else. `protocol_restart` does without
  reports of progress, which touch neither run nor round of a session.
- *Six callbacks* of two runs are enough to open a stage, close it, open another
  and end, and then to send events too late, for both runs interleaved.
- *Pipeline*: two tools, one always run and one that may be left out and picked up by a
  signal; a finding with, and one without, a source; two retries, so that a second round is
  compared with a first retry and the limit is met; two threads or fewer.
- *Job*: two question rounds (ask, ask again, close), two sentences and a blank one; the
  model asks nothing, one question or two with different sentences (`ModelQuestions`), the
  proof allows for any.
- *Law*: three days, with a version that comes into force on the last day, one issued
  earlier for the same day whose text is another law's, and an empty list.
- *Tools*: for each, the readings and selections of the model are listed in `MCParts` so that
  every rule is met on both of its sides: a quote that is there, made up, or of another
  snippet; a row that is not in the list; a duplicate; currents and voltages at either
  side of the limits; ages of each shape the patterns read.
- *Evidence*: two threads, two days, a time to live of two ticks; every need of every tool
  with each edit (one thread pair for one tool, the others with one thread).
- *Annexes*: up to five rows in three columns (electrical), up to five lines in a section
  (radio), up to four lines (others), all kinds of lines: one more than a remark that
  follows an item that follows a label, and a border, need.
- *Cases*: up to six cases in pages of two, one withdrawal; six, so that more cases may come while
  the pages are read than a page holds. One run: what an earlier one leaves is a table, and the
  run starts on an empty one, on one that lacks the newest case, and on one that lacks an older.
- *Calls, log, trace*: two threads and one call each with every reply; a log of two lines before it is rotated, two backups and five
  lines, whole or cut short, so that a process may die on a line already cut short; three steps, one call and three exceptions.
- *Metrics*: one run with two reports, its worker and the sweeper, three seconds, so that the
  sweeper may end the run before, between and after a report and its telling; two apps, one
  thread that publishes two records of thirteen, so that an app may come or go at each step.
- *Stand-in*: two runs of a product, without marks or with one of five sets: each branch of
  the plan, marks that compete, and one callback sent again.
- *Extraction, intake, presentation*: pages of two malls with and without each landmark,
  pictures of five shapes with room for three pieces and four tiles, and three fields in
  every state.
- *Tokens*: two pages, two waiting requests each, three tokens: one used by both pages, its
  successor, and another login.
- *Files*: an attempt with two images and one with one, and batches of two: one image
  of an attempt there and the other not, a batch of images of both, a removal during a clean-up.

Runs with `CHECK_DEADLOCK FALSE` are those of systems that may be finished: every
product ended, every event settled, a run of a part over, or the bound on callbacks
reached. In the session runs a deadlock would be an error: deadlines and restarts go
on, or every run is over and the sweeper still runs.

Each property of a passing run has a mutant in `PROJECT.json`, and a composed one has one
for each module it speaks of: a plausible bug in a mapped definition with which TLC
finds the property violated. The mutated forms stand beside the definitions, marked as
such.

## Fairness

Nobody has to ask, answer or retry: user actions have no fairness.

- `SessionManager`: the event loop proceeds with what it has begun, the sweeper runs
  every interval, deadlines pass, a stopped server is started again
  (`SweeperFairness`). Pool threads take from the queue and finish what follows a
  job (`WorkerFairness`), but a job itself, a call of a language model, may hang
  for ever: reports and outcomes are not fair. All is weak fairness; no fairness
  of a lock is needed, since each step is taken under one lock that is held briefly.
- `CallbackOutbox`: threads proceed and a request ends (it has a timeout); the
  steps of `close` follow one another. `put` and the call of `close` are free,
  so threads end only if `close` is called.
- `DiagnosisProtocol`: the backend's schedulers run every minute, deadlines pass
  and requests end (`BackendFairness`). Nothing is assumed of the AI server or of
  the delivery of callbacks: `EveryProductSettles` holds with an AI that is silent.
- `Pipeline` (`PartsSpec`): a run goes on, since calls of models and of sources have time
  limits. It is one thread that waits for others in order, so weak fairness of its next
  step is what the code gives; the manager's view, in which a job may hang, is the weaker
  one and is what `EveryRunEnds` is checked under.
- The other parts of `parts` have safety properties only and no fairness. Readers, users, checks and
  ministries may stop at any point.

## Proofs

The theorems are about the specifications TLC checks, for any number of products, threads,
runs, places, retries, restarts, tools, pages and images. They rest on no assumption but those named in the modules
(`SizesAssumption`, `ProductAssumption`, `NoRowAssumption`, `StagesAssumption`,
`MaxCallbacksAssumption`, `OutboxAssumption`, `BackendAssumption`, `ProtocolAssumption`,
`PipelineAssumption`, `JobAssumption`, `DiagnosisAssumption`, `TokenAssumption`,
`LoadAssumption`, `CaseAssumption`, `CallAssumption`, `TraceAssumption`), which TLC evaluates
on every run of a module that has them. Most say that limits are natural numbers, products and
threads finite sets, markers no members of them. The others, and why the code justifies them:

- the order of the tools names each once (it is an enumeration, `ToolName` of `schemas/schemas.py`), signals are
  of tools, and no tool answers that it was not selected: the executor takes such an answer for
  an exception (`pipeline/tool_executor.py:223`);
- the determination of a finding is one of the five of its enumeration (`DiagnosisAssumption`);
- questions of the model are a list, of any length and with repetitions, over finitely many
  sentences (`JobAssumption`);
- a page of the list of customs holds at least one case, evidence lives for at least one tick
  (`CaseAssumption`, `LoadAssumption`);
- a reply that says what it cost names at least one token, and the listener that sums up a run
  is registered when its module is imported and not among those that come and go
  (`CallAssumption`).

The inductive invariants hold on the instances of the runs, where TLC finds out cheaply
whether a strengthening is wrong; most wrong ones failed there.

| theorem | module | property | says |
|---|---|---|---|
| `TypeCorrect` | `SessionManagerProofs` | `TypeOK` | variables keep their types |
| `QuestionsBounded` | | `QuestionRoundsBounded` | a product is asked at most `MaxQuestionRounds` times |
| `ArchiveFollowsStore` | | `ArchiveMirrorsStore` | with a working database the archive is what a restart needs |
| `PlacesAreRuns` | | `CapacityMatchesWork` | the counter of places is the number of runs at work |
| `FuturesAreKept` | | `FuturesAreTheRuns` | the futures are those of the runs in the pool |
| `NobodyIsStranded` | | `NoStrandedSession` | an unfinished session is in somebody's hands |
| `OnlyOverdueTimesOut` | | `TimesOutOnlyOverdue` | until a restart, only overdue runs time out |
| `NumbersFollowOrder` | | `NumberedInOrder` | until a restart, numbers follow the order of the outbox |
| `EndingsComeLast` | | `EndingIsLast` | nothing follows the last callback of a run |
| `LimitsHold` | | `WithinLimits` | the sandbox keeps to its own limit always, all runs to theirs until a restart or with an archive that works |
| `ManagerImplementsLifecycle` | | `LifecycleSpec` | the manager implements `RunLifecycle` |
| `TypeCorrect`, `NothingAfterTheEnding`, `NumbersInOrder`, `NoNumberSkipped` | `CallbackStreamProofs` | `EndingIsLast`, `NumbersWithoutGap` | the stream's types, endings and numbers |
| `StagesTakeTurns` | | `StagesInTurn` | stages open and close in turn, tools within theirs |
| `InvHolds` | `OutboxProofs` | | the outbox's inductive invariant |
| `OneHandler` | | `OneHandlerPerLane` | one thread at a time has a product |
| `EventsAreAccounted` | | `EveryEventAccounted` | each event is in one place |
| `NoLaneForgotten` | | | a lane with events has a turn or a thread |
| `HandsOverInOrder` | | `DeliverySpec` | the outbox implements `OrderedDelivery` |
| `InvHolds` | `ProtocolProofs` | | the protocol's inductive invariant |
| `OverallIsKept` | | `OverallStatus` | the overall status is what the products add up to |
| `RunIdIsKept` | | `RunIdFitsStatus` | run ids fit statuses |
| `AsksWhatIsAwaited` | | `AsksWhatAIWaitsFor` | the user is asked what the AI server waits for, unless an out-of-date row was restored |
| `FirstResumeIsTaken` | | `FirstResumeFits` | a first answer is never a conflict, unless an out-of-date row was restored |
| `OnlyMissedWritesConflict` | | `OnlyWrongRequestsConflict` | with an archive that misses no write, none ever is, through restarts |
| `ResultIsTheLast` | | `ResultOfLastRun` | the result shown is that of the last run, with the same exception |
| `ProgressGoesForward` | | `ProgressForward` | progress never goes back (an action property) |
| `KeepsLifecycle` | | `LifecycleSpec` | backend, network and AI server implement `ProductLifecycle` |
| `PipelineImplementsContract` | `PipelineProofs` | | a run of the pipeline implements `PipelineContract` |
| `CompletedIsReviewedAlways` | | | a completed run was reviewed whole, on tools that answered and findings with sources |
| `ResultsAreTheToolsAlways`, `HistoryInOrderAlways` | | | one latest result per tool, that of its last execution; every execution once, in rounds |
| `CompletedMeansVerifiedAlways`, `SummaryHidesNothingAlways` | | | who completed is verified and all tools succeeded; risk and summary agree |
| `GivesUpInTimeAlways` | | | a run gives up at the limit or when nothing changes any more |
| `UnchallengedFindingsStayAlways` | | | a retry that fails takes back nothing nobody challenged (an action property) |
| `AllowedIsEarnedAlways` | | | what the user may sell was found to be free of duties, by all fields |
| `JobTypes`, `KeysNameTheirRoundAlways`, `AnswersStayUnderTheirQuestions` | `JobProofs` | | keys never come back, an answer stays with its question |
| `NothingMissingIsAskedTwice`, `LimitIsOverOpenQuestions`, `VerdictsFitReasons` | | | who is asked what how often, and when it ends |
| `TraceBlamesTheOriginAlways`, `NumbersTellIdsApartAlways` | | | records blame the step an error began in; ids do not share a number |
| `CallsAreToldAlways`, `SummaryAddsUpAlways`, `EachHearsItsOwnAlways` | | | listeners hear each call, and each measurement, once |
| `UserStaysLoggedIn` | `BackendProofs` | | the session survives and a token serves once |
| `ImagesStayAlways`, `ObjectsAreKnownAlways` | | | the images of a diagnosis stay; objects nobody uses can be found |
| `TextsAreStored`, `ChangesAreReported`, `ListsServe` | `LawProofs` | | texts of stored versions are stored; changes of use are reported; stored lists serve |
| `EvidenceIsOfItsDayAlways`, `EvidenceIsWholeAlways` | | | evidence is of the day asked for and stands on whole documents |
| `ListedCasesStayAlways`, `OkMeansStoredAlways` | | | listed cases are not deleted; a run that is ok has stored what it saw |

The theorems of the last four modules are about parts that `parts` checks by its own names, as
conjuncts of one property for each concern:

| property of `parts` | proved | only checked |
|---|---|---|
| `ContractSpec`, `UnchallengedFindingsStay`, `StoredListsServe`, `StaysLoggedIn` | all | |
| `VerdictIsEarned` | all: `ResultsAreTheTools`, `HistoryInOrder`, `CompletedIsReviewed`, `CompletedMeansVerified`, `GivesUpInTime`, `SummaryHidesNothing`, `AllowedIsEarned` | |
| `QuestionsFitAnswers` | all: `KeysNameTheirRound`, `AnswersUnderTheirQuestions`, `NothingMissingAskedTwice`, `LimitOverOpenQuestions`, `VerdictFitsReason` | |
| `LawsAreReady` | `TextsAreReady`, `ChangesOfUseReported`, `EvidenceIsOfItsDay`, `EvidenceIsWhole`, `ListedCasesStay`, `OkMeansStored` | the annexes |
| `RecordsAreTrue` | `CallsAreTold`, `ToldAsItWas`, `SummaryAddsUp`, `TraceBlamesTheOrigin`, `NumbersTellIdsApart`, `EachHearsItsOwn` | the usage log, what is counted and for how long |
| `NothingGoesMissing` | `ImagesStay`, `ObjectsAreKnown` | tools, extraction, pictures, cards, stand-in |
| `RulesBindTheModel` | | all |
| `EndingIsLast`, `NumbersWithoutGap`, `StagesInTurn` | all (`CallbackStreamProofs`) | |

Three theorems of `SessionManagerProofs` hold "if the archive does not fail, or until a restart"
(`EndingsComeLast`; `LimitsHold` for the places of all, while those of the sandbox keep to their limit
always; `ManagerImplementsLifecycle` says it of the constants: no
failure of the archive, or no crash), and two say "until a restart". This is the truth about
the code, not a convenience: a row that could not be removed brings back a session that had
ended (finding 2), and a restart numbers the failure of an interrupted run from 1 and fails
runs that are not overdue. `session_restart` restarts with an archive that works. Likewise three theorems of `ProtocolProofs` speak of products whose session was never
restored from an out-of-date row (`astray`), and finding 4 is what happens to the others; the rest
hold of every product.

**The session manager.**

*Types.* `TypeOK` alone is not inductive: `owner[r]` is a product only for runs
that were issued, and the runs in the queue, the threads, the snapshots and the
event loop are looked up in it. `TypeAndRuns` adds `RunsIssued`: every run in
circulation has been issued. One lemma per action shows that it is kept.

*Questions.* A thread decides whether it may ask from its own copy of the number of
rounds, read when its job began; the session may have been replaced since. The
inductive invariant `RoundsInv` says that rounds are within the limit *and* that a
thread in a job whose run is still the session's run has the session's number
(`WorkersKnowRound`); a thread whose run was replaced fails the guard.

*Archive.* `MirrorInv` carries, next to the equality, that nothing is skipped when
the archive cannot fail (`Still`); each action that changes sessions changes the
rows of just those (`Persist`), and the restore reads them back.

*Places and futures.* `WorkInv`: a run is in one of three places, the hands of the event
loop, the queue, or one worker (`QueuedOnce`, `HeldOnce`, `Apart`), so that the runs can be
counted; the futures are those of the last two but for the run that is being registered
(`FuturesFit`); the counter is that count (`PlacesFit`). The counting rests on lemmas about
the queue that gains or loses a run and on cardinalities of disjoint sets.

*Nobody stranded.* `Attended` adds what somebody who holds a run knows of it: a run not yet
started is not running (`NotYet`), one that a worker is done with is not running any more
(`WorkersFit`), rows, sessions and runs agree on the owner (`OwnersMatch`). Then each step
that lets go of a run finds its session replaced or over.

*Time-outs.* `CauseInv`: until a restart the sweeper's list holds overdue runs only, and the
only cause it gives a failure is time-out, with the guard that the session is still of the
run on the list.

*Numbers.* `NumberInv`: a callback is in the lane of its run's owner, and the builder's next
number of a run not yet finished is one more than the callbacks of that run sent so far.
Events of runs nobody has heard of start at 1 with nothing sent.

*Endings.* `Closure(x)`: once the ending of `x` was told, the session of `x` is not going
on, and either the builder remembers that `x` finished or nobody is left who could speak
of it; and whoever is about to tell an ending has stored it first. While the server is down,
no row of a run whose end was told is left to be brought back, which is where the archive
that does not fail is needed.

*Limits.* `LimitInv`: the event loop checked before it took (`DoorRoom`), and live sessions
are no more than the limit, so that a restart does not bring back more. The drain empties the
queue without giving places back, which the invariant allows for (`DrainFits`).

*Refinement.* A run of `RunLifecycle` is accepted, started, over and told. The mapping reads
this off the session, its row and the outbox; `BatchFits` and the invariants above show that
each step of the manager changes the lives of the runs as `RunLifecycle` allows or leaves
them alone, a restart included.

**The callback stream.** The builder's state bounds what has been sent: the last number of a
run is one less than the next, and a finished run's last callback is an ending. From
these the order, the absence of gaps and the last place of endings follow. For the stages,
`TurnInv` says that the builder knows the stage that is open in what was sent, for each run
not over, and that every callback fitted the one open before it.

**The outbox.** `Inv` has four parts besides types: a product has a lane just when a thread
has it in hand or it has one turn in the queue, never two of these (`Hands`); a lane is in
the order of put and what is being sent comes before it (`Ordered`); an event on record is
neither waiting nor being sent, and one that was put is one of the three (`Events`); what was
sent comes before what waits, an event as often as its attempts (`History`). `Hands` gives
`OneHandlerPerLane` and `NoLaneForgotten`, `Events` the accounting, `Ordered` and `History`
the steps of `OrderedDelivery`.

**The protocol.** A product has three records: row, session and the callbacks on their way.
`Inv` says how far apart they may be. `Messages`: a callback fits what its session has come
to, and there is one ending of a run on its way at most. `RowFits`: a row is at most one run
behind the session, and if it is, no callback of the run it knows has news. `CallFits`: while
a request about a product is unanswered, its row waits for that answer, and an answer that
was accepted is about the session there is. `OneCall`: requests are about different products.
The lemmas go by handler: what it does to one product, then that it leaves the others alone.
The assumptions about time are in the guards (`Matters`), and the proof shows that they are
enough. A restart may put any row in the place of a session, so the relation of the three records
is claimed of the products that are not `astray` (`Sound`), while the types, that a row has a run
whenever its status needs one and none while it is pending (`RunFits`, part of `Stored`), the overall status and `OneCall`
are claimed of all: they rest on the backend's guards alone. Of an archive that misses no
write a second invariant says that every row is current and no product astray (`UpToDate`);
with `Inv` it gives `OnlyMissedWritesConflict`, which therefore also holds through restarts.
`ProgressForward` and `KeepsLifecycle` follow step by step from `Inv`; a restart does not
touch them, as they are about rows.

**The pipeline.** From decision to end, the verification is what `VerificationAgent` makes of the
draft at hand with some review or none (`Verdict`), and a run ends for the reason its status
gives unless tools are asked for (`EndedFor`). What a verification may be is worked out once:
by the rules alone (`RulesFit`, `RulesAloneFit`), merged with a review (`MergedFit`), and so
for each verdict (`VerdictsFit`). Its questions that must be answered leave only the statuses
the contract allows, and approval leaves no critical issue, so none of those the rules raise
about tools and findings (`SoundDraft`).

What the draft is worth rests on the state it sums up, which is the second invariant, `Kept`. The
threads of the pool end the places of a batch in any order and each once (`PoolFits`), so that
what is gathered has one result per place: as many places as there are, none twice, are all of
them (`GatheredFits`). The state has one latest result per tool, which is what its last
execution came to, or what was kept of the round before when that one failed, and the history
holds each execution once, in rounds (`StateFits`); a retry keeps it (`RetriedFits`). For giving
up, two rounds have to be compared: a round that followed another still knows which state and
which request it came from (`RetryIsOfPrevious`), and the last two executions of a tool that was
asked again are those of the two rounds (`LastTwo`). `UnchallengedFindingsStay` is then a
statement about one retry of one finding (`FindingStays`).

**The verdict the user sees.** `Decide` is a chain of ifs; that its last one is reached says that
all the earlier conditions failed, which is a list of what the diagnosis does not have (`Clear`).
The proof attempt corrected the property: TLC's diagnoses had no finding that says "not required" in an allowed
product, and the property claimed that there is none. There may be one, and it is in order.

**The job.** The questions of a round are not kept, the answers find theirs by building them anew
from the last result. So the invariant says that this gives what was shown (`QuestionsFit`), that
the answers are those to what was shown, of all rounds but one that is open (`AnswersFit`), that
a round asks each sentence once under keys of its own (`ShownFit`), and that a result is about
the answers that were there before its run (`ProductFits`). Lists are built with `InOrder`, the
places of a list that are kept, in order: there is one such list and it names each place once,
by induction on the least place that breaks the order. That is the one kind of induction the provers
can do here: a nonempty set of numbers has a least one (`LeastNumber`, from the library's theorem that
`<` is well founded).

**Records.** *Trace* (`TraceInv`): steps are nested and an exception began in one that has been
left (`StepsNest`); the last exception that left a step is remembered with it (`FailureFits`),
and is known again, however it was wrapped, exactly if it left a step before (`FlyingFits`): the
innermost cause is the same. Then what is written down, when a step is left and when the run
ends, blames the origin (`ErrorsFit`, `EndFits`). *Ids* (`IdsFit`): numbers given out are up to
the counter, which starts at the largest an earlier run used. *Calls* (`CallInv`): those who have been told of a
call are the first of a copy of the listeners without repetitions (`TellingFits`), and a call
counts in the summary of its run from the moment its listener was told (`SummaryFits`), which
is why threads that tell at the same time do not disturb one another. *Measurements* (`HearInv`):
a letter is underway once, and to somebody who is to hear it and has not (`LettersFit`); what
was due is heard or underway (`NoneIsLost`), whoever leaves in between.

**Tokens.** A call that was served is named by the fate of its token (`Serving`), so two served
calls have two tokens. The successor an answer brings is known to nobody else and valid until
its page stores it (`Successors`); then the cookie is usable again. A page has one call at a time
(`OneCall`) and none for a token it used itself (`Unspent`): the cookie it had was replaced when
the answer came, or lost.

**Files.** A deletion holds addresses that nobody uses or will use: their page is done, without
a diagnosis, and no upload is on its way (`Useless`, kept by every step because an attempt that
is over stays over). It takes the object first and the row after (`Deleting`), so whatever is cut off leaves
rows without objects, never the reverse. The clean-up reads rows that are old (`Old`), which is
where the assumption about time of `DayPasses` is used.

**Laws.** That a change of use was reported compares what two tools took on two days with what a
check compared in between. Each is tied to the list in the database for as long as a check wrote it
last: today's version is the one in force in it (`UsesFit`), yesterday's the one in force in
what the next check compares with (`YesterdayFits`, `BeforeFits`), what a check found is what it
stored (`FoundFits`). A tool that writes its own list, or a database that fails, breaks
the tie, and then the property claims nothing either. Which version is in force in a list is not looked
into: the argument holds for any `SelectVersion`.

**Evidence.** Who loads, and what was loaded, knows the tool and its documents (`CallsAreOfTool`),
and evidence, kept or served, stands on documents in which all that is needed was found
(`Stands`), a thread that waited for the lock included. That a document with an edit is not
enough goes over the kinds of needs and of edits: what is left of a piece that was changed,
taken away or doubled is never exactly one piece with its words.

**Cases.** New cases are on the first page, which has been read, so that the other pages show
cases the list had when the run began (`NewsAreFirst`, `SeenFits`); a list shorter than it says
deletes nothing, and one that is as long has them all, by their number. The proof attempt found
that this is only so while no more cases come than a page holds: with pages of two, the list
3, 2, 1 of which 3 and 2 have been read, and 4, 5, 6 published, the second page is 4, 3; three
cases of three have been seen, and 1 is deleted although it is there. `ListedCasesStay` now says
so (`crowded`), and the instance has room for it. The pages of the code hold a
hundred cases (`db/clip_ingest.py`), and a run takes minutes.

**Only model-checked.**

- Liveness and everything that needs fairness: `EveryRunEnds`, `EveryEndIsTold`,
  `EveryEventSettled`, `ThreadsEnd`, `EveryProductSettles`, `EveryPipelineEnds`. It is outside
  the prover's reach.
- What is computed by going through data of any length: the readers of the annexes (line by line), the rules
  of the tools and the extraction (recursive over texts and rows), the cards and actions of a result
  (folds), the usage log with its rotations, and the sums of `Metrics` (`CountsAddUp`, and the
  times of `EndingsAreMeasured` and `StagesFitTheRun`). A proof would need induction over the data, with an
  operator as parameter, which the provers cannot instantiate. Where a list is built by places
  rather than recursively, as in the job, in the pipeline and for the listeners, it is proved.
- In the outbox, that the number `close` returns is what it dropped: a sum over the products.

## Findings

Four statements in comments and documents do not hold; each has a run whose
counterexample shows it.

1. `sessions/transitions.py:130`: a finished session is not archived because its
   callback has already gone out. The row is removed when the session is stored,
   the callback is built afterwards: a crash in between leaves neither
   (`announced_before_finished`). The backend's stuck clean-up ends the product.
2. `sessions/manager/manager.py:246`: restored sessions were within the limit. Rows
   that could not be removed while the archive was skipped come back too
   (`restore_beyond_limit`).
3. `db/law_cache.py:126`: changes are found by comparing with the list in the database
   before it is overwritten, and announced if there are any. The comparison comes after
   the texts have been fetched (152), the list is stored before (147); a text that
   fails skips it, and the next night compares the new list with itself
   (`law_news_lost`).
4. The default branch of `handleRejected` in `AiResumeRequestUseCase.java:82` is for "a request the
   backend sent wrongly", and `ai/docs/AI_COMMON_CONTRACT.md:421` gives 409 `AI_RESUME_CONFLICT` for
   answers to another question and for repeated ones; `ai/app/db/session_archive.py:4-5` says that
   a session which comes back although it is over does no harm, because the backend ignores what
   it reports. But a session restored from a row that missed a write answers requests too
   (`sessions/manager/manager.py:242`): the backend asks the user the questions it was sent, sends the answer
   for the first time, and is refused since the session is of an earlier run, round or state. The product
   then fails with a reason that allows no new diagnosis (`stale_restore`). It takes a database that
   failed for a moment and a restart before the row was written again; with no write missed it cannot
   happen (`OnlyMissedWritesConflict`).

## Observations

What was noticed while modelling. Only the numbering of callbacks contradicts a statement of
the code; the models behave so too, except where a line says otherwise.

- Outbox: the number `close` returns leaves out an event whose retry is cut short
  (`callbacks/outbox.py:123`).
- Numbers of callbacks: they are kept in memory (`callbacks/events.py:55`), so that the failure of a
  run interrupted by a restart is numbered 1 again, where `schemas/callback.py:43` says that they
  are the order within the run. The backend looks at the numbers of progress only
  (`Product.java:223`), and an interrupted run sends none any more.
- Tools: the note about dropped selections does not reach a result that has findings (radio,
  electrical, children); a battery search without evidence fails the whole electrical tool;
  a KC mark quoted by a claim of another type gets the action of that type; a confirmed "no"
  silences an unproven "yes" (food and drug).
- Answers: a line "question -> answer" of an earlier round is split at its first arrow, so
  that a question that contains one is not found again (texts are not modelled).
- Laws: a text that is fetched wrong stays for good, since texts are not fetched again; a tool
  that was answered before a check may write its older list over the newer one, until
  the next check.
- Evidence: what a loader holds ages from the end of its load, and only one day is kept, so
  that two threads on either side of midnight take turns in loading.
- Electrical annex: items above the first category label are not read; a second remark of a
  group without an item in between is dropped; a category label after a remark lets a
  later remark reach the items before it again. Radio annex: a new label on a line that ends
  a row would name the row above. The annexes in force do not have these shapes.
- Cases: deleting is safe for the one weekly run, since the list is newest first, as long as no
  more cases come while its pages are read than a page holds; a run by hand at the same time could have its
  newest cases deleted. With a limit, "ok" does not mean that all are stored.
- Usage log: a rotation that fails midway is tried again with every record, and each time the
  oldest backup may be overwritten; the summary reads only the current file; a line cut
  short swallows the next one too.
- Trace: an exception of another origin is traced to a failed call that was caught, if that
  was the last call of the step.
- Extraction: `drop_unsupported_false` clears a false `plant_material` before the rule that would
  record its contradiction sees it; a Temu page whose title is cut and whose box has no
  whole one may take a longer notice for its title; a page without its landmarks stays
  whole, the words of others included.
- Files: the objects of a removal whose event is lost or fails stay for good, since their rows
  are confirmed and the clean-up looks at pending ones only; errors of single keys in the
  answer of `DeleteObjects` are not looked at, so that rows go whose objects stay (the only
  exception in `ObjectsAreKnown`); `markConfirmed` passes over keys that have no row, and the
  clean-up does not look again before it deletes: a page that created its diagnosis a day
  after its upload would lose the images (outside the assumption about time).
- Metrics: a run that times out while its worker is telling of a stage leaves that stage in
  `_stages` of `observability/metrics.py` for good; `StagesFitTheRun` shows that this is the
  only way.
- The cost of a run in the log leaves out calls whose price is unknown.
- Tokens: a page that lost the race for a token may try again, after its redirect, before the
  winner's answer has brought the new cookie; it then shows the login page although
  the session is alive.
- `_invoke` and `_invoke_with_meta` of `agents/base/agent.py` have no callers.

## Not modelled

- Prompts and the text of models: whatever a model says is a choice among the answers of the
  instance. Readers of the pages of single malls, clients of public services: formats of
  others; where it matters, a call answers or fails.
- What serves only the evaluation (`eval`, `agents/decision_selection`, `utils/annex_file`).
- Log format, reports to Sentry, the collectors that read a snapshot for a scrape: they change
  no state of the service.
- Routes and schemas of the AI server: a refused request changes nothing, an accepted one is a
  step of the manager.
- Backend: users and mail; the removal of all data of a user who leaves, which takes
  no lock of the diagnoses; two backends that overlap in a deployment, whose schedulers
  would both run; a reverse proxy that turns an accepted request into a 5xx, which the
  client would take for not received; social login and the lifetimes of tokens.
- Frontend pages: views of the backend's state. Deployment scripts.

## Plan

Done: `SessionManager` with `EventBuilder`, `RunLifecycle`; `CallbackStream`;
`CallbackOutbox` with `OrderedDelivery`; the backend and the protocol with
`ProductLifecycle`; `Pipeline` and `DiagnosisJob` with `PipelineContract`; the tools, the
evidence, laws and cases; records and metrics; intake, extraction and presentation;
`TokenRotation`; `FileStore`; `MockServer`. Proved: the safety invariants of manager, stream,
outbox, protocol, pipeline, job, tokens, files, laws, evidence, cases, calls and traces, the
verdict, who hears of a measurement, and the refinements of `RunLifecycle`, `OrderedDelivery`,
`ProductLifecycle` and `PipelineContract`.

No module is left: what has none yet keeps no state of its own or has no protocol (see
[not modelled](#not-modelled)). A candidate beyond the service is the blue-green switch of the
deployment scripts.

Theorems left, in this order: that runs and stages are measured once (`Metrics`), with the
sums written as cardinalities; that the usage log loses the oldest lines first, for any number
of backups; what `EndingsComeLast` and `LimitsHold` can say of a database that fails after a
restart (which runs come back is then bounded by the rows that could not be removed).
