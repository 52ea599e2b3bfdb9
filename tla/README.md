# A verification project for reel-maker

reel-maker turns an operator's text into short videos: a *reel* is enriched,
given a *guide* by a language model, rendered once per platform (a *cut*), and
posted. The operator drives it through FastAPI routes; the work is done by Celery
tasks on Redis; everything that matters is a row in Postgres. This directory holds
TLA+ modules that model its core, the TLC configurations that check them, and
proofs for TLAPS.

    tlc -workers 2 -config job_safety.cfg MCJobTask      # any run below
    tlapm JobTaskProofs.tla                              # the proofs
    tlapm CutPipelineProofs.tla
    tlapm ReelPipelineProofs.tla
    tlapm AccountsProofs.tla
    tlapm GuideGenerationProofs.tla
    tlapm AssetCacheProofs.tla                           # and SafeFetch's
    tlapm RowLocksProofs.tla
    tlapm EvaluatorProofs.tla

`PROJECT.json` lists the parts of the system, the runs, a mutant of the code for
every property (a change that makes the property fail), the source lines behind
every definition, the disagreements found between the code and its own comments,
and the hazards the properties are for.

## 1. The system

| part | state it keeps | operations | interacts through |
|---|---|---|---|
| Job lifecycle (`worker/tasks/common.py`, `api/enqueue.py`, `api/state.py`) | a `Job` row: status, claim token, resumes, heartbeat; the status of the reel or cut that owns it | enqueue, claim, heartbeat, done-stamp, after_commit, retry, fail, shutdown | one transaction per step on the shared rows; one Celery message per attempt |
| Reaper (`worker/tasks/maintenance.py`) | none of its own | every minute: resume or fail stale running jobs, fail stale pending jobs, fail done jobs that look orphaned | the same rows, unfenced by the token |
| Broker (`worker/celery_app.py`) | messages | deliver, lose, deliver again, refuse | late acknowledgement, two-hour visibility timeout |
| Cut routes (`api/routers/cuts.py`) | `Cut.status`, `Cut.guide` | render, edit, choose hook, approve, publish | lock the cut's row, then enqueue a job |
| Render (`worker/tasks/render.py`, `engine/render/*`) | asset pins, the video file, the row that describes it with two fingerprints | resolve or reuse pins per beat, synthesise, composite, record | commits pins as it goes; one file path per cut |
| Publish (`worker/tasks/publish.py`, `engine/publish/*`) | the post's id | gates, upload, record the id, finalize | reads what renders left; the platform |
| Generate (`worker/tasks/generate.py`, `engine/generation/*`, `engine/observability.py`) | the guide of each cut, `job.meta`, `StageEvent` rows | structured path, up to three standard attempts, best-effort calls | paid provider; the count of events is the budget |
| Enrich (`worker/tasks/enrich_context.py`) | `enriched_context`, a pending generate job | evaluate, enrich, hand over | after_commit enqueues generate |
| Asset sourcing and fetching (`engine/render/asset_sourcer.py`, `safe_fetch.py`, `media_policy.py`) | a file cache, `Asset` rows | search, download, sweep | concurrent renders |
| Credentials (`api/oauth.py`, `api/crypto.py`, `api/routers/credentials.py`) | OAuth states in memory, encrypted tokens | authorize, callback, refresh, disconnect | publishers and metrics read them |
| Evaluator (`engine/generation/evaluator.py`) | none | score a guide on seventeen axes | its score picks the best of three attempts |
| Metrics, insights (`worker/tasks/metrics.py`) | latest metrics and snapshots | pull, correlate, curate notes | notes feed generation |

What is hard here: a job has no single process. Its message may be lost, refused,
delivered twice or delivered while an earlier delivery is still running; a run may
be killed, shut down, stalled until the reaper resumes it, and then wake up. Every
commit is separate, and the transactions of the API, the workers and the reaper lock the
same few rows in Postgres. A reel passes from one job to the next in the middle of a
process that may die there. The safety of what is posted rests on comparing columns that
different runs wrote at different times. The list with lines is "hazards" in
`PROJECT.json`.

## 2. The modules

Order of the work: the job first, because everything else relies on its fence; then
the cut, whose errors reach the public; generation, whose errors cost money; the reel,
which composes two jobs; the row locks under all of them; the accounts posts are made
with; the scores guides are chosen by.

How they compose. `JobTask` implements `JobLifecycle`. `CutPipeline`, `GuideGeneration` and
`ReelPipeline` keep of `JobTask` what its fence gives them, and each of their jobs is shown
to implement `JobLifecycle` as well: both jobs of a reel, the generate job alone with its
runs, and every job of a cut. `RowLocks` splits the commits of all of these into statements.
`AssetCache` is below the footage a render pins, `SafeFetch` below a download of the
cache, `Accounts` below the upload of a publish, `Evaluator` below a score of a guide.

### JobLifecycle: what a job promises

An abstract specification in two variables: the job's phase, and whether it holds its
reel or cut. A job holds its owner until the very commit that makes it terminal,
succeeds at most once, and a failed job stays failed.

### JobTask: one job, its deliveries, the reaper and the broker

`status`, `token`, `resumes`, `stale` are columns of the Job row, `owner` is the
reel's or cut's status seen from this job: `inflight` for it, `other` when a later
job of its type has put the owner in the same state, `settled`, `failed`. The routes allow
`other` (`OwnerReused`) for cuts only: one in review or failed is rendered again, a failed
one published again. A member of `Runs`
is one delivery of a message; `pc` says how far it is in `job_task`'s `run()`,
`tok` is its `Claim.token`, `retries` Celery's count. One action is one
transaction: `Claim` is the compare-and-set from pending, `Capture` the later
refresh that reads the token, `DoneStamp` the owner's transition and the fenced
stamp, and so on down to `CleanUpCommitted`, `FailRejectedRetry` and the reaper's
three sweeps. A message can be lost whenever it is posted (`Post`), a run can be
killed with or without its message coming back (`Kill`), and a message can be
delivered again under a live run (`Redeliver`). The three ages the reaper looks
for are one Boolean, `stale`, cleared by every write that touches the column the
sweep reads. `max_runtime_s` is `expired`: the thread stops beating.

`StaleJobNeverFlipsOwner`, `OneHolderPerToken` etc. are stated at the end of the
module with the behaviour each is about.

### CutPipeline: one cut from its guide to its post

The routes, `render_cut`, `publish_cut`, the pins, the three gates and the
reaper, for one cut. The job under each run is reduced to what JobTask shows of it:
`Live(r)` is the fence. Data are represented by what they were built from:
`file` is the guide and pins behind the file at `video_path`, `row` the guide and
pins behind the stored fingerprints, `post` the content behind the platform's id.
So "the video matches the guide" is equality of contents, and a fingerprint is what
it is a fingerprint of. A run record keeps what the task keeps in its session
between two reads (`guide`, `pins`, `row`, `post`, `status`): staleness is explicit.
`uploads` is history: what was sent, by which run, and what the row and guide said
at that moment.

What is promised of the cut holds until the done-orphan sweep takes an old job for the
owner of a cut that a later job has in flight (`Misreaped`, the disagreement shown by
`job_done_orphan`): two jobs may then serve one cut, and a render can record the
fingerprint of a guide it never saw. `JobUploadsOnce` holds even then.

`JobsAreLifecycles` maps each job of the cut on a `JobLifecycle`. A job that was not asked
for yet counts as pending; a job holds the cut while the cut is in the state its kind drives
and no other job in flight of that kind accounts for it. The last part is what makes it a
statement: nothing in the row of a cut says whose `rendering` it is.

`PostIsOnRecord` is what holds in place of `PostedVideoStays` (below, under the runs): the
post of a cut is of the video on record, or it is an upload of a publish whose job the
reaper or a failure ended before it recorded the post. Nothing else can leave the post of
another video.

Retry and resume counts are not counted (JobTask does that): a render may be resumed
whenever it is live, which only adds behaviours. `RenderSlots` is the concurrency of
the rendering queue, 1 in README.md and docker-compose.yml of the repository;
`RowDescribesVideo` depends on it (with 2, a superseded render finishes its composite
after the next one recorded its row, and TLC shows it).

### GuideGeneration: one generate job and its money

A stage of generation that pays for a call is a control state of its run; leaving it
is `record_stage` committing a `StageEvent` (`CallEnds`). The structured path has
five such stages behind a single heartbeat, the standard path up to three attempts of
three, each behind a budget check and a heartbeat, then the caption and hook calls.
`Swallowing` names the stages whose `except Exception` also takes the soft time
limit. Scores are numbers below or above the threshold and a choice here; how the
evaluator computes them is the module Evaluator. Every provider is taken to be paid (with
local Ollama nothing is counted). `script` says which path the operator's text takes: it is
fixed for the job. Under `phase <- job`, `held <- (reel = "generating")` its one job
implements JobLifecycle.

### SafeFetch: one guarded download

`open_download` and `iter_capped` in the thread that reads, `_Watchdog` in its timer
thread, and a host that does as it likes. `reader` is where the reading thread is,
`hop` the redirects followed, `url` whether the caller's `url_ok` accepts the URL of
this hop. The threads share `conn`, `dup` (`_Watchdog._sock`) and `fired`; the
watchdog's lock is held exactly while `timer = "firing"`, so `Fire` (the flag, under the
lock) and `Shut` (the shutdown and the release) are two steps and the unlocked read of
the flag in `Check` can fall between them. `sized` says whether an early end of the
connection can be told from the end of the body: if not, a body the watchdog cut off
ends as cleanly as a whole one, which is what `fired` is for. Sizes, headers and
encodings are left out, as are the API calls built on top. Its specification is `FetchSpec`,
so that a module can extend it together with AssetCache.

### AssetCache: one beat's footage and the file cache

`search` of the sources, the cache directory the workers share, `_cache_asset` and
`resolve_or_reuse`. `Chain` is the order in which candidates are tried (a page's original
and thumbnail, then search hits); `PathOf` and `RefOf` give the file and the row of
each, and the point of the instance is that the two images of a page have one row and,
by their extensions, two files. `files` and `temps` hold what is at a path: nothing, a
write in progress, something else than was asked for, a short or a whole body.
`Look` and `Discard` are two steps because `cached_media_ok` unlinks by name what it
read before. `Sweep` may take any temporary file (ages are not modelled, so it may take
one in use: more than the code does). `LegacyFiles` are cached files that today's checks
refuse; they came with rows. Downloads follow the order of the Pexels source (temporary
file, then check); the Wikipedia source checks in memory first, which shows fewer states.

### ReelPipeline: a reel and its two jobs

The enrich job, its hand-over and the generate job of one reel. `reel` is
`Reel.status`, `thin` says whether the context is to be enriched, `enriched` is
`Reel.enriched_context` represented by the token of the run that wrote it, `meta` is what
the enrich job says was done, and `failedBy` is history: the job whose failure failed the
reel. `HandOver` is the one transaction that moves the reel on, creates the generate job
and stamps the enrich job; `EnqueueGenerate` is the `after_commit` hook, which may never
run, may post nothing, or may raise although a worker has the message; `CleanUp` is
`_abandon_generate` in its savepoint and the stamp around it, each of which may be lost.
Deliveries, retries, resumes, kills and the reaper are those of JobTask, coarser: a failed
attempt settles in one step. `MetaTellsContext` goes one way only. After a resume whose
call to the model fails, the meta says that enrichment failed and that the original is
used, while the column still holds the text the run before committed, and generate uses
that text.

### RowLocks: the transactions, statement by statement

A transaction is a program: a sequence of statements of a few kinds (compare-and-set,
flush, insert, foreign key reference, `SELECT .. FOR UPDATE` of a roll-back or a route),
each on one row, in the order in which SQLAlchemy sends them: a bulk `UPDATE` when it is
executed, a changed object when the session is flushed. `held` is the lock of each process
on each row, of the three modes these statements take; a statement that conflicts waits,
and sees what was committed once it goes on. `Abort` rolls back at any statement and
leaves the process where it was before. `phase` is where a process is between
transactions: only that order of the bodies is kept. An insert waits for nobody: nobody
else sees the row before the commit. The heartbeat thread is left out
because its transaction has one row: it waits with nothing held, so it is on no cycle.
Retries and resumes of a job share its bound, `MaxClaims`.

### Accounts: what posts and pulls are made with

OAuth states (`states`, in the memory of the API process), the callback and disconnect
routes, the table of credentials (`row`), the Fernet key, and the tasks that read a
credential: uploads and batches of metric pulls. A token is the account it gives access
to, and `seal` the key a row was encrypted under. A callback is the exchange, the look-up
and the store; a task reads the credential, and refreshes, commits, reads again and sends
in steps of their own, so that reconnecting, disconnecting, restarting with another key
and another task's refresh fall between them. A task record keeps what its session holds:
`cred`, the credential as it was loaded, and `seen`, the metric as it was loaded, because
an attribute set to the value it was loaded with is not written. `linked`, `accepted`,
`replies` are history. Two crossings of writes are kept apart in `races`: a refresh that
commits over a reconnection writes a token of the account before, and two callbacks that
look the row up before either stores it leave two rows. `SendsConnectedAccount` is stated
for the behaviours without them.

### Evaluator: what a guide scores

`score_guide` with its seventeen axes, as operators over guides. A voice-over line and a
visual direction are data, given by what the code's regular expressions and word lists
find in them (`Says`, `Shows`), and `Source` is the operator's context by its keywords.
`EvaluatorAssumption` gives their types and one fact of the code's data, that its lists of
positive and of negative emotion words are disjoint. `Distinct` is the loop of
`_build_scoring_context` that keeps the first of the beats that are `Alike`.
`Deductions` is the record of the points each axis takes, `Taken` what is recorded of it
(points above zero), `Score` the score under the multipliers of some axes. The state is one guide; a step is a difference between the guides of two
attempts, or the second platform's cut. Ratios are exact where the code has floats.

Reading the axes closely, some do not behave as their comments suggest; the model follows
the code:

- The audio axis goes over the beats of every cut, so beats that two cuts share are
  penalised twice, although the comment at `evaluator.py:291` names duration and caption
  as the axes that look at cuts. It can take ten points; its docstring says five.
- The caption and hashtag axis can take up to four points for each cut.
- `docs/evaluation.md` gives the editability axis without the share of vague directions.
- The first tactical term of a script can cost a point (the narrative baseline is given
  up for a lower one), and so can a fourth emotion word in one beat and of one polarity.
  `SignalsNeverCost` names both as its exceptions.
- Alignment can take points without an issue line that says so.

## 3. The runs

| run | bounds | what it shows |
|---|---|---|
| `job_safety` | four job types with the code's budgets, 3 deliveries | type; job and owner agree; two runs never share a token; the start budget; a superseded run changes nothing; JobLifecycle is implemented |
| `job_liveness` | 2 deliveries, fairness | the owner leaves the in-flight state |
| `job_done_orphan` | 3 deliveries | *violation*: the done-orphan sweep flips a cut that a later render has in flight |
| `cut_safety` | 3 jobs, 4 runs, 2 texts, 2 directions, 2 assets | one job in flight; the row describes the file; uploads are the approved content, cleared, and at most one per job; a post is of the video on record or of a publish that lost its job; CUT_TRANSITIONS; a render's fingerprints are its own; each job implements JobLifecycle |
| `guide_safety` | 2 runs, cap 4, threshold 2 of 2 | guide and reel in step; overshoot and zombie spend bounded; best of three; meta true |
| `reel_pipeline` | 3 deliveries, the code's resumes, fairness | the reel is driven by exactly one job until it settles; the context is fixed at the hand-over; the failure page shows the job that failed the reel; both jobs implement JobLifecycle; the reel settles |
| `row_locks` | enrich, generate and render workers, reaper, a router; 2 claims of generate, 1 of the others | no set of transactions waits for each other; the committed owner and jobs agree |
| `fetch_safety` | the code's 3 redirects; the watchdog can be armed | a body cut off is never delivered; vetted hosts only; no closed descriptor is shut; the download ends |
| `asset_cache` | 3 renders, 2 cuts, 3 candidates, one refusable old file | files appear complete or not at all; what is pinned is there |
| `accounts` | 2 states, callbacks, tasks and accounts, 2 rows, a key or none, a YouTube cut | a state lets one callback in; what is sent is a token of the connected account; the history is what platforms said |
| `accounts_batch` | 1 task, a YouTube and an Instagram cut | *violation*: one cut's failed refresh ends the batch |
| `evaluator` | three hooks, six body beats, two calls to action; four or five beats, a second cut | a second cut is not counted twice, nor in a score without the axes judged per cut; no axis outgrows its documented weight, so a multiplier moves the score by no more; better lines do not cost points |

Why the bounds are enough. Two deliveries make a race and a third one outlives it
(a run superseded twice, a retry of a resumed run, or one for each job of a reel and one
more); budgets are the code's own. In CutPipeline a job is created per operator request:
three allow render, re-render and publish in any order, with a fourth execution for the
zombie of any of them. Two texts and two directions tell an edit that keeps the pins from
one that does not; one beat suffices because beats do not share state. In GuideGeneration
the cap of 4 puts the check in the middle of both paths and allows an invalid reply plus
two candidates within one run; the score range has a failing score of zero, a failing
score that can be best and a passing one. One download is independent of the next, and the
redirect limit is the code's. In AssetCache two renders race for one file and a third one
comes after them, two of them for one cut; three candidates cover a file shared with
nobody, a row with two files, and a refusal. In RowLocks every kind of transaction that
takes more than one lock runs against each other one, on the rows of one reel and one cut:
transactions of different reels share none. The second claim of generate lets `Abandon` and
the reaper meet a generate job that was resumed; a second one of a render would only repeat
its transactions. In Accounts two of each actor make every race
the properties are about, and a row is never created twice without one; two keys are a key
and none, and a change of the key meets rows sealed under either. One cut is enough in
`accounts` since cuts share only the credential, and the same properties hold with an
Instagram cut in its place. The evaluator's lines include, for every axis, one that it
penalises and one that it does not, and the three like beats of the body with one
rewritten at a time cover its thresholds on counts and shares.

CHECK_DEADLOCK is FALSE in every configuration: the systems legitimately stop when all
jobs are terminal and all deliveries, requests and tasks are used. Waiting for locks is a
property of its own, `NoDeadlock`.

`TypeOK` of a module documents the types of its variables. `job_safety` checks the one of
JobTask; the others are proved (`ReelTypeCorrect`, `FetchTypeCorrect`) or are part of the
inductive invariants below. CutPipeline has the larger `Types` of its proofs, RowLocks its
`Stage` and Evaluator its `Guide`.

Symmetry is used for jobs, executions, renders, texts, directions, states, requests, tasks
and accounts, which are interchangeable model values, and never in a run with fairness.

**Fairness.** `job_liveness` assumes only that time passes, that `max_runtime_s` is
eventually reached, that a run between its claim and its refresh goes on (`Capture`),
and that the reaper, scheduled by Celery beat every 60 s, takes each of its steps.
Nothing is assumed of the router, the workers or the broker: a run may stop at any
point, and every message may be lost. Without `Expire` the property is false (a run
whose thread beats for ever holds its job), which is what `max_runtime_s` is for.
`reel_pipeline` assumes the same, of both jobs: `ReelSettles` therefore also holds when
the process dies between the hand-over's commit and its hook, or the hook fails and its
cleanup is lost too, because the reaper's sweep of pending jobs comes after all of them.

`fetch_safety` assumes that both threads run, that time passes, and that the waits
the code bounds (DNS, connecting) end; a read of a connection that is shut or reset
returns. It assumes nothing of the host and no fairness of reads from a live
connection. Arming the watchdog must succeed (`DupFails = FALSE`): `trace` gives up
silently when `dup()` fails, and then a host that drips headers holds the download for as
long as it likes; the safety theorems hold either way.

**Violations.** Each quotes the comment or docstring it contradicts in `PROJECT.json`
"findings". `job_done_orphan`: the sweep of done jobs whose owner looks orphaned compares
the owner's state with the job's type, and a later job of the same type puts it there. TLC
finds a render that is done, its cut rendered again a quarter of an hour later, and the
sweep, which fails the finished job and the cut in flight for the new one.
`accounts_batch`: `pull_publish_metrics` promises that one cut's failure does not end the
batch; when the account is disconnected during a refresh, the commit fails, the exception
is caught, and the session is not rolled back, so the next cut's query raises.

The modules state further promises of comments that the code does not keep, for TLC to
show when named in a configuration: `PostedVideoStays` (CutPipeline: a superseded publish
records its post between a render's re-read and its stamp; `PostIsOnRecord` is what is left
of it), `SoftLimitEndsRun`
(GuideGeneration: a paid call after the soft time limit was swallowed),
`BlackFramesReported` (AssetCache: a beat renders black and is not listed) and, with
`CaptureStalls = TRUE`, `OneHolderPerToken` (JobTask: the token is captured in a later
transaction than the claim). `api/config.py:60` calls the cap on paid calls a hard ceiling;
`OvershootBounded` is what the code keeps instead: a run that passes its check with one call
left makes the three of an attempt, and every other run may be anywhere in the five
stages of the structured path. With a cap below three those stages are all there is, and the
bound is five calls for each run whatever the cap. (The bound stated first, without that
case, was false for a cap of 1 or 2: the attempt to prove it for every cap showed it.)

## 4. The proofs

`JobTaskProofs.tla`, over any sets of deliveries and types and any budgets:

- `JobTypeCorrect`: the type invariant, one lemma step per action.
- `OwnerAndJobAgree`: a job is reduced to the handful of ways a step can change its
  row (`JobStep`, a lemma that covers every action); each of these preserves the
  equivalence. The invariant is inductive given the types.
- `JobImplementsLifecycle`: the same case split, each case a step of JobLifecycle or
  a stutter, under the refinement mapping `phase <- status`,
  `held <- (owner = "inflight")`.
- `StartsAreBounded`: needs `StartsInv`: a pending job of a task without retries has
  a token no larger than its resumes, because only a resume puts it back to pending.
- `TokensCorrect`: `TokensInv`, no delivery is ahead of the row's token, none holds
  one before capturing, and one past its done-stamp still holds the row's.
- `Fencing`: from `TokensInv`, by action: a run whose token is older than the row's
  fails every compare-and-set.
- `Exclusion`: tokens of distinct deliveries differ. Its inductive invariant,
  `CaptureInv`, adds that a claimed but not yet captured run is alone and ahead of
  every token; that part is preserved only if the reaper cannot act in between, so the
  theorem assumes `CaptureStalls = FALSE`. With TRUE, TLC finds two runs with one token,
  so the assumption is needed.

`CutPipelineProofs.tla`, for any jobs, executions, guides and assets; the first three theorems
and the refinement for any concurrency of the rendering queue. `Types` says what the record
of an execution holds at each point and that it runs a body of its job's kind; everything else rests on it.

- `OneJobAtATime`: every action is one of a few ways in which the cut's status and the jobs
  change together (`JobChange`). `Flight`, the property without cardinalities, is inductive:
  a route creates a job only for a cut whose status no flying job explains, and a run that
  holds its job flies.
- `TransitionsFollowed`: from `Flight`. A body writes the status without reading it again;
  that it held its job says what the status was.
- `UploadsHappenOnce`: every action is one of a few ways in which the executions and the
  uploads change (`RunChange`). `OnceInv` says that a publish job someone runs is never
  pending again and has one run, and that an upload is that run's, past its upload. That
  nothing is uploaded over a recorded post needs `Filled`: the file, the row and the post
  are never empty again, so the post a job was created under is seen by the run's gates.
  No assumption on the done-orphan sweep is needed.
- `ReviewedVideoIsOnRecord`, `UploadsPassedTheGates`, `RenderFingerprintsItsVideo`: under
  `RenderSlots = 1`, the concurrency docker-compose.yml gives the rendering worker; with 2
  the first is false. The inductive invariant `CutInv` adds to `Types`, `Flight` and `Filled`
  what the four places that describe a video say of each other (`Recorded`), as long as
  no job was misreaped: a row that passes for current describes the file (`RowRecords`); in
  review nobody renders (`Reviewed`); a render, superseded or not, has the guide as it is
  and, past its beat, the pins and the file (`RenderOK`); and a publish that holds its job has
  all of them, past the gates also when a superseded render is about to replace the file,
  because it can only put the same there (`PublishOK`).
- `JobsImplementLifecycle`: from `OneJobAtATime`. While nothing was misreaped, a job that
  was asked for holds the cut exactly while it is pending or running (`HoldsInv`): the
  state of the cut says which kind of job is in flight, and there is one. With that, each of
  the ways in `JobChange` is a step of `JobLifecycle` for the job it is about and a stutter
  for the others.
- `PostOnRecord`, under `RenderSlots = 1`: `PostInv` adds to all of the above that the
  execution of a publish holds its job, or the job failed (`Owned`); that what is about to
  be recorded was uploaded, and a published cut has a post (`PostSeen`); and that a publish
  which holds its job sends what the row describes, so that a post is of the row, or a
  render in flight finds only the post of a publish whose job failed (`PostMatches`). The
  case that makes the last part necessary is a render after a publish that was reaped
  while it uploaded.

`ReelPipelineProofs.tla`, for any deliveries and any resume budgets:

- `ReelTypeCorrect`: the type invariant, one lemma step per action.
- `ReelAndJobsAgree`, `FailuresAreExplained`, `MetaIsTrue`: every action is one of the few
  ways the reel and the two rows can change together (`ReelStep`; the lemma that says so
  needs `EnrichBodies`, that only deliveries of the enrich job run its body). `ReelInv` is
  preserved by each of them. `ReelHasItsJob` is not inductive alone: a hand-over or a
  failure of enrich while a generate job exists would break it, which `OneAfterTheOther`
  (the generate job exists only once enrich is over) excludes. `FailedByOne` adds who
  failed the reel, without which the page could show the other job.
- `ContextIsFixed`: from `OneAfterTheOther`, since only the heartbeat of a running enrich
  job commits its reply.
- `BothJobsAreJobs`: the same case split twice, each case a step of `JobLifecycle` or a
  stutter for the enrich job and for the generate job.

`AccountsProofs.tla`, for any number of accounts, states, requests, rows, tasks and restarts:

- `StatesAreUsedOnce`. The strengthening is `AcceptedAreGone`: a state that let a callback
  in is out of the table, and nothing mints it again.
- `TheConnectedAccountIsUsed` and `TheHistoryIsRaw`, from one invariant, `UseInv`. Unless
  writes crossed, a provider has one row, of the account it was last connected to, and a
  callback that found no row is still right about that (`LinkedOK`); a task that holds a
  row can read it as long as it exists (`Good`), so a credential that is loaded again after
  a refresh is of the account of that moment. `HistoryOK` adds that a cut shows one of its
  readings, or nothing while it has none: without it a task whose value is left out of the
  `UPDATE` could leave a cut blank.

`GuideGenerationProofs.tla`, for any executions, scores, threshold and cap:

- `GuideAndReelAgree`, `BestIsAccepted`, `ZombieSpendIsBounded`, `MetaIsTrue`, from one
  invariant, `IInv`: for every point of the body, what the run carries of candidates and
  scores, what it will write to `job.meta`, and how many calls it can have made since it lost
  its job (`Spent`). That last table is why a heartbeat before each group of calls bounds
  what a superseded run spends.
- `OvershootIsBounded`: `Spending`, calls made plus calls ahead. `Ahead` gives each run
  the calls it can still make before its next check of the budget; a call moves one from
  ahead to made, and a check that passes adds at most three, at a time when the count
  is below the cap.
- `GenerateJobIsALifecycle`: the reel is generating exactly while the job is pending or
  running (`GuideFollowsReel`, a part of `IInv`), so that the job's phase and the reel's
  status change in the same steps; each action is then a step of `JobLifecycle` or a
  stutter.

`AssetCacheProofs.tla`, for any renders, cuts, chain of candidates and sharing of files and
rows: `NothingPartialIsInstalled` and `PinnedFilesStay`. `IInv` says that installed files are
complete or were there before the content checks (`Whole`), that the file of every row is
there, not only that of a pinned one, and what a render that searches, deletes, installs or
pins knows of the file it is at (`Tracked`): it deletes only files from before the checks,
and those count as present.

Its last part is about SafeFetch, for any redirect limit and whether or not the watchdog is
armed: `FetchTypeCorrect`, `NoTruncatedDownload`, `OnlyVettedHosts` and `NeverShutsAnother` follow
from one inductive invariant, `FetchInv`. None of the four is inductive by itself: that a body
cut off is not delivered needs `FlagOutlivesShutdown` (a connection that was shut, or a body
cut off by it, goes with a flag that stays set until the hop is over), and that needs
`HoldsWhatItShuts` and `FreshHop` (a new hop starts without watchdog, connection or flag).
`FetchInductive` has one case per action; the case of `Cancel` is split by whether the
download goes on to a next hop.

`RowLocksProofs.tla`, for any workers and any jobs they deliver: `CommittedRowsAgree` and
`NobodyWaitsInACircle`. `LockInv` says where in its program each transaction is: which locks
it holds, which rows it has written and which statements are left (`Stage`, eight kinds of
transaction). It is inductive together with `Exclusive`, that locks exclude each other, and
`Agree`, that owners and jobs agree *and* one job per owner is in flight. What a
transaction read of a row stays true while it holds the row's lock; `StageStable` is
that argument, from which it follows that a commit of another process disturbs no stage.
Deadlock is excluded by an order: enrich, the other jobs, the reel, the cut and, last, the
reel as the row an insert refers to, which only `FOR UPDATE` excludes. A process that waits
asks for something later than everything it holds (`InOrder`), and who is in its way
holds something no earlier than what it asks for (`Later`), so along a circle the order
would rise for ever. Where a transaction goes back to a row (`HandOver` to its job and its
reel, `TriggerRender` to the cut) it has a lock already that makes it wait for nobody
(`HasIt`).

`EvaluatorProofs.tla`, for any lines, directions, beats, source and target length:

- `GuideInv`: the beats of a cut are numbered and follow the shape of a guide, its last one
  perhaps left out, and the beats of a second cut are alike those of the first, one by
  one. That is what the three theorems need of the guides that are scored, and it is
  inductive.
- `SecondCutIsNotCounted`: `AllBeatsAre`, that the beats which are counted are those of the
  first cut, from `DistinctIs`, a lemma about the loop that keeps the first of like beats: if
  the first `n` of a sequence have an index each and every later one is alike one of them,
  it keeps the first `n`.
- `MultipliersReachNoFurther`: `DeductionsType` says that every axis takes an integer, and at
  most the points of the table in `docs/evaluation.md` (`Weight`), with one lemma for each
  axis. Most of the work is there: no axis divides by a count that may be zero, each ratio
  is taken over beats that exist, the parts of retention, insight and alignment stay within
  their axis, and the axes judged per cut within five points for each (`SumType`). The rest
  is that clamping keeps the order of scores and their distances (`Clamped`). The score of
  `SecondCutIsNotCounted` uses the same arithmetic of recorded points (`WeighedIs`,
  `MutedSum`).
- `SignalsDoNotCost`: two guides in one place have the same beat types wherever both have a
  beat, so "says more" is a relation between like beats (`Better`). A lemma for each of the
  four axes: the missing stages of a story, the echoed sentences of the source, what an
  insight earned, and the emotion words, whose count is a sum only because no word is in
  both lists. `InsightGains` and `EmotionGains` carry the two exceptions, of one point each.

The sums and the distinct beats are recursive functions. The lemma `Steps` is induction over
the positions of a sequence with a *set* in the place of the property, which the provers can
take where they cannot take the library's operator; `SumType` and `DistinctIs` use it.

Every theorem rests on the named assumptions of its module, which TLC evaluates on the
instances: an unused value is not a member of the set it stands outside of, executions of a
job are finitely many, the chain of candidates is not empty and candidates with one file are
all images or none of them is, and so on. Five theorems assume more, as said above
(`CaptureStalls = FALSE`; `RenderSlots = 1`).

Every safety and action property that a passing run checks is proved. Only model-checked is
liveness (`OwnerReleasedEventually`, `ReelSettles`, `DownloadEnds`), which is outside the
prover. What an axis of the Evaluator computes, beyond its bounds and the three theorems, is
not stated at all.

## 5. Not modelled

Prompts, the script parser, the word lists and regular expressions of the evaluator and
the wording of its issues: what a line matches is given. Filter graphs and ffmpeg, pixel
and byte limits, page rendering, migrations. The paid image and video generators of the
asset chain, music, licences, and files whose check fails for a passing reason (they are
kept and served). The caption, hashtags, attribution and thumbnails of a cut, which no
gate reads. Speech, subtitles and the speech cache, whose temporary name is fixed per text.
Correlations, which are statistics over the history, and the operator's notes. OAuth
URLs, scopes and account labels, and what a platform does with a video after accepting it.
Of the job: `error`, `attempts` and `progress`, which decide nothing.

A process that dies between the platform's acceptance and the commit of the post's id
can lead a *second* publish job to post again; the repository documents this, and the
model has it (`Kill` between `Upload` and `RecordPost`); `JobUploadsOnce` is about one job.

## 6. Plan

Done: the job and its lifecycle, the cut, generation, one download, the file cache, the reel
with its two jobs, the row locks, the accounts and the metrics, and the evaluator, each with
proofs of all the safety properties its runs check; and every job of every module shown to
implement `JobLifecycle`.

What is worth doing next:

1. `SoftLimitEndsRun` does not hold. A weaker form (how many calls follow a swallowed limit)
   needs a count in the model that the code does not keep; `ZombieSpendBounded` and
   `OvershootBounded` bound the same calls from the other side.
2. The attribution in a post's caption, which is read after the gates (`publish.py:71`), and
   the speech cache with its fixed temporary name (`tts.py:192`): the two hazards without a
   property. Both need a part of the system that is not modelled.
3. Cue timing and beat timecodes against a reference definition.
