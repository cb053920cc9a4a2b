# FluxDigest: a verification development

TLA+ models of the Go services of FluxDigest, the TLC runs that check them on
small instances, and TLAPS proofs of their main properties for every value of
the constants. Everything is translated from the code in `src/`; where a
document of the repository says something else than the code, section 3 tells
it, and a run shows the one that matters most.

Paths below are relative to `src/internal/` unless they begin with `src/`.

## 1. The system

FluxDigest reads the unread entries of a Miniflux server, has a language model
translate and analyse each of them, stores a *dossier* per article, and
publishes one digest per day to a Halo site (or as a Markdown file). Three
processes share a PostgreSQL database and a Redis queue (asynq):

    rss-scheduler --trigger--> queue --deliver--> rss-worker --> Miniflux
          |                      ^                    |     --> model API
       settings                  |                    |     --> Halo
          |                   rss-api                 |
          +---------------- PostgreSQL ---------------+

### Components, their state and what makes them correct

| Component | State | Operations | Hard behaviour | Correct when |
|---|---|---|---|---|
| Digest publication (`service/daily_digest_runtime_service.go`, `repository/postgres/digest_repository.go`) | one row of `daily_digests` per date: state, content, remote trace | `Run`: `GetState`, `BeginPublish`, `MarkPublished`, `MarkFailed`, `MarkRecoveryRequired`, forced claim | several executions of one date; errors after the effect; worker death between claim and mark | one publisher at a time, no second visible post, the trace names a real post |
| Halo publisher (`adapter/publisher/halo`) | posts at Halo | draft request, publish request, classes of errors | answers lost or wrong, requests served late | an outcome that is not certain is never retried |
| Markdown publisher (`adapter/publisher/markdown_export`) | one file per digest | write | none to speak of | - |
| Daily pipeline (`Run`, `service/article_ingestion_service.go`) | Miniflux read marks, `source_articles`, dossiers, the row | fetch, process, generate, claim, publish | every stage commits before the next one can fail; entries arrive meanwhile | nothing is consumed unseen, every unread entry is taken up |
| Worker pool (`service/runtime_processing_runner.go`) | channels, goroutines, a shared context | feed, run a job, collect, mark read | cancellation against results, early exits, a blocked feeder | all or nothing, the order of the listing, the real error, no leak |
| Scheduler (`app/scheduler/server.go`) | `lastDigestDate`, ticks | `runOnce` | restarts, slow or failed calls, time zones | one trigger per date, none missed, none early |
| Triggers and queue (`service/job_service.go`, `src/cmd/rss-api/main.go`, `task/asynq`, `app/worker/server.go`) | tasks by name: waiting, active, archived | enqueue, refuse a name in use, redeliver, archive | a name that stays in use; answers lost after the effect | what was asked for runs |
| Dossiers (`service/dossier_service.go`, `repository/postgres/dossier_repository.go`, `publish_state_repository.go`, `processing_repository.go`) | processings, versions of dossiers, the active one, publish states | load or make a processing, `SaveActive`, first publish state | two transactions on one article under READ COMMITTED | one active dossier, the newest; nothing stored is lost |
| Digest planning and rendering (`agent/digest_planning`, `render`, `workflow/daily_digest_workflow`) | none | plan, check the trace, fall back, render | incomplete or invented answers of the model | the digest names given candidates only, a fallback every one of them once |
| Configuration profiles (`service/admin_config_service.go`, `runtime_config_service.go`, `profile_service.go`, `repository/postgres/profile_repository.go`) | versions of five kinds of profile | load, change, save as next version; snapshot | two administrators, a process that seeds beside them; secrets kept, replaced or cleared | always an active version, never an old one again; defaults override nothing; a kept secret is kept |
| Start of the API (`repository/postgres/migrator.go`, `service/profile_service.go`, `admin_user_service.go`) | `schema_migrations`, seeded rows, the advisory lock | lock, migrate, seed, unlock, serve | several processes; death between two statements; a lock that is lost with its session while its process works on | each migration once and in order, no double seed, nobody serves on half a schema |
| Model invoker (`src/cmd/rss-worker/main.go`) | a chain of models, attempt counters | ask, retry, fall back to the next model | classes of errors, a deadline over both loops, over all calls of a task | what may be tried is tried, nothing else |
| Texts of an article (`adapter/llm`, `service/dossier_service.go`, `publish_policy.go`) | processing, dossier, publish state | translate, analyse, build the dossier, decide on publication | answers that are incomplete, out of range or contradictory | nothing is queued for publication that does not read as advised |
| Admin sessions (`service/admin_auth_service.go`, `app/api/handlers/admin_auth_handler.go`, `app/api/middleware/admin_session.go`) | sessions with expiry, in Redis or in memory; cookies | log in, check, log out | read, compare with the clock and delete in three steps; answers lost; restarts | a request acts as the user who logged in, never after logout or expiry |
| Settings in use (`service/admin_config_service.go`, `runtime_config_service.go`, `admin_status_service.go`, `admin_test_service.go`) | active profiles, the environment | merge for the tasks, merge for the console, check for completeness, save what is shown | two merges and three notions of completeness written apart; profiles read one by one | the console shows what tasks use; saving a page unchanged changes nothing |
| Query API, configuration loading, telemetry, web console, installers | no protocol state | | | |

Interactions: the scheduler and the API only put names into the queue; the
queue calls the worker's handler, at least once per task; the handler runs
`Run`, which calls ingestion, the pool, the planner, the publication row and
the publisher in that order; the pool calls the dossier component for each
article, and so does the reprocess task; everybody reads the profiles.

## 2. Modules

| Module | Models |
|---|---|
| `DigestPublish` | concurrent executions of `Run` around the row of one date and the Halo publisher |
| `DigestLedger` | what they promise while nobody forces a rerun (abstract) |
| `ProcessPending` | one call of `RuntimeProcessingRunner.ProcessPending` with all its goroutines |
| `PendingBatch` | what such a call promises (abstract) |
| `DigestRun` | the stages of `Run` with the data each one leaves behind, over retries and forced reruns |
| `DailyTrigger` | scheduler, API triggers, queue and the window of an execution |
| `Dossier` | executions that process and materialize one article at once |
| `DossierLog` | what `SaveActive` promises (abstract) |
| `ProfileConfig` | seedings and saves of one settings profile at once, and what becomes of its secret |
| `ModelChain` | a prompt on its way along the chain of models |
| `DigestPlan` | validation, tracing, fallback and order of a plan of the digest, as operators |
| `Generation` | what one task makes of the models' answers: the texts of an article, its publish state, the plan; extends the two above |
| `Bootstrap` | API processes that start at once: lock, migrations, seeds |
| `AdminSession` | login, check and logout over both stores |
| `SessionLedger` | what a store of sessions promises (abstract) |
| `SettingsMerge` | the merges of a profile with the environment, the notions of completeness and the next payload, as operators |
| `Settings` | tasks and pages that read the profiles while administrators save them; extends `SettingsMerge` |
| `DigestPublishProofs`, `DailyTaskProofs`, `DossierProofs`, `ProfileConfigProofs`, `ProcessPendingProofs`, `GenerationProofs`, `BootstrapProofs`, `AdminSessionProofs` | theorems and proofs |
| `MC...` | values of constants, symmetry |

How they fit together: `DailyTrigger` says when executions start and for which
window. `DigestRun` is one date's executions one after another; it takes
`ProcessPending` as one step with the contract `PendingBatch` gives it, and
the publication as one step whose interleavings are `DigestPublish`. `Dossier`
is what one job of the pool does to its article when another execution works
on the same one, and `Generation` is what both put into the rows: the contents
`Dossier` and `DigestRun` do not look at. `Bootstrap` ends where the other
modules begin, with a schema and its defaults. `ProfileConfig` has the versions
of one profile under overlapping saves, with the secret as the only content;
`Settings` takes a save as one step and has the contents of three profiles,
with their readers. `AdminSession` guards the routes on which these saves
arrive.

Operators whose comment begins with "Mutant:" are plausible wrong versions of
the definition below them. No specification uses them: putting one in the
place of the right definition must make the named property fail, which shows
that the property depends on that part of the code. `PROJECT.json` lists the
pairs, and for every definition the lines of code it stands for.

### DigestPublish

State. `rowState`, `rowDigest` and `rowRemote` are the columns
`publish_state`, title and content, and `remote_id`/`remote_url` of the row;
contents and posts are numbers of executions, because every execution posts
under a name made from the clock. `pc`, `job`, `force`, `tries` are a worker's
place in `Run`, its execution, `RunOptions.Force` and the counter of
`markPublishedWithRetry`. `requests`, `drafts`, `live` are Halo: requests not
yet served, created and published posts.

Actions. `CheckState` is the first `GetState` and its early returns
(lines 97-109 of the service). `Prepare` stands for the stages between, which
write other tables. `BeginPublish` is the transaction of
`DigestRepository.BeginPublish`; `ForceCheck`, `ForceMarkFailed` and a second
`BeginPublish` are `beginPublish` of the service with force; `Recheck` is the
`GetState` that follows an unclaimed row. `SendDraft` to `AnswerLost` are the
two requests of the publisher and the classes of its errors: a status outside
2xx for the draft is retryable, every other failure is ambiguous.
`MarkPublished` with its retries, `MarkRecoveryRequired` and `MarkFailed` end
an execution. Every statement of the database may fail without its effect, and
the statements that return nothing may fail after it. `Crash` is the death of
a worker or the end of the task's context. `Serve` and `Lose` are Halo: an
answer may arrive before its request is served.

### ProcessPending

The caller's goroutine (`caller`), the feeder (`feeding`, `fed`), the workers
(`wpc`, `wjob`), the closer (`CloseResults`), the buffered `resultCh`
(`results`), the derived context (`cancelled`) and the caller's own
(`parentGone`). One action per statement that synchronises: the hand-over on
the unbuffered channel is one action of feeder and worker, and a select with
several ready cases takes any. `RunJob` is `runProcessingJob` as a whole: its
database work is local to one article (`Dossier`). A job ends with a
candidate, with an error of its own, or with the error of a cancelled context
before or after its effects.

### DigestRun

`arrived` and `unread` are Miniflux, `articles` is `source_articles` with its
two unique keys, `dossiers` are entries with an active dossier, `rowState` and
`items` the row and its items. `Arrive` and `UserReads` may happen between any
two stages. A stage either succeeds or leaves the part of its effect that the
order of its statements allows (`FetchAndPersist` a part of the articles,
`ProcessPendingFails` a part of the dossiers, or everything when only the last
answer was lost). `Crash` stops an execution between two stages.

### DailyTrigger

Time is counted in slots, `H` of them to a day, from a midnight in Shanghai.
`Look` and `Trigger` are `runOnce`: the decision with the time of the tick,
the configured zone and hour, then the call, which names the task after the
date in Shanghai. `EnqueueTask` refuses a name in use; `FailTask` redelivers,
then archives; `CompleteTask` frees the name. `StartTask` is the start of an
execution, when `digestWindow` looks at the clock. `Restart` loses
`lastDigestDate` and looks at the clock at once: the scheduler is not down for
any time, and one that stays down from before the hour until after midnight,
which loses the date in the code, is outside `NoDateMissed`. The scheduler takes
one tick in each slot: a slot stands for the hour or more in which the real loop
has 60 ticks.

### Dossier

`Load` and `Process` find or make the processing. `SelectVersion`,
`CloseActive`, `CloseAfterWait`, `Insert` and `Commit` are the transaction of
`SaveActive`. READ COMMITTED is modelled by what it does here: each statement
reads committed rows; an update that meets a locked row waits, then looks at
that row again and nowhere else; an insert with a key some open transaction has
inserted waits for its end, and fails on a committed key. `target` is the row
a transaction has locked and will close. `Fail` is an error, the end of the
context or a crash, which roll the transaction back. Processings are numbered
in the order they are saved: their `created_at`, by which the latest one is
chosen, is the application's time just before.

### ProfileConfig

One `profile_type`. `rows` are its `profile_versions`, with `id` the random key
by which `GetActive` (gorm's `First`) orders them; `env` and `cipher` are the
environment of the processes. `pc`, `kind`, `draft` and `seen` are a request's
place, what it is, the version it is about to create and the rows its update
found. `Start` begins a seeding, which waits for the advisory lock, or a save,
which is served once there is a version. `LoadSeed` is the check of
`SeedDefaults`, `LoadSave` an `Update` method up to `saveProfile`. `Update`,
`UpdateAfterWait` and `Commit` are the transaction of `Create`: an update sees
the rows committed when it began, so one that waited does not see what was
inserted in the meantime, and nothing makes versions or active rows unique.
`Fail` is an error, a request given up or a crash.

A payload is its secret: the stored text under its key (`key`) or under the one
of an earlier release (`legacy`, publish profiles only), in clear, encrypted,
empty or missing. `Kept` is `applySecret` in mode keep, `Effective` what
`RuntimeConfigService.Snapshot` makes of a version. Without a key for
encryption the API still passes a (nil) cipher on as an interface that is not
nil, so that the test for it in `normalizeStoredSecret` never holds and a
secret that would have to be encrypted makes the save fail (`CanStore`).

### ModelChain, DigestPlan, Generation

`ModelChain` is `chatModelInvoker`: `chain` after the removal of blank and
repeated names, `at` and `attempt` the two loops, `phase` the call. An error
is its class for the two classifiers (`ShouldRetry`, `ShouldFallback`), which
differ: an answer without usable content is asked for again whatever the state
of the context, a garbled response only falls back, a server error does both
while the context lives. `ended` is the context of the task, which spans all
its calls; `late` counts requests begun after its end, which fail at once.

`Generation` is the sequence of calls. `Begin` skips translation and analysis
of an article that has a processing. An answer that decodes is a member of
`Analyses`, `Dossiers` or `Plans`, valid or not; one that does not, or an error
of the database, is `ArticleFails` for an article. For the digest it leads to
a second attempt and then to the plan made from the candidates
(`PlanUnusable`, `PlanFails`). `Materialized` stores a dossier and its state,
which are two writes: either may be the last. A plan is checked twice, for its
form (`Valid`) by the agent, which falls back, and for its ids (`Traceable`)
by the workflow, which does not.

The fallback's order is `Before`, with the position where that does not tell two
candidates apart (`Precedes`), as in a stable sort; `Sorted` puts at each place
the candidate that as many precede. `Shown` is the order in which items are
rendered and stored.

Scores are in hundredths (a score between 1 and 10 is divided by 10); titles,
priorities are the classes the code tells apart. Free-text advice is a class of
its meaning and its words. `normalizePublishSuggestionValue` looks for a fixed
list of words against publication, then for one of words for it (`ListedAgainst`,
`ListedFor`): "for" has words of the second list and means them, "both" words of
both ("not ready to publish"), "against" words of the first only ("keep as
draft"). "missed" advises against publication in words only the second list
knows ("not worth publishing", "not recommended to publish", "不适合发布"). What
has no listed words is "other", advice for publication in other words included.

### Bootstrap

`pc` is a process between its supervisor's start and `serving`; `holder` the
session with the advisory lock, which is on a connection of its own. Statements
of migrations and seeds use the pool: a process whose session was ended
(`LoseSession`) goes on and notices when it unlocks. `Execute` and `Commit`
are the two ends of the transaction of a migration with its record; a second
transaction that creates the same waits at `Execute`, and fails if the first
one commits. `Find` and `Create` are the seeds, a profile at a time, then the
administrator, whose name is unique. `Fail` is any call that fails, with or
without its effect (`EffectOrNot`); `Crash` leaves the session to `SessionEnds`.

### AdminSession

`store` is the map or the keys in Redis, `jar` a browser's cookie and `self`
who gave the password for it, `req` a request on its way. `Draw` and `Save` are
the login; `Read`, `Check` and `Remove` are `Get` of the memory store, which
releases its lock in between, while Redis answers in `Read` alone; `Handle`
and `Logout` follow an admitted request. `Receive` is the answer with its
cookie, which `Lose` drops. Ids are 32 random bytes: drawn once each.

### SettingsMerge, Settings

A version is its payload and whether it was seeded: what an administrator
saved counts even when empty (`Explicit`), a seeded value gives way to the
environment. `Runtime` is the merge of `RuntimeConfigService.Snapshot`, `Shown`
that of `AdminConfigService.GetSnapshot`; `Accepts`, `Configured` and
`Testable` are the three notions of a complete configuration, of the worker,
the status page and the connectivity tests; `NewPayload` is what the `Update`
methods write. `ReadProfile` reads one profile, and others may be saved before
the next. `Histories` are payloads of earlier releases: other keys, secrets in
clear, numbers missing, secrets encrypted with a key that is gone. A secret is a
member of `Secrets`, encrypted one of `SealedTexts`: `Sealed` says which, and a
sealed text that is none of its values was sealed with another key. `Payload`
says which payloads there are, as an assumption on `Histories` and as the type
of everything saved later. It leaves out secrets of white space, and an empty
`halo_token` beside a filled `auth_token`, on which the two merges would differ:
the worker takes the older key, the console says that nothing is set. No code of
the repository writes such a payload, since every save deletes `auth_token`.

## 3. Runs

Every run ends with bounded executions, faults or clocks, so a state without a
successor is the normal end and the configurations say `CHECK_DEADLOCK FALSE`;
that nobody is stuck before the end is stated by the liveness properties
`RunReturns`, `AllStop`, `AllEnd`, `UnreadTakenUp`, `AskedIsSettled`,
`DigestIsMade` and `AllServe`.

| Run | Bounds | Shows |
|---|---|---|
| `publish_plain` | 3 workers, 3 executions, no force, every fault | the row is a lock (`OnePublisher`), a published row holds the content its trace shows (`PublishedMatchesContent`), `DigestLedger` is implemented: no second visible post |
| `publish_force` | 2 workers, 2 executions, forced or not, every fault | the trace is a published post (`RemoteIsVisible`), it is never erased (`OkMeansTraced`), every run ends (`RunReturns`) |
| `pending` | listings of 0, 1 and 3 entries and one with a duplicate, 2 workers | order (`CandidatesInOrder`), the reported error is the cause (`ErrorIsTheCause`), `PendingBatch` is implemented: all or nothing; everything stops |
| `run_stages` | 3 entries, two of them with one text, 3 failures, forced or not | nothing is consumed unseen (`MarkedHasDossier`), a published row has items with dossiers (`PublishedIsTraced`), every unread entry is taken up (`UnreadTakenUp`) |
| `trigger` | 4 slots a day, 2 dates, hour 1 or 2, one redelivery, one failed call or restart | no date missed, one trigger per date, none before its hour, what was asked for is settled |
| `dossier` | 3 executions on one article | the active dossier is the newest, what a successful execution wrote stays, `DossierLog` is implemented, everybody ends |
| `profile` | 3 requests, each a seeding or a save of any kind; keys in any order | always an active version, none active again that was replaced, defaults override nothing, mode keep keeps |
| `generate` | chains of one model and of two with a blank and a repeated name; 4 policies; complete, incomplete and contradictory answers, advice of six classes; up to 4 candidates, some of which nothing tells apart; plans with right, mixed-up and invented ids; the context ends anywhere | a call makes every request it may and no other (`TriesExactly`), what is queued unreviewed reads as advised (`QueuedReadAsAdvised`), items name candidates (`ItemsTraced`), the fallback shows every candidate once and in order (`FallbackComplete`), the digest is made (`DigestIsMade`) |
| `bootstrap` | 3 processes, 2 migrations, a profile and the administrator, 3 faults of any kind | migrations once and in order (`OnceInOrder`), `SeededOnce`, `ServesComplete`, everybody serves in the end (`AllServe`) |
| `session` | 2 browsers, users, sessions and requests at once, either store, one fault, expiry | a request acts as who logged in (`ActsAsItself`), `SessionLedger` is implemented: nothing is granted after logout or expiry, nothing denied under a live session |
| `settings` | one task and one page, 3 environments, 4 pasts (nothing, defaults, two earlier releases), two saves | a task uses nothing that was replaced before it began (`UsesCurrent`), a secret shown as set is one tasks have (`SecretShownIsUsed`), `OneNotionOfComplete`, `ResaveChangesNothing` |

The bounds are large enough for what they are about: one publisher holds the
row, a second one meets it and a third finds what they left (the theorems of
section 5 cover any number, and forced executions too, for which the run has
two); more entries than workers and fewer; two entries that share a text and
one that does not; a schedule, a slot before it, a slot after it and midnight,
with a second date on the other side; two transactions that wait for the lock
of a third; an update that waits for a save while a third request saves or
seeds; a last model with all its tries used up and the end of the context
before, in and after each request; a process that works on without its lock
beside one that has it and one that waits; a login while another request of
the same browser is between reading and deleting its session.

One run shows that the code does something else than the repository says:

| Run | Property | What happens |
|---|---|---|
| `run_retry` | `FailedIsRetried` | entries are marked read before the digest is published: after a refused publication every retry finds no candidates |

Differences met while reading, which no run is spent on:

- `src/api/openapi/openapi.yaml:415` has negative hints on publication become
  "draft". Advice against it that the list of `service/dossier_service.go:281`
  does not know, as "not worth publishing", "not recommended to publish" or
  "不适合发布", matches the list of advice for it and becomes "suggested"; with
  mode suggested and automatic review the article is then queued. The model has
  such advice ("missed"), and `QueuedReadAsAdvised` makes this one exception:
  without it the run `generate` fails. In the other direction, advice for
  publication in words that are not listed becomes "draft".
- Between the check of a forced run and its `MarkFailed`
  (`service/daily_digest_runtime_service.go:221`) the row may become
  `recovery_required`, and is claimed nevertheless; the test
  `TestDailyDigestRuntimeServiceForceRunStillBlocksRecoveryRequired` (line 346
  of the tests) says such a row stays blocked. `RemoteIsVisible` and
  `OkMeansTraced` hold all the same.
- Two feeds with one text violate the unique fingerprint at every attempt of
  that date, because `Upsert` resolves conflicts on the entry's id only
  (`repository/postgres/article_repository.go:35`); the design of 2026-04-10
  (line 444) wants articles idempotent by entry id or fingerprint.
- A task name held by an archived task is reported as already queued
  (`src/cmd/rss-scheduler/main.go:95`, `service/job_service.go:12`), and so
  described by `src/api/openapi/openapi.yaml:291`, while nothing will run.
- The next save in mode keep after a secret was cleared stores the
  environment's (`service/admin_config_service.go:488`), because an empty
  secret is taken for a missing one; the console calls the mode "keep the
  present one" (`src/web/src/components/forms/SecretField.tsx:12`).
  `ResaveChangesNothing` makes this one exception for secrets.
- `src/docs/superpowers/specs/2026-04-10-rss-ai-digest-platform-design.md:438`
  wants the failure of one article not to block its batch;
  `service/runtime_processing_runner.go:121` cancels the batch at the first one.
- A comment at `repository/postgres/digest_repository.go:144` reads `failed` as
  certainly not sent; a forced run marks published rows failed before it
  claims them again, and if it then dies, an unforced one publishes anew.
- The design of 2026-04-12 (line 360) takes all active dossiers of the window
  into the digest; the code takes those of the entries that are unread at the
  time, so a retry never sees the ones of an earlier attempt.
- The scheduler decides with hour and date of the configured zone, while the
  digest is named after the date in Shanghai; the run `trigger` is about the
  default zone. In a zone west of Shanghai a start between the two midnights
  generates the new Shanghai date at once, long before the configured hour, and
  the trigger at that hour finds it published (`ReachesSchedule` fails there).
- Two saves of a profile that overlap may both stay active, with the same
  version number; readers take the one with the smaller random key, so that
  `version` says nothing about which is newer. The design of 2026-04-10
  (line 246) wants a version per change.
- A digest task that read the latest processing before a reprocess task saved
  a newer one may make its dossier the active one last.
- A request for today through the API, before the scheduled hour, publishes
  the date; the scheduled task then finds it published and leaves out what
  arrived in between. Nothing in the repository promises otherwise, so
  `ReachesSchedule` is checked with forced requests only.
- The console caps the timeout of a model when it shows and when it saves it,
  the worker does not cap what it reads: a larger one from the environment is
  in effect until somebody saves the page (the exception for `timeout` in
  `ResaveChangesNothing`).
- A base URL or an output directory of white space counts as set on the status page
  and not for the tasks (the exception in `OneNotionOfComplete`).

## 4. Fairness

Safety properties are checked without fairness. Liveness uses weak fairness of:

- a running goroutine's next step (`Step(w)`, `WorkerStep`, `CallerStep`,
  `CloseJobs`, `CloseResults`): Go schedules every goroutine, database and HTTP
  clients have time-outs, so each call returns with a result or an error;
- in `Dossier`, a step the database does not keep waiting;
- in `DigestRun`, the stages and the delivery of the task: the queue redelivers
  failed tasks. It does so a bounded number of times, and the scheduler or an
  administrator asks again; failures are finite (`MaxFailures`);
- in `DailyTrigger`, the clock, the loop of the scheduler and the queue with
  its executions, which end by `RunReturns`;
- in `Generation`, the task (`Work`): requests to a model end, by the timeout of
  their client or with the task's context;
- in `Bootstrap`, the statements of a process, its restart by the supervisor
  (`Restart=always` in `src/deploy/systemd`), and PostgreSQL's notice
  that the client of a session is gone (`SessionEnds`). Waiting for the lock is
  weakly fair only: nobody overtakes for ever, since whoever serves does not
  ask again and faults are finite.

Nothing is assumed of crashes, lost answers, Halo's service of requests, API
requests or administrators, nor of the end of a context.

## 5. Proofs

Every safety property that a run checks is a theorem, checked by TLAPS for
every number of workers, executions, entries, models, candidates, processes,
sessions, saves, dates and failures. The assumptions are of two kinds. The named
ASSUMEs on the constants say what values the inputs have (types, limits above
zero, records with their fields, a blank that is no number), and TLC evaluates
them in the runs. What a theorem needs beyond that it states itself:
`ForceModes = {FALSE}` for the first four of `DigestPublishProofs`, the zone and
the hours of the schedule for `DailyTrigger`.

**DigestPublishProofs.** The property `OnePublisher` is not inductive alone.
`TypeInv` bounds the state and says that a running execution has its number
and how its failed attempts are counted. `TraceInv` holds with forced runs too:
an execution about to write its post has seen it live, and a published row has
a trace. `LockInv` is what the row protects without force: executions have
different numbers (`JobInv`); one that is between claim and mark finds its own
content in the row (`OwnerInv`); and nothing is visible or on its way while the
row can be claimed or a draft has not been accepted, afterwards only the post
of the row's content (`SentInv`). With it: `OnePublisherAtATime`,
`NeverTwoVisible`, `PublishedContentMatches`, `LedgerImplemented` (every step
is a step of `DigestLedger` or a stutter under `Phase`); from `TraceInv` alone
`RemoteAlwaysVisible` and `OkAlwaysTraced`.

**DailyTaskProofs** has three components, which share no state.

*The trigger.* `Ticking` is what holds in every zone: what was looked at is a
tick no later than the clock, and a call that takes long still ends before the
tick after it is looked at. With the scheduler in the zone in which the digests
have their dates (`InShanghai`, the default) `OnceInv` says that dates are
triggered in their order, and that a date triggered as often as there were
restarts and once more is over for this scheduler: `AskedOnce`. `MissedInv` is
an account: each slot that was looked at late on a date without a trigger is
paid for by a failed call or a restart. There are more such slots than faults
when the latest hour leaves them before midnight (`EnoughSlots`, which a
schedule at 23:59 on a day with a restart does not): `NoneMissed`. For
`ScheduleReached` the zone may also be ahead (`NotBehind`), and the API asks for
forced runs only (`ForcedOnly`): a plain request before the hour takes the name
of the task. `ScheduleInv` says that for every task in the queue an hour
configured for its date had come.

*The run.* `RunInv` adds to `MarkedHasDossier` and `PublishedIsTraced` what each
stage hands on: candidates and plan are entries with dossiers, the plan is not
empty once it is to be claimed, and every row there is names items with
dossiers. With it: `RunTypeCorrect` (which holds the unique fingerprints),
`NothingConsumedUnseen`, `NothingUntracedPublished`.

*The settings.* `SettingsInv` is `SettingsTypeOK`, which says that whatever is
saved over whatever an earlier release left, a secret is a text that a save may
keep and a number is a number, and `Current`, that what a reader has read was
active when it began or became so since. The rest are lemmas about the two
merges, for every environment and payload of that type: the secret a task uses
is the profile's own, or the environment's when the profile has none and nobody
saved it empty (`Own`), which is what the page shows; encrypting what is in
clear changes nothing that is read. With them `CurrentIsUsed`, `ShownIsUsed`,
`OneNotion`, and `ResavedIsSame`, which goes through the forms a secret, a text
and a number may be stored in. They assume of secrets that they are not white
space and not taken for a sealed text, and that different secrets are sealed as
different texts, which makes them readable with the key they were sealed with.

**DossierProofs.** `DossierInv`: versions are 1 to n, each once (`RowInv`); who
holds what (`LockInv`): a row has one holder and stays active while it is
held, one transaction at a time is between insert and commit, and it has the
next version and holds the active row, if there is one; what an execution that
went on after its commit has stored (`Stored`, `Authors`). The crux is `Insert`:
the two unique indexes let it through exactly when its version is the next and
its target is the active row. With it: `NewestAlwaysActive`, `OkAlwaysStored`,
`LogImplemented`, `TypeCorrect`.

**ProfileConfigProofs.** `ReplaceInv` is `NeverWithout` and `SaveReplaces` with
the types and `Fresh`: every transaction found only committed keys, what it
found it deactivates, and the row it inserts has a key nobody has found.
`SeedInv` says why seeding is harmless: one seeding at a time holds the lock,
it writes only while there is no version, saves begin only once there is one,
and every save has found every default before it commits. Mode keep is a lemma
about `Kept`. With them: `AlwaysAnActiveVersion`, `ReplacedForGood`,
`SettingsSurviveSeeding`, `KeepIsKept`, `TypeCorrect`.

**ProcessPendingProofs.** `PendingInv` follows each job through the goroutines.
A job that was handed out is in one place: with the one worker that is busy
with it, in the channel, or collected (`OnePlace`), and its candidate is in its
own slot (`InPlace`). While nothing went wrong none is lost (`Accounted`), so
that with a closed and drained channel as many results as jobs were collected:
the lemma `AllReceived` counts them. Workers send an error before they cancel
(`Caused`), and the channel keeps that order, so the caller knows the cause
before anything that follows from it. `Stocked` adds that a candidate is sent
and collected only of an entry that is materialized, and that a call that
collects has something to do. With them: `InOrder`, `CauseReported`,
`TypeCorrect`, and `BatchImplemented`: every step of a goroutine is a step of
`PendingBatch` or changes nothing it sees.

**GenerationProofs.** `normalizeLLMModelChain` names no model twice: the lemma
about `ChainOf` counts ranks of first places, and every bound on requests per
model rests on it. `GenInv` says what was asked of the models before and after
the present one, why a call failed, that a late request ends the calls, and
that a publish state comes from the suggestion of its dossier and that from
the advice. With it: `TriedExactly`, `OnlyReadAsAdvisedIsQueued` (of advice that
reads one way only, section 3), `TypeCorrect`.
`PlanInv` says what a finished digest was made of: the fallback over the
candidates while the model gave no valid plan, else a valid and traceable plan
with its ids replaced, and that the candidates have numbers to be sorted by. The
order of `Before` with the position is a strict total order (`InOrder`), so each
place has one candidate (`PlacesFill`: an injection into as many places is onto
them), and the cut into two sections loses none (`FallbackShown`). The sections
of the model's plan are any number: `FlattenType` proves what the recursion of
`FlattenSeq` yields from the least position at which it could fail. With them:
`OnlyCandidatesShown`, `FallbackShowsAll`, the latter from candidates with
dossiers of their own (`OthersAssumption`).

**BootstrapProofs.** `BootInv`: the migrations in effect are a prefix of them
all and exactly the recorded ones, a process knows a prefix of that, an open
migration is the next one and nobody else's. None of this needs the lock, which
is why migrations survive a session that is lost; the seeds rest on `Exclusive`,
which ends with the first lost session. With it: `MigratedInOrder`,
`SeededAtMostOnce`, `ServedComplete`, `TypeCorrect`.

**AdminSessionProofs.** `SessionInv`: from its draw to its save an id is known
to one request (`Fresh`); what is stored under an id belongs to whoever's
browser holds it (`Owners`) and keeps its expiry (`Timely`), so that a request
may judge by what it read earlier. With it: `NobodyElse`, `TypeCorrect`, and
`LedgerKept`: each step moves the sessions and every request as
`SessionLedger` allows.

The type invariants are proved and not spent a place in a run on, likewise
`AtMostOneVisible`.

Only model-checked are the liveness properties (`RunReturns`, `AllStop`,
`UnreadTakenUp`, `AskedIsSettled`, `AllEnd`, `DigestIsMade`, `AllServe`): they
need fairness and ENABLED, which are outside the prover's reach. Of a scheduler
outside Shanghai's zone only `ScheduleReached` is known, and that in zones
ahead: elsewhere `lastDigestDate` and the name of the task are about different
dates (section 3).

## 6. Not modelled

- The Markdown publisher: one file write under the name of the date, which
  overwrites; it has no request to lose and no second post to make.
- Prompts, the decoding of loosely typed JSON, markup and wording: text without
  state. What the code decides from decoded answers is in `Generation`.
- Authorization, slugs and payloads of Halo; the filter by which the Miniflux
  client drops entries outside the window. It makes one request, without paging:
  the entries of `DigestRun` are those the answer holds.
- Profiles of prompts and of the scheduler, the lookback hours, the fallback
  models and the review mode, in `SettingsMerge`: copied field by field. The hour
  and zone of the schedule are in `DailyTrigger`, the chain of models and the
  policy with its review mode in `Generation`.
- Lists and details of articles, digests, dossiers and job runs: reads of single
  rows. The API key: a comparison of one string.
- The lock inside one process that `migrator.go` takes on databases without
  advisory locks: no deployment uses one.
- Parsing of the environment, telemetry, the web console, installers.

External programs (Miniflux, Halo, PostgreSQL, Redis, asynq) are modelled only
by what the code meets: their map entries are marked external.

## 7. Plan

What is left, most worthwhile first:

1. Theorems about forced runs: what of `LockInv` survives them.
2. The Markdown publisher under `DigestPublish`, as a second publisher.
