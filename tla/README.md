# Metroline in TLA+

This directory specifies Metroline, a CI/CD server for self-hosted git servers: its pipelines, its
job queue, its runners, and how it keeps in step with a git server. Modules are translated from the
TypeScript under `src/`; TLC checks them on small instances and TLAPS proves the main results
about pipelines, cancellation, the job queue, runners, the start of the server, configs, secrets, tokens, the
syncs, listing and setup of repositories, commits and the logs for every instance. `PROJECT.json` lists components, runs,
the lines each definition stands for (`map`), hazards, findings and theorems.

## 1. The system

Metroline is one **server** process (Node.js, one event loop, MongoDB), any number of **runners**
(Node.js, Docker), a **git server** (Gitea, Gitlab or Github) and browsers. Server and runners talk
over socket.io; the git server calls webhooks and is called over HTTP.

Nothing in the server holds a lock. Every `await` on the database, the git server or a socket lets
any other handler run, and there are no transactions: a handler is a sequence of atomic database
operations between which anything may happen. That is where nearly all the hard behaviour is.

### Components

| component (source) | state | operations | what makes it correct |
|---|---|---|---|
| Pipeline progress (`server/jobs`, `server/pipelines`, `server/ci-config/process-ci-config.ts`) | jobs (`status`, `upstreamStatus`), pipeline (`status`, `end`, `error`), the commit's status on the git server | `setJobStatus`, `updateDownstreamJob`, `updatePipelineStatus`, `setPipelineStatus`, `setPipelineEnd`, `setPipelineError`, `processCiConfig` | no job starts before its upstream jobs have ended or is forgotten after they have; green is earned; the end is final |
| Cancellation (`server/pipelines/cancel`, `server/jobs/add-jobs.ts`) | `cancelledAt` of jobs and pipeline | `cancelPipeline` and its six steps, the delayed cancellation of `addJobs` | nothing starts once cancelled; everything ends; a user can cancel again after a failure |
| Job queue (`server/runners/pull-job.ts`, `server/jobs/lock-job.ts`, `runner/jobs/pull-job.ts`) | `runnerId`, `cancelledAt`, `runningJobs`, requests in flight | pull, list, lock, answer, time-out, reconnect, clean | a job is executed at most once, by the runner that holds its lock; none is starved |
| Runner (`runner/jobs/exec-job.ts`, `cancel.ts`) | containers, `jobsToCancel`, `jobContainers` | `execJob`, `registerJobForCancellation`, `cancelJob`, `removeContainer` | every job reports a final status; no container stays |
| Workspace clean-up (`runner/cleanup-workspace.ts`) | the volume of a pipeline | `cleanupWorkspace` | ends; removes the volume when no container uses it |
| Job logs (`runner/docker/create-container.ts`, `exec.ts`, `split-frames.ts`, `runner/jobs/exec-job.ts`, `server/job-logs`) | the counter of a job's logs, `job-logs` | the lines of the image pull, `exec`, `splitFrames`, `hideSecretsFromLog`, `addJobLog` | what is read back is what the script wrote, its secrets hidden |
| CI config (`server/ci-config/validate-config.ts`) | none | `validateConfig` | what is accepted can run; only what cannot is refused |
| Secrets (`server/secrets`, `prepare-secrets.ts`, `replace-secrets.ts`) | `secrets` of a repository | `addSecret`, `updateSecret`, `removeSecret`, `prepareSecrets`, `replaceSecrets`, `initPipelineJobs` | a branch sees its own secrets, the most specific ones, hidden from logs |
| OAuth tokens (`server/auth`) | `token`, `refreshToken`, time of next refresh | login, `refreshAuthTokens` | the stored tokens are usable and fresh |
| Repository sync (`server/repos/sync-repos.ts`) | `users` and `lastUpdate` of repositories | `syncRepos` at login, on request, periodically | permissions become those of the git server |
| Setup and webhooks (`setup-repo.ts`, `disable-repo.ts`, `post-commit.ts`, `create-pipeline.ts`) | `setup`, webhooks and keys on the git server | enable, disable, deliver, run by hand | an enabled repository works; a push gives one pipeline |
| Git server clients (`server/git-servers`) | none | `parseWebhookPayload`, `getLatestCommit`, statuses, lists | the commit built is the one meant |
| Database indexes (`server/db/indexes`) | the indexes | `configureIndexesForCollection` at start | a ready server has the specified indexes, whatever it found |
| Server start and migrations (`server/server.ts`, `server/db/migrate`) | how far `main` is, the migrations applied and recorded | `main`, `rollForward`, `rollBackwards` | nothing runs or is served before the database is what the code expects, however often a start is cut short |
| Repository list (`server/repos/list-repos.ts`, `user-can-pull-query.ts`) | none on the server; the browser's pages | `listReposRoute` | a listing misses nothing that stayed where it was |
| Browser sockets (`server/socket`, `server/jobs/job-socket.ts`) | rooms | `joinRoom`, `addJobLog` to the room | a watcher misses no log |
| Sessions, guards, routes, queries and serialisers, Docker helpers, logging | | | not modelled, see section 8 |

### How they interact

- A push (webhook) or a user (manual run) makes `createPipeline` insert a pipeline and its *clone
  job*. A runner pulls the job, reports statuses and sends the CI config it finds; `processCiConfig`
  validates it and inserts the *config jobs*.
- Each status message starts a `setJobStatus` call that writes the job, updates the pipeline and
  looks for children that may now run. Calls for different jobs, and the call that processes the
  config, run at the same time.
- Runners pull at intervals, when notified and when a job ends. The answer to a pull travels over the
  socket that asked; a runner that reconnects has a new socket id, and locks name the old one.
- When a pipeline ends the server asks runners to remove its workspace.
- Login stores tokens and starts a sync; periodic tasks refresh tokens, sync repositories and clean jobs.
- A browser joins the room of a job and requests its stored logs, side by side with the runner's messages; it lists
  repositories page by page, side by side with syncs.

### Hard behaviours

Decisions on stale readings (jobs read before two more awaits), calls that overlap, answers that come
after a time-out, runners that crash or reconnect, cancellation crossing everything else, one request of
several failing, restarts between two writes, and text and frames cut at bad places. `PROJECT.json`
has each as a hazard at its line with the properties that cover it.

## 2. Modules

| module | models | composed with |
|---|---|---|
| `Statuses` | statuses, `computePipelineStatus`, `when` conditions, the git server's statuses | used by the pipeline modules |
| `PipelinePromise` | **abstract**: what the server promises of a pipeline | |
| `PipelineProgress` | a pipeline from clone job to end | refines `PipelinePromise` (`INSTANCE ... WITH`) |
| `PipelineInvariant` | its inductive invariant | extends `PipelineProgress` |
| `PipelineCancel` | cancellation; restarts, statuses out of order and a refused insertion, as *scenarios* | extends `PipelineProgress`, whose actions it runs beside its own |
| `CancelInvariant` | the inductive invariant of `CancelInv` | extends `PipelineInvariant` and `PipelineCancel` |
| `PipelineProofs` | the theorems of `PipelineProgress` and `PipelineCancel` | extends `CancelInvariant` |
| `JobAssignment` | **abstract**: what the queue promises | |
| `JobQueue` | the pull protocol | refines `JobAssignment` (`INSTANCE ... WITH`) |
| `JobQueueProofs` | invariants and refinement | extends `JobQueue` |
| `JobReports` | **abstract**: what a runner promises to report about its jobs | |
| `RunnerJob` | a runner's jobs, cancellation and clean-up | refines `JobReports` (`INSTANCE ... WITH`) |
| `RunnerProofs` | invariant and refinement | extends `RunnerJob` |
| `CiConfig` | validation; what it accepts is what `PipelineProgress` assumes of a job graph | |
| `ConfigProcessing` | secrets, markers, job environments | extends `CiConfig`, which it hands the config to, as `processCiConfig` does |
| `JobLogs` | log frames from Docker to the database | |
| `JobWatch` | a browser that follows the log of a job | extends `JobLogs`, whose steps cross its own |
| `TextProofs` | the theorems of configs, secrets and the logs of jobs | extends `ConfigProcessing` and `JobWatch`, which share nothing |
| `TokenRefresh` | OAuth tokens over time | |
| `RepoSync` | permissions and `lastUpdate` | |
| `RepoListing` | the list of repositories, page by page | extends `RepoSync`, which rewrites what is listed |
| `SyncProofs` | the theorems of the tokens, the syncs and the listing | extends `TokenRefresh` and `RepoListing`, which share nothing |
| `RepoSetup` | enabling, disabling, webhooks, pipelines | |
| `SetupProofs` | its invariants | extends `RepoSetup` |
| `CommitSource` | which commit a pipeline builds | |
| `CommitProofs` | its invariants | extends `CommitSource` |
| `DbIndexes` | index configuration | |
| `ServerStart` | `main`: connection, migrations, indexes, tasks, listening, and every way to fail or restart | extends `DbIndexes`, whose steps are one of its own |
| `ServerStartProofs` | invariants of both | extends `ServerStart` |

`MC<module>.tla` gives definitions for the constants and `MC<module>_<run>.cfg` is one run. Operators
commented "Broken:" are variants of a neighbouring definition with a plausible bug. They are used by
nothing; substituting one shows that a property can fail.

## 3. How state and actions correspond to the code

Conventions common to all modules:

- **One database operation is one atomic action**, including `insertMany` of a pipeline's config jobs
  (one batch) and `updateMany` where the documents are one pipeline's jobs; in `RepoSync` `updateMany`
  works document by document. Reading and the later writing that depends on it are separate actions.
- **A call in progress is a record** with the step it is at (`pc`) and what it has read. In
  `PipelineProgress` these are `handlers`, `[kind, job, status, pc, ...]`.
- **Promises that nobody awaits** (the `.then` chains of `updateDownstreamJob`, `addJobLog`) go on as
  records of their own.
- **External systems** (git server, Docker, MongoDB's index rules, sockets, users) are actions with the
  freedom that `src/` has to cope with: `external` in the map.

`PipelineProgress`: `status`, `upstream` are the fields of the job documents, `present` the jobs inserted,
`pipeline` the pipeline document, `commit` what the git server was told, `exec` what runners do, `listed`
and `locked` the queue as far as a pipeline sees it. `SendRunning`, `SendFinalStatus` and `SendConfigFile` are
the runners' messages, each of which starts a call; `SendEmptyConfigFile` is the one that starts none, as
`extracted-files-from-container.ts:10` drops an empty config; `WriteStatus`, `ReadJobs`, `UpdateDownstreamJob`,
`ComputeStatus`, `ReadPipelineStatus`, `WritePipelineStatus`, `SendStatusToGitServer`, `SetPipelineEnd`,
`FetchCloneJob`, `AddConfigJobs`, `NotifyRunners` and `SetPipelineError` are what lies between two awaits of
`set-job-status.ts`, `update-downstream-job.ts`, `update-pipeline-status.ts`, `set-pipeline-status.ts`,
`process-ci-config.ts` and `set-pipeline-error.ts`. `GitServerFails` rejects the rest of a call, as an
HTTP error does. The constant `StatusInOrder` says that the writes of two statuses of one job take place
in the order they were sent. Nothing in the code ensures that (`set-job-status.ts:15` is a TODO about it);
messages of a socket arrive in order and the writes are sent to MongoDB in that order, so it is what
happens unless connections of the pool overtake each other. It is an explicit assumption of the proofs.
`PipelinePromise` knows of a job whether a runner was given it (`locked`) and its result, which is its status once that is final; and
of the pipeline what users and the git server were shown, a refusal and the end. It may show `running` at any time, even after a final
status: a call that decided on `running` may write it after another's `success` (`update-pipeline-status.ts:11`), and the workaround at line 30 there is only about
the moment the config jobs are added.

`PipelineCancel`: `cancelling` is the step of `cancelPipeline`, `stopping` the stop messages in flight
(which may be lost), `marked` the mark of the pipeline. One request to cancel is served at a time. `scenario`,
chosen once, says which one thing besides the git server may go wrong, so that each is checked against everything else
that goes on and the product of all is not: `steady`, a cancellation once the config jobs are there; `early`, one
before or while they are inserted, which `addJobs` answers with its delayed cancellation; `restart`, the server stops between any
two database operations; `lost`, the answer to a pull does not reach its runner, or the runner crashes or is left by Docker outside the `try` of `execJob`, or
its last messages are lost (`LoseReports`, for any number of jobs); `disorder`, two statuses of one job written in either order;
`refusal`, the database refuses the config jobs and `addJobs` only logs it (`add-jobs.ts:45`). An empty config may come in any of them. `CleanJobs` runs
in `restart` and in `lost`, at any time and with nothing lost yet as well, and ends whatever has no end, be it running.

`JobQueue`: `pull[p]` is a request: `idle`, `sent`, `lock` (a job was chosen), `answered`, with the socket
it came from and whether the runner still waits. `runnerId` is the lock. A socket is a pair of runner
and connection number; `Reconnect` and `Crash` change it. `CleanJob` is the periodic task.

`JobReports` knows of a job whether it was asked to stop, the status last sent and whether its end was sent. `RunnerJob`
maps its own messages to these three. `RunnerJob`: `pc[j]` walks through `execJob` one await at a time; `removals` are calls of `removeContainer`
by `execJob` or `cancelJob`; `container[j]` is Docker's view. A stop message may be handled twice, since
`runner.ts` registers its handlers again at every reconnection. `SlowStream` holds the jobs whose
stream may end more than 10 s after their container was removed, when `cancel.ts:45` has forgotten the job.

`DbIndexes`: a start creates all indexes concurrently; `Named` says under which names a key may be found.
The order in which `listIndexes` answers is not fixed, so it is a choice.

`ServerStart`: `boot` is the step of `main`; an error ends `main` but not the process (`failed`). `applied` is what the migrations
have done to the database, `changelog` what migrate-mongo has recorded, one write later; `torn` is history: the migrations
that a rollback undid and, cut short, left recorded. `tasks` says that runners are watched and periodic tasks run.

`CiConfig`: the checks of `validateConfig` in their order; the search for cycles is a recursive function
of a *call*, the dependencies that are left and `depChain`, which it threads as the code does, with its mutation of a shared array.

`ConfigProcessing`: the text is a sequence of tokens (backslash, marker, other) so that the regular
expression's reading of runs of backslashes is modelled by what it does (`Reading[i]` is what it has made of `i` tokens). Branch patterns are the branches
they match. A family of `Inputs` says what varies together; the initial state picks one input of one family.
`collection` is the repository's secrets in the database, which `AddSecret`, `UpdateSecret` and `RemoveSecret`
change at any time under the unique index on their names; `repoSecrets` is what `processCiConfig` read of it.

`TokenRefresh`: a *grant* is a pair of tokens with a lifetime; the git server accepts a refresh token once.
`Tick` passes time; requests carry the grant they were made with; a login stores its own grant
(or fails, and drops it), and the
answer of a refresh overwrites whatever is stored then. Identities of grants that nobody holds are
reused, which keeps the state finite. Github's tokens do not expire and are left out.

`RepoSync`: `ListPage` reads one page, `Pull` takes the user from one repository, `Upsert` adds them to
one again. `SyncReposRoute` and `SyncAllRepos` start a call without looking for others, as the code does: only the number of `Sync` bounds how
many of a user overlap. `ByActivity` is the order that `gitlab.ts:146` asks for: a `Push` moves a repository to the front of the list, between two pages too. The other
servers' own order is fixed (`RepoList`). Upserts are atomic: MongoDB retries one that meets a duplicate key. What was listed is a set of entries, each with the page it
was on, so that a repository that moved to the next page while the pages were read is there twice, as in the code's array; nothing depends on its order.

`RepoListing`: `walk` is one browser that reads all pages; a page is two readings, the count and the page itself. Repositories with
the same `lastUpdate` come in any order. `still` is history: what stayed in its place since the walk began. A walk is not followed any further
once something joined its list, left it or sank (`Shaken`). The search text and what is shown of a repository are left out.

`RepoSetup`: a call's identity stands for the key and the secret it generates. `careful` is chosen once, at
the start: careful administrators wait for each other and enable only what is disabled; the others do not.

`CommitSource`: `history[b]` holds all the states of a branch, so that a pipeline can be compared with what its
branch was while its request was served; a request waits for a set of answers, as `Promise.all` does,
each of which may come, fail or never come (`Unanswered`). `Matched` gives the messages that a marker matches as a regular expression, and `ValidPayload` is the schema, with the messages it requires.

`JobLogs`: `PullLine` is a line of the image pull, sent as a log of the stream `system` through the counter that the script's logs go on with (`create-container.ts:26`).
A chunk of the script's stream is a sequence of tokens of eight bytes, which are headers or parts of
payloads. A string of hexadecimal digits is then 16 digits per token, which matters because the code compares
an index with such a length. The strings between which the pattern of a header splits a chunk are found by where they begin (`Cuts`).
`HideSecretsFromLog` replaces the parts of a payload that are secrets, frame by frame. Pull and stream may fail anywhere, the
latter with part of the output unread (`exec.ts:66`), and the exit code or the files of the job afterwards: `Fails` is the `catch` of `execJob`, whose last log a cancelled job does not send.
The history variable `tidy` says whether all chunks so far held whole frames
and at most eight of them. Left out are a boundary within eight bytes, and with it a secret that two frames share; payloads that look like headers; the
text of the system's logs; and a chunk of the pull that ends within a line, which `JSON.parse` throws on in the handler of an event.
`JobWatch` adds the browser: `room` and `request` are its two requests, whose guards are steps before them, `emitting` the
stored logs that are not sent to the room yet.

## 4. What is checked

Properties are written beside the code they are about, each with a comment that names it. There is one
run per module that has behaviours, and one that must find a **violation** (V), listed under `findings`.

| run | instance | properties | shows |
|---|---|---|---|
| `pipeline_advances` | clone job; `a` (may fail) and `b` after it, `c` after `b` but excluded by its branch, `d` after `a` and `c` and only on failure; the config may be refused or empty and the git server may fail; 2 calls | `IInv`, `NoLostWakeup`, `LockedAfterUpstream`, `UpstreamStatusCurrent`, `GreenIsEarned`, `EndedMeansDone`, `ImplementsPromise` | in every interleaving jobs start after their upstream jobs, none is forgotten, green is earned, the end is final, and what is done implements `PipelinePromise` |
| `cancel` | chain of three in six scenarios; the config may be refused or empty, stop messages may be lost and the git server may fail | `CancelInv`, `NothingStartsOnceCancelled`, `CancelledStays`, `Terminates` | jobs start in turn and nothing ends or turns green too early, in every scenario; nothing is handed out once the pipeline is marked, cancelled jobs keep a final status, jobs end, and so does the pipeline unless it is `LeftOpen` |
| `queue` | 2 jobs, one of which may be cancelled; 2 runners, one of which crashes and reconnects; 2 requests with time-outs | `QueueInv`, `ImplementsAssignment`, `CancelledNeverStarts`, `EveryJobLeaves` | the queue implements `JobAssignment`, counts exactly, and leaves no available job behind |
| `runner` | clone job, and a job whose Docker may fail and whose stream may end late; one of them stopped twice, or each once, at any moment; a clean-up | `RunnerInv`, `ImplementsReports`, `EveryJobReports`, `CleanupEnds` | no container is left, what is reported is what `JobReports` promises, every job reports a final status, the clean-up ends |
| `config` | secrets that change twice, with few texts; all texts of up to 6 tokens; all graphs of 4 jobs with up to 2 dependencies each; too many jobs, missing jobs, missing images | `ConfigInv`, `CyclesReported`, `SecretsStayProtected`, `RepoSecretsWin`, `ReplacedExactly` | an accepted config can run, every cycle is reported, a branch sees its own secrets, markers are replaced exactly |
| `escapes` **V** | all texts of up to 4 tokens | `EscapedAsCommented` | backslashes before a marker do not become what the comment above the tests of `replaceSecrets` says |
| `indexes` | every set of indexes on three keys, each under the server's name or MongoDB's; 2 migrations, any number of them applied; 3 failures, crashes or rollbacks | `StartInv`, `KeepsMatching`, `Converges` | a server that serves is migrated and configured, correct indexes are never dropped, repeated starts succeed |
| `tokens` | period 1, margin 13, lifetime 15, latency 2; one request that fails, one answer that is lost | `TokenInv`, `StoredIsFresh` | stored tokens stay usable and fresh, or become so at the next login |
| `sync` | 1 Gitlab user, 2 syncs that may overlap, 3 repositories, one of them not allowed, in pages of two, 2 permissions; one push, change of a permission or pipeline; listings in pages of one or two | `ListInv`, `PermissionsSettle` | an undisturbed sync is exact; a listing misses nothing that stayed where it was; permissions are right again and again once syncs no longer overlap |
| `setup` | 3 calls, careful or overlapping; 2 pushes that are plain, skipped or empty; a failure and a restart | `SetupInv`, `OnePipelinePerPush`, `UnwantedIsIgnored` | a setup has its key and webhook; an unwanted push gets no pipeline, and with careful administrators every other at most one |
| `commits` | 1 branch, 2 commits, one marker or two, 2 changes, 1 manual run; Gitea, Gitlab, Github | `SourceInv`, `ProtectedWasProtected`, `PushIsBuilt` | what is built was the head, protected only if it was, skipped if and only if it matches a marker; every push of commits with messages is built, or waits for an answer that never comes |
| `logs` | a line of the pull or none; outputs of up to 2 frames, of 3, 8 and 9, with and without secrets, cut anywhere into 2 chunks; pull and stream fail anywhere; the shortest watched, by a user or by nobody known | `WatchInv`, `WatcherMissesNothing`, `AllIsLogged` | tidy logs are the output with its secrets hidden, as far as the stream went; a watcher misses nothing; everything is stored and numbered once, the pull first |

Every property of a passing run has a mutant in `PROJECT.json`: a plausible bug in a mapped definition
with which TLC finds the property violated.

`SourceInv`, `CancelInv` and their like are conjunctions of a type invariant and of the named parts that say
something; the parts are stated, with a comment each, above the conjunction.

### What the code does where a property stops

Two documents of the repository disagree with the code, and with assertions beside them:

- The comment at `replace-secrets.spec.ts:8-9` has one backslash stay before a marker (`\{{MY_VAR}}`) and one of two before a secret
  (`\hello`). The code drops the one and keeps the two, and the assertions of the same file expect that: `escapes` is the violation run, and
  `ReplacedExactly` is about the code and the assertions.
- The title of the test at `should-skip-commit.spec.ts:19`, "should be false when a marker matches", is the opposite of its assertion: with the marker `[ci skip]`, the message
  `chore: test` *is* skipped. Markers are regular expressions, and unescaped brackets match one character. There is nothing to refute in the assertion, which
  the code keeps: `MarkerSkips` says *matches*, not *contains*, and the instance has an escaped marker and an unescaped one.

Otherwise a property is only claimed where the code keeps it. While modelling, the following came up; none contradicts
a document, so none is a violation run, but each qualifies a property or an instance, and each is a hazard.

- A first-rank config job whose `when.status` excludes `success` is inserted as available (`process-ci-config.ts:69`)
  and may be locked before it is skipped. `SkippedNeverRuns` and `ImplementsPromise` are therefore claimed under `FirstRankRuns`.
- Config jobs inserted while a pipeline is being cancelled may escape the mark and be handed out
  (`add-jobs.ts:30`), and its delayed cancellation may cancel a job that a runner has just locked, whose `running` comes after it.
  `NothingStartsOnceCancelled` and `CancelledStays` are therefore claimed of `steady`; `Terminates` of `early` as well, where it says little more than that
  the jobs which escaped are executed.
- Many things leave a pipeline without an end, and `LeftOpen` names those of the model, which `Terminates` excepts: a git server that refuses the failure status of a
  refused config, since `setPipelineError` then stops before `setPipelineEnd` (`set-pipeline-error.ts:14`); an empty config, which is dropped without a word
  (`extracted-files-from-container.ts:10`); a database that refuses the config jobs, since `onlyHasSucceededCloneJob` keeps the pipeline open for them as for those of an empty config;
  a restart, which loses the rest of a call; an answer to a pull that its runner never gets (`runner/server.ts:54`), a runner that crashes, and Docker failing outside the `try`
  of `execJob` (`exec-job.ts:57`), after which no report comes; and `cleanJobs`, also in normal operation: it
  ends jobs by `status` and `end` alone, and nothing looks at their children or their pipeline.
- As soon as one job is cancelled `computePipelineStatus` gives `cancelled` (`compute-pipeline-status.ts:9`), which is final, whatever the
  other jobs do. So when `cleanJobs` cancels one of the jobs that another waits for, the other becomes available while the rest may
  still run; and when a job that was found available is evaluated again after such a cancellation, a `when.status` without
  `cancelled` sets it to skipped though a runner may have it. `CancelInv` excepts the jobs that are `Disturbed`, those with a cancelled job upstream,
  from `StartedInTurn` in `restart` and `lost` and from `SkipsInTime`. Larger instances than `cancel` show both; the proof attempt found them.
- When the writes of two statuses of one job overtake each other, a job that has ended may read `running`: `StartedInTurn` says for
  `disorder` that no runner executes an upstream job, not that its status is final; `Terminates` claims nothing.
- After `cancelPipeline` has failed half-way, the cancelled jobs may end the pipeline, and cancelling again is
  refused (`cancel-pipeline.ts:42`) though other jobs run. They do end by themselves: `Terminates`.
- The limit of parallel jobs is checked when a request is sent and counted when it is answered; two requests
  under way exceed it. `QueueInv` says that the count is exact, not that it is within the limit.
- The clean-up counts the containers before it listens for their removal, so one that is removed in between is
  waited for until the time-out: `CleanupEnds` lists three ends. A container that has stopped and is not removed yet is not waited for.
- When Docker fails outside the `try` of `execJob`, no status and no end are sent: `RunnerInv` and
  `EveryJobReports` exclude `DockerFails`. A stream that ends after the job was forgotten reports `failure`
  over `cancelled`: `JobReports` allows it for the jobs in `Late`.
- `findIndexWithSameKey` does not compare the order of fields, so a start may fail on a reordered key;
  the next one succeeds: `Converges`.
- A rollback that is cut short between undoing a migration and unrecording it leaves a server that takes it for applied:
  `ServesMigrated` excepts `torn`.
- The search for cycles never misses one, and invents one for some acyclic configs in which a job lists a dependency of
  another one of its dependencies: `CyclesReported` claims one direction.
- A chunk with more than eight frames loses payloads, and one that ends within a frame mixes headers into the text:
  `WatchInv` claims the text for `tidy` outputs, `AllIsLogged` that nothing stored is lost or numbered twice in any case. An error of the stream ends the log
  short of the output, and the text is then what was read (`FramesRead`). `hideSecretsFromLog` works frame by frame and does not hide a secret that two frames share.
- A join is answered with nothing, so a browser cannot tell whether it is in the room when it requests the stored logs. One that
  joins later may miss what was stored between the two: `WatcherMissesNothing` is about one that is in the room.
- The two conditions of `userCanPullQuery` may be met by two entries of `users`; `UserCanPull` says what the query does.
- A sync takes the user from repositories and sets their time back, so a listing beside it may skip some that are
  in the list before and after: `NothingPassesUnseen` excepts walks that are `Shaken`. New pipelines alone only show some twice.
- The pages of Gitlab's list move when somebody pushes between two of them: one repository is then listed twice and has its permission twice, and
  another is skipped and loses its permission until the next sync. `CalmMatches` is about syncs during whose listing nobody pushed.
- `syncAllRepos` does not look whether its last sync has ended, nor do its requests time out. As long as syncs of a user overlap, permissions may stay doubled or out of date:
  `PermissionsSettle` claims the repair once they no longer do.
- The schemas of the payloads require every commit to have a message (for Gitlab, a title) that is not empty (`github.ts:79-83`, `gitea.ts:80-84`, `gitlab.ts:81-85`), so a push with one that has none is refused
  as a whole; and requests to the git server have no time-out, so a `getBranch` that is never answered keeps its push waiting for ever. `PushIsBuilt` is about pushes whose commits have
  messages, and claims a pipeline or a request that hangs (`BuiltOrHung`).
- Gitlab's commit title, which is what `parseWebhookPayload` keeps, does not have the body, so a skip marker below the
  title is ignored; the instance of `commits` has no such marker for Gitlab.
- A sync sets `lastUpdate` back to what the git server says, before a pipeline that has just run.
- A restart between the removal of a webhook and `setup` being unset leaves a repository that looks enabled;
  `SetupWorks` claims the webhook of a repository whose disabling was not `interrupted`. An administrator who overlaps with another, or enables
  twice, may leave a webhook that reports pushes as well: `OnePipelinePerPush` needs `careful`; `UnwantedIsIgnored` does not.

## 5. Bounds

Each bound is a CONSTANT that guards an action, commented as a bound where it is declared.

- `MaxCalls` limits the calls in progress **when a runner's message arrives**; the server's own continuations
  are not limited. Two calls are enough for two jobs that end together, the case that loses wakeups; the theorems
  cover any number.
- Four config jobs give a fork, a join, a chain, a job that is skipped up front and one skipped later. The
  theorems of section 7 cover all graphs, `when.propagate` and any number of calls.
- `cancel`: a chain of three has a job that runs, one that waits for it and one that waits for both. `MaxCalls` is 2 for the scenario
  `disorder`, which needs two calls for one job, and `MaxOrderly`, 1, for the others. No two jobs run at once with one call, so no job is disturbed
  while it runs: the theorems, `CancelInvHolds` first, cover any number of calls and any graph. One request to cancel: while one is served
  another does nothing new, and after a failure it meets only what the first left. Each scenario lets one more thing go wrong, `lost` for any of the jobs, the others once.
  Jobs time out in `restart` and `lost` only: what `cleanJobs` does to a pipeline that is being cancelled is what it does to one that is not.
- Two runners, two requests and two connections give every crossing of an answer with a time-out, a
  reconnection and another runner's lock. Again the theorems cover all sizes.
- Eight frames are the largest chunk that `splitFrames` reads correctly, so outputs are on both sides of the edge.
- `config`: two changes give a second secret, a rename, a change of protection and a removal, before or after the
  secrets are read; the global ones are a `TOKEN` of any protection and branches beside a plain `KEY`, or none.
- Six tokens hold two markers with a run of two backslashes before each, or a run of five before one.
- `tokens`: the margin (13) is the least with `MarginCovers`, which `MCTokenRefresh` asserts and `StoredIsFreshHolds` assumes: the
  period, three latencies, what a failed request and a restart cost, and one tick more. It is sufficient, not necessary: in this
  instance `StoredIsFresh` fails at a margin of 9. The lifetime is longer than the margin.
- `indexes`: three mishaps let a rollback be cut short, its repetition fail and the next start be killed. Two migrations are the least
  with one before and one after the place where a start is cut short.
- `sync`: the repository that is not allowed and the latest allowed one fill the first page and the last one is on the second, so that a push to the last
  between the two pages has the other allowed one listed twice and itself missed, while a push to another moves nothing. The pages of a listing have one repository or two.
  `MaxEvents` is one push, change of a permission or pipeline, at any moment of a listing and of two syncs, overlapping or not, one after the other without end. Other users would share only
  the times of update and the two conditions of the query; the theorems have any users.
- `logs`: one line of the pull shifts the numbers of all others; of each payload with two parts the second is a secret. The two requests of a browser cross the insertions of up to three logs; longer outputs differ in what chunks hold, which no browser sees.
- Failures, restarts, lost messages, manual runs and changes of branches are bounded by one or two each,
  which lets each meet every step of every other actor; more of them would meet each other.
- Symmetry sets are used for safety only, and only where the constants treat the members alike.
- Deadlock is not checked where the system may rightly stop (a pipeline ends, every bound is used up).
  `TokenRefresh` and `RepoListing` never stop, and there it is checked.

## 6. Fairness

- *The event loop runs every continuation*: weak fairness of a call's next step. A pending promise is served as
  long as MongoDB answers; nothing in the code bounds that, so the runs of liveness properties assume it.
- `PipelineCancel` (`FairCancelSpec`): weak fairness of the server's calls and the runners' reports together, and of the
  pulling of some job. A script that never ends is outside the code's control (it has no time-out). Nor need a runner report: in the scenario `lost` any report may be lost
  instead, for ever, and only the periodic task, which is fair, ends the job. Not fair: the request to cancel, stop messages, failures, losses.
- `JobQueue`: each request goes on, each runner pulls at intervals (`setInterval` in `runner.ts`), some runner that
  has lost its connection reconnects (socket.io does), some job that is executed ends, and a job
  that is cancelled gets its status. Crashes, disconnections and time-outs are not fair.
- *A page is answered at last*: `RepoSync` and `RepoListing` alone use strong fairness, for each user and page, since a list that
  fails is started again and no single request need stay enabled. Each call's other steps and each user's
  periodic sync are weakly fair. Browsers are not: they may stop reading. Fairness does not keep syncs apart; `PermissionsSettle` has as its premise that at some time
  a user's syncs no longer overlap, as when each ends within the interval.
- `RunnerJob`: weak fairness of some step of jobs, removals and clean-up, all of which are finite; `ServerStart` (`FairSpec`): of a
  step of `main` or a restart by the operator, with finitely many mishaps; `CommitSource`: of each request, where
  an answer, a failure and a request that hangs for ever are equally good, since nothing times out; `JobWatch`
  (`FairWatchSpec`): of the steps from Docker to the room, whose streams end or fail, not of the browser's.
- Never assumed fair: users, pushes, cancellations, failures, crashes, lost messages.

## 7. What is proved

TLAPS proves, for every value of the constants:

**Pipelines** (`PipelineProofs`, for any acyclic job graph, any mix of `allowFailure`, `when.status`, `when.branch`
and `when.propagate`, and any number of calls): `TypeCorrect`, with no assumption beyond those on the constants;
and, assuming `Tame`, `Invariant`, `NoLostWakeupHolds`, `LockedAfterUpstreamHolds`, `UpstreamStatusCurrentHolds`,
`SkippedNeverRunsHolds`, `GreenIsEarnedHolds`, `EndedMeansDoneHolds`, and `ImplementsPromiseHolds`: `PipelineProgress` implements `PipelinePromise`.

`Tame` is `StatusInOrder` (section 3) and `FirstRankRuns`: no job that depends on the clone job alone is to be
skipped after a successful clone. Without the second a runner may lock a job that is then skipped (section 4).
`AcyclicAssumption` is what `AcceptedCanRun`, a part of `ConfigInv`, says of accepted configs: `config` checks it.
`TypeCorrect` and, for the queue, `CountExactHolds` state parts of the invariants that the runs check as `IInv` and `QueueInv`.

The argument. None of the six properties is inductive: a call holds a reading of the jobs that the
database has left behind, so a step is right only because of what earlier steps made sure of. `IInv`
says what a reading is still good for:

- `ExecInv`, `CallInv`: what a runner has reported, what is in flight and what is written fit together, and a
  final status is not overwritten.
- `UpstreamInv`: a call only carries an evaluation of a child when **all** upstream jobs were final when it read
  them. Final statuses do not change (`SumStable`), so the sum is right however late it is written.
- `WakeupInv`: when all upstream jobs of a waiting job are final, it has been made available or a call is on its
  way to evaluate it. The subtle part is *whose* call: usually that of the parent that ended last
  (`LastToEnd`), but a job that was skipped up front had its end before its parents had theirs and never wakes
  anybody by itself. `Wakers(j)` is the least set with the parents of `j` and, for each member that was skipped
  up front, the parents of that one; the lemmas `WakersClosed` to `WakersStep` let the proof follow a
  wakeup through any chain of such jobs without induction over the graph.
- `GreenInv`, `EndInv`: a green status or an end that is on its way is already earned, by all jobs.

The refinement needs more, `PromiseInv`: *every* final status on its way to users and git server, not only a green one, is the sum of all jobs, or the config was refused; and
once the pipeline is ended or refused no config is to come (`Decided`). A verdict stays right because the steps of the promise itself do
not disturb it (`VerdictStays`). `SkippedNeverRuns` is a part of `IInv`, and of the promise: only what has no runner is skipped.

`StepInv` has one lemma per action. `AcyclicAssumption` enters in `LastToEnd`.

**Job queue** (`JobQueueProofs`, any number of jobs, runners, requests, connections, crashes): `QueueInvariant`,
`CountExactHolds`, `CancelledNeverStartsHolds`, and `Refinement`: `JobQueue` implements `JobAssignment` under the
mapping `holder <- the runner of the lock`, `barred <- cancelledAt`, `begun <- executing and left jobs`.
`QueueInv` is the invariant: an answer that carries a job carries one locked by the socket it is for, no two
answers carry the same job, a job that is executed is not in any answer, and counts are cardinalities of finite sets.
From it, `LockJob` is the abstract hand-out, `ReceiveAnswer` the abstract start, and every other step a stutter
or a cancellation.

**Cancellation** (`PipelineProofs` too, for any job graph, any number of calls and requests, and every mix of failures that the module has):
`CancelTypeCorrect` and `CancelInvHolds`, of all scenarios; and, of `steady`, `NothingStartsOnceCancelledHolds` and `CancelledStaysHolds`.
`CancelInvHolds` assumes `FirstRankRuns`; none of them needs `Tame`: messages of a job are ordered by a guard of the scenario (`InOrder`). The lemmas
on types reuse those of `PipelineProgress` for the actions both modules share. `BarredInv`: in `steady`, `present` is all of `Job`
when a cancellation begins, so its first step marks every job, before it gets anywhere else; and `lockJob` needs a job that is
not marked. `StayInv` says of a job that is cancelled, or about to be, that it is *out of reach*: no runner has it and, being marked, none
ever will, or the runner that has it has reported its end; and of a `running` that is still to be written that its runner
has not. The two cannot both be true of one job, so a cancelled one keeps a final status. `CallStepWrites` sums up what each of
the steps of a call writes, so that the argument is made once.

`CancelInv` needs an invariant of its own, `SparedInv`, since most of `IInv` is false once jobs are cancelled, calls are lost or statuses overtake each
other. What remains is said of the jobs that are *spared*: neither they nor a job they wait for is cancelled. Three ideas carry it. A job *has ended* when no status with
which its runner ends it is still to be written, even if a late `running` hides that (`HasEnded`); nothing takes that away from a spared job
(`KeepsEnded`), which is why what is computed from it stays right. A job is given an upstream status only once all its upstream jobs have ended, and always the same one, in
its document or on the way (`GivenSpared`), so a second evaluation cannot skip a job that a runner has: this replaces `WakeupInv` and `UpstreamInv`, which a restart and
disorder break. And what cancels (`stopping`, the delayed cancellation, a `cancelled` on its way) is only there when the clone job has been cancelled, upstream of all others
(`CloneFirst`, from `AcyclicAssumption`), so that no job is spared (`QuietInv`). `cleanJobs` alone cancels some jobs and not others, and does so without any call.
`GreenSpared` and `EndSpared` say of a pipeline nobody has cancelled what `GreenInv` and `EndInv` say, with *executed or skipped* for *final*.

**Runners** (`RunnerProofs`, for any jobs, stop messages and clean-ups, and whichever jobs Docker fails or streams late):
`RunnerInvHolds`, with `NoContainerLeftHolds` and `EndedHasStatusHolds`, and `ReportsRefinement`: `RunnerJob` implements
`JobReports`. The invariant `RunnerIInv` says, of each job on its own, what was sent for it given how far `execJob` is (`SentInv`): while its
script runs it is reported as running, or its container is gone and it is reported as cancelled; who removes its container
(`RemovalsInv`): `execJob` after a result, anybody else for a job that was asked to stop; and, where Docker does what it is asked, that
a container that is not gone is in use, or its removal is at the step that fits it (`ContainerInv`). The last is what two removals of one container need: the
one that comes second fails, and the first is then known to be further. Under the refinement the jobs that were asked to stop are those with a
stop message; a step is one of `JobReports` or changes nothing of it (`Promised`).

**Server start** (`ServerStartProofs`, for every specification of the indexes of a collection, every set of them that is found, any
number of migrations and of mishaps): `StartInvHolds`, which has `ReadyMeansConfigured` and `ServesMigrated`, and `KeepsMatchingHolds`.
The calls that create indexes drop some while others are created, so the invariant says that each index has a name its key may have,
that no key is there twice, that a call that is about to drop an index is one whose own index is not as specified, and that its
victim is not specified for another call (`CallsFit`; `NamesAssumption` enters here: no two specified indexes have the same fields). For the
migrations, what is recorded is applied, torn, or about to be unrecorded, and what `main` is about to record is applied (`MigrateInv`).

**Configs and secrets** (`TextProofs`, for any jobs and graphs, any secrets and texts, and any changes of secrets meanwhile): `ConfigInvHolds`,
which has `AcceptedCanRun`, `CyclesReportedHolds`, `SecretsStayProtectedHolds`, `RepoSecretsWinHolds` and `ReplacedExactlyHolds`, with no assumption beyond
those on the constants. What the recursive functions of the code compute is proved without an induction theorem. A recursive function
is a `CHOOSE` of one that satisfies its equation; `Recursion` says that there is one when the equation looks only at smaller arguments. What holds of its values is then
shown by looking at a least counterexample. A call of `Walk` is smaller than another when fewer jobs are not in its chain, or as many and
fewer dependencies are left; hence the search ends, whatever the graph. `ConfigIInv` says, of each variable, what the steps that are past have made it:

- `ErrorsInv`: while there is no error, each check that is past has found nothing. A search that reports nothing has gone below every dependency it
  met (`NothingFound`, `Descended`), so a job on a cycle would have met itself: `OnCycleIsFound`. A set of jobs without a first one has a job on a cycle, so what
  is accepted is acyclic.
- `SecretsInv`: the value of a name is that of the last usable secret with it (`Latest`). Those of a repository come last and, by the
  unique index, have different names (`NamesApart`), so they win. What is visible is the value of a usable secret, which is what protects the others.
- `TextInv`: after `i` tokens, what is out and what is pending is what the first `i` positions of the text stand for, each by itself (`SoFar`), less
  the backslashes that are held back (`HeldBack`); and the text has failed when one of its markers is `Unknown`.

**Logs** (`TextProofs` too, for every output, any cut into chunks and any number of insertions under way): `WatchInvHolds`, which has `LogIsOutput`, and
`WatcherMissesNothingHolds`. The invariant of the second: a stored log is fetched, sent, or about to be sent, once the browser was in the room when its request
was read; a room is not left. That of the first, `LogIInv`, has two parts besides types. `Numbered`: the logs sent, under way and stored
have the numbers below `logIndex`, each once. `Faithful`: while the output is tidy, there is a number of frames `k` that is told (`Told`): the logs of the pull have the first numbers,
the next `k` say what the first `k` frames say with their secrets hidden, one more is there only if `execJob` has failed, and what is left of the stream is the output without those frames. So no order of insertions matters, nor
where the stream fails: what is left tells how many frames were read (`HeadersLeft`), and logs of the system before and after add no text (`Surrounds`). The work is
in a step that reads a chunk: a tidy chunk is a run of whole frames (`TidyChunk`), its cuts come in pairs, the header's and the payload's (`CutsInPairs`), counted in
order (`NthIs`), and up to eight frames are all found, as the index of the last header is then below the 16 digits it is compared with (`WholeFrames`).

**Repositories** (`SyncProofs`, for any users, repositories, sizes of pages, syncs under way, changes, pushes and pipelines): `SyncInvHolds` and
`ListInvHolds`, with no assumption beyond those on the constants. They hold in either order of the pages, by activity or fixed: a sync counts as disturbed by
another one of the user, by a change of the user's permissions, and, by activity, by a push while its list is read (`Moved`). The invariant of the syncs, `SyncIInv`, says of a call that nothing disturbed (`CalmCall`) that it has
listed exactly what is before the page it asks for, then all there is; and that of the repositories of allowed organisations it has emptied
those it pulled and filled in those it pushed. Why the loop of `listUserRepos` may stop at the first empty page is `EmptyPageEnds`: the places in
the list, whose order is total (`BeforeIsTotal`), are numbered without gaps (`Places`: a one-to-one map between finite sets of the same size leaves none out). A listing is right because of
`WalkInv`: what has stayed in its place and is not seen yet has at least *page times size* newer repositories before it. A pipeline only adds to these.
A page shows it, or shows that there are as many more (`SortedPlace`: however the database orders ties, what is tied with
nothing comes right after all that is newer), and at the last page there cannot be.

**Repository setup** (`SetupProofs`, for any calls, pushes, failures and restarts): `SetupTypeCorrect`, `SetupInvHolds`,
`UnwantedIsIgnoredHolds` and `OnePipelinePerPushHolds`, the last with careful administrators. Nothing says in the database that a key is on the
git server. What does is the history of the call that added it (`RecordInv`): a call that is recorded, or being removed, has ended; one
that is under way has added what it need not add any more, unless it failed; and nobody removes what a call that is under way adds. For pushes, a webhook is *live* when its call is
recorded or may still be. An unwanted push was made when there was none, and a webhook that is not live never is again (`UnwantedInv`),
which is why its delivery is refused whenever it comes. Careful administrators leave at most one live webhook (`OneLive`); once
a push was taken from it, its other deliveries are for dead ones (`OnceInv`), and what was taken is in one place (`PlaceInv`).

**Tokens** (`SyncProofs` too, for any users, periods, latencies, failures and restarts): `TokenInvHolds` and `StoredIsFreshHolds`. `HolderInv`: a grant that
was given out has one holder, the database, an answer or a login; a request that is under way names the stored grant of its own user, whose time has come, or one that
nobody has. So a refresh cannot use up a grant of anybody else, and who loses a grant to a refresh waits for its
successor (`UsableInv`). `StoredIsFreshHolds` assumes `MarginCovers`, of constants alone: the margin exceeds a period, three latencies and what mishaps
cost, each of which has the next run of the task ask again. The code has 600 s (`constants.ts:14`) and a default period of 10 s (`env.ts:125`), but checks
neither. The invariant `FreshInv` gives each user one of four states, with the time each needs: the tokens are in time, overdue, asked for, or on their way;
`Reserve` is what the mishaps still to come may cost. A request that is refused is the surprising case: its refresh token is then used up, so by `UsableInv` the answer to
another request is on its way.

**Commits** (`CommitProofs`, for any branches, any pushes, changes and requests, and every request to a git server that fails or hangs): `BuiltWasHeadHolds`,
`ProtectedWasProtectedHolds`, and `SourceInvHolds`, which has the skip markers too, for any sets of messages that they match, and assumes `MarksSeen`: no message has its marker where the client of
the server does not look (the body, for webhooks of Gitlab; section 4). `RequestOK` says of a request what was true of its branch since it began: the push of a
webhook left its commit as the head, a request that has the branch read its protection, and its head if nobody else named a commit, from a state the branch has had. Branches
only gain states (`HistoryGrows`), so it stays true whatever happens to them, and the pipeline takes it over (`NewPipelineOK`).

**Model-checked only.** All liveness (`Terminates`, `EveryJobLeaves`, `EveryJobReports`,
`CleanupEnds`, `Converges`, `PermissionsSettle`, `PushIsBuilt`, `AllIsLogged`): fairness and ENABLED are out
of the prover's reach. Every state invariant and every action property that a passing run checks is stated by a theorem. `SparedInv`, `SyncIInv`, `ConfigIInv`,
`LogIInv` and other invariants of the proof modules, unlike `IInv`, are no invariants of runs of their own: what the runs check follows from them.

## 8. What is not modelled, and why

- **Sessions and sign-in**: cookies and JWTs are stateless. What a login stores is in `TokenRefresh`.
- **Access guards**: one query before a handler; the permissions are in `RepoSync`.
- **Queries, serialisers, routes, environment, logging, utilities**: no state, or formatting.
- **Queries of secrets, and the parsing of global ones** from the environment: no state.
- **Browser sockets**, partly: the rooms of pipelines and repositories carry what was just stored and work like that of a job; what browsers make
  of it is in another repository.
- **Docker helpers**: requests to Docker, single steps that may fail in `RunnerJob`.
- **Restarts of the server**: in `PipelineCancel` (with no cancellation under way), `RepoSetup`, `ServerStart` and `TokenRefresh`. Of the job queue
  a restart loses the pulls in progress, whose requests then time out, and the connections of runners, which reconnect: `JobQueue` has both, one runner at a time.
- **Failures of MongoDB** in general: handlers reject and nothing rolls back; modelled where a later attempt is
  meant to repair it.
- Assumptions of a run that exclude something are constants: `StatusInOrder`, `Scenarios`, `SlowStream`, `DockerFails`,
  `TimeoutsHappen`, `MarksOf`.

## 9. Plan

Done, in this order, the most important behaviour first: pipelines and their proofs; cancellation; the queue, its refinement
and proofs; runners; indexes; config validation and secrets; tokens; sync; setup; commits; logs. Then restarts, statuses out of order, refused insertions and
early cancellations; `JobReports` and `PipelinePromise` and their refinements; the start of the server; watchers of logs; the list of repositories; and the proofs about cancellation,
start, watchers, runners, setups, tokens, commits, syncs, listings, configs, secrets and the text of logs.

Next:

1. **Specify.** A promise for cancelled pipelines, weaker than `PipelinePromise`, that `PipelineCancel` implements scenario by scenario.
2. **Extend.** Webhooks of a renamed repository in `CommitSource`, and pages that a change of permissions moves in `RepoSync`.
