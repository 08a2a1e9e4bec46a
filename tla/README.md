# A verification project for the Gitea act runner

The runner is a daemon that asks a Gitea instance for tasks, executes the job of
each task in containers, on the host or in Kubernetes pods, and reports log rows,
step states, outputs and a result back. This directory holds TLA+ models of the
parts of it that are concurrent, that must survive failures, or whose result
depends on the order of events; TLC checks them on small instances and TLAPS
proves the main safety properties for every value of the constants.

All paths below are relative to the repository, `src/` in PROJECT.json.

## 1. Inventory

| Component | State | Operations | What is hard | What makes it correct |
|---|---|---|---|---|
| Task poller (`internal/app/poll/poller.go`) | semaphore, wait group, two contexts, cached tasks version, registration flags, backoff counters | `Poll`, `PollOnce`, `fetchTask`, `waitBackoff`, `Shutdown`, `Ready` | job goroutines against the loop and the shutdown; two timeouts; lost answers | slots neither leak nor exceed the capacity; `done` means drained; a stop always ends; no queued task is hidden |
| Admission, health gate and idle cleanup (`internal/app/run/runner.go`, `health_check.go`) | `runningTasks`, `runningCount`, cached verdict | `Run`, `CanAcceptTask`, `OnIdle` | a task delivered twice; a stale verdict; a sweep against a task that starts | one run per task id, exact bookkeeping; the sweep spares what is live |
| Daemon command (`internal/app/cmd/daemon.go`) | daemon lock, registration file | start, declare loop, run, shutdown | signals at any moment, ephemeral registration | spent registrations do not survive |
| Reporter (`internal/pkg/report/reporter.go`) | row buffer and offset, state, outputs, result, two notify channels | `Handle`, `Logf`, `SetOutputs`, `RunDaemon`, `ReportLog`, `ReportState`, `Close` | two goroutines and one client, lost, partial and late RPCs, a stuck daemon at Close | no row lost, doubled or reordered; no report forgotten; Close honest and bounded |
| Reported steps (same file) | per step: log index, length, times, result | `Handle`, `Close` | records of setup, pre, main, post and cleanup interleaved | contiguous disjoint slices, every step concluded |
| Masks and job log file (`report/globalmask.go`, `joblog.go`) | set of masks, file | add, write, rotate | masks that arrive after rows | no masked value in a later row |
| Job executor (`act/runner/job_executor.go`, `act/common/executor.go`) | job marks (cancelled, failed, error), result | setup, pre, main, post, hooks, outputs, teardown | cancel or timeout between any two parts | cleanup always attempted; the result tells what happened |
| Step executor (`act/runner/step.go`, `step_run.go`) | step results, environment, command files | condition, body, continue-on-error, timeout | errors classified in two places; a command that outlives its step | conditions see the current status; output and files complete and applied once |
| Run context (`act/runner/run_context.go`) | containers, networks, flags | start, stop, close, services' health | failed start, slow service | nothing leaked |
| Plan executor (`act/runner/runner.go`) | shared job results | stages, matrix, parallelism | parallel combinations write one result | failure not lost, bound on parallelism |
| Artifact cache (`act/artifactcache`) | database of entries, blob store, job credentials | reserve, upload, commit, find, get, eviction | uploads, commits and eviction race | a complete entry is readable |
| Artifact server (`act/artifacts`) | uploads on disk | create, upload, finalize, list, download | chunks in any order | finalized means whole |
| Action fetching (`act/common/git`, `internal/pkg/lock/keyed.go`) | shared trees, keyed locks | single-flight fetch | first caller cancelled | no half-written tree is used |
| Composite actions and reusable workflows (`action.go`, `action_composite.go`, `reusable_workflow.go`) | nested run contexts, posts, state | pre, main and post stages, copies of environment and results | status nesting, posts of what half ran | environment, state and status reach whom they should; posts pair with what ran |
| Workflow commands (`act/runner/command.go`) | stop token, masks, groups | per output line | lines split over writes | stop-commands respected |
| Docker, Kubernetes and host back ends (`act/container`) | external resources | create, start, exec, remove | partial creation | removal of what was created |
| Registration, configuration, exec, native actions, telemetry | files, flags | commands | little concurrency | - |

Interactions. `daemon` starts the poller on one goroutine; the poller spawns one
goroutine per task, which calls `Runner.Run`; `Run` creates a `Reporter` (with its
own daemon goroutine) and the plan executor, whose job executor logs records the
reporter handles through a log handler. The reporter cancels the job's context
when the server's answer says so; the daemon cancels the poller's contexts on a
signal. `PROJECT.json` lists every component, and under "hazards" what is hard to
test, with the properties aimed at it.

## 2. Modules

| Module | Models | Kind |
|---|---|---|
| `Poller` | `Poll`, `PollOnce`, `fetchTask`, `Shutdown`, admission in `Run`, `CanAcceptTask`, the tail of `runDaemon` | specification |
| `JobEnvironment` | what a task makes in docker, Kubernetes and on the host, its teardown, `OnIdle` | specification |
| `PlanExecutor` | stages, needs, matrix, parallel executors, job results, verdict | specification |
| `JobExecutor` | one job: setup, pre, main and post steps, hooks, outputs, teardown, result | specification |
| `ActionSteps` | pre, main and post stages of actions and composites and what they hand on | specification |
| `StepBody` | the command of a step, its output, workflow commands and command files | specification |
| `ActionFetch` | the shared cache of action repositories | specification |
| `ReportedSteps` | the reporter's division of a log into steps and their results | specification |
| `LogStream` | what log delivery promises | abstract specification |
| `Reporter` | the reporter: job goroutine, daemon goroutine, `Close`, server | specification |
| `CachePolicy` | which cache entry a job restores, which are in use, which a pass evicts | operators |
| `ArtifactCache` | the cache server: both APIs, files on disk, sweeps | specification, extends `CachePolicy` |
| `FileTransfer` | copies into the job's environment, the pod's transfer helper | component |
| `Artifacts` | artifact server, its client, upload and download actions | specification, extends `FileTransfer` |
| `Poller_proofs`, `JobEnvironment_proofs`, `Jobs_proofs`, `ActionSteps_proofs`, `StepBody_proofs`, `Reporter_proofs`, `ArtifactCache_proofs`, `Artifacts_proofs` | - | TLAPS proofs |
| `MC*` | - | instances for TLC |

How they fit together. `Poller` runs a task as the interval between two of its
actions; that interval is `JobEnvironment` (what exists outside the process),
`PlanExecutor` (which jobs and combinations run, with what result), and for one
combination `JobExecutor` (its pipeline). A main step of `JobExecutor` is one
action with any outcome; `ActionSteps` opens the steps that are actions and
`StepBody` the body of a step. `ReportedSteps` takes the records those emit and
`Reporter` carries rows and state to the server. The alternatives of one module
are what the next one can do: `JobExecutor` lets a step end with nil, an error,
`context.Canceled` or `context.DeadlineExceeded`, and those are the ends of
`StepBody`; `ReportedSteps` follows the order of parts that `JobExecutor` has.

### 2.1 Poller

State. `loop` is the program counter of the goroutine in `Poll` or `PollOnce`;
`sem` and `wg` are the channel and the wait group; `work` gives the stage of every
delivery, from the server's queue over the goroutine that runs it to its end.
A *delivery* is one answer that carries a task; two deliveries may carry the same
task id, because the server hands a task out again after a lost answer.
`daemon`, `daemonCtx` and `shutdownCtx` are `runDaemon` and `Shutdown`; `mode` is
chosen at the start and tells `Poll` from `PollOnce` and an ephemeral runner.

Actions. One per point where another goroutine can interfere: the two arms of
each `select` (`Acquire`/`AcquireCancelled`, `BackoffOver`/`BackoffCancelled`,
`ShutdownGraceful`/`ShutdownExpired`), the RPC (send, answer, loss), the steps of
a job goroutine (admit or refuse, count, finish, forget, release, done) and those
of `Shutdown`. The health script is a nondeterministic verdict. The server's
queue is external and follows the use `fetchTask` makes of `TasksVersion`.

Abstractions. The backoff's duration is left out, only that it can be cancelled
(`calculateInterval` doubles in a loop that stops before it would overflow).

### 2.2 Reporter and LogStream

Rows are numbered in the order they are appended, so the server's log is a
sequence of numbers and "no loss, no duplicate, no reordering" is visible.
`holder` is the owner of `clientM`; an RPC is sent with the snapshot the code
takes under the state lock, and answered, failed or timed out later, while the
job goroutine goes on appending. `late` holds requests that the runner gave up on
and the server still processes. `Close` is split where it releases a lock:
mark, wait for the daemon, sentinel, flush of the log, flush of the state.
`ver` counts handled records and stands for the task state.

`LogStream` says: rows are produced, the log is extended by the next produced rows
only, and the server may lose a tail. `LogStreamSpec` is the refinement, with
`produced <- appended, log <- srvLog`.

### 2.3 ReportedSteps

`shown` is the list the server displays, each entry with the index and length of
its rows; a row is named by what emitted it, so that `RowsTile` can compare the
slices with the log. The job side (`at`) emits records in the order of the job
executor's parts; a part can fail, be skipped, panic or be interrupted. After a
panic no cleanup record comes, and `Close` concludes what is open.
Once a row of an interrupted step came late (`lateRow`) the slices are no longer
contiguous in the code either, so `RowsTile` speaks of runs without one. Not in the
model: rows before `ResetSteps` and the steps of a job that calls a reusable
workflow. A pre step whose condition cannot be evaluated after another pre step
succeeded blames no step (the job alone fails); the model follows that.

### 2.4 JobExecutor

The job is one sequential process; what it races with is its context, which a
server cancel or the job timeout ends at any moment (`CtxEnds`), and the fresh
bounded contexts that replace it (`FreshExpires`). `pc` is the part of the job,
with one action per element of the pipelines built by `newJobExecutor`. Every
piece of work may end with nil, an error, `context.Canceled` (also as a stray
one, on a live context) or `context.DeadlineExceeded`. `marks` are
`rc.jobCancelled`, `rc.jobFailed` and the job-error container, which
`postStepsContext` replaces after a cancel. A step's condition is one of the four
status functions; expressions over other contexts behave like one of them.
The matrix branch of `setJobResult` is in `PlanExecutor`, the upload of the
summary in `JobEnvironment`.

### 2.5 JobEnvironment

`world` is the set of resources that exist, pairs of a kind and the task whose name
they bear; `task` is what the runner knows. Start and teardown are pipelines of
calls: a call succeeds, fails, or takes effect and loses its answer, within
`MaxFaults`. One backend per task: docker (network, volumes, service containers
with their health, job container, the socket proxy through which the job creates
containers of its own, the endpoint of the cache container on the job's network),
Kubernetes (secret, pod) or host (scratch directory, processes). Around it run the
preparation of the workspace, the registration of the job's token at an external
cache server, the service logs, the upload of the job summary (best effort, two
attempts), the post-task script and the deferred revocation. A panic of a step is
recovered by the worker that runs the job (`NewParallelExecutor`): the job's teardown,
which `Finally` does not defer, is skipped, and `run` goes on to the removal of the
workspace, the script and the revocation. `missed` is a history field of a task, the
kinds that were not removed: a removal failed, a create outlasted the drain of the
proxy, or a panic skipped the teardown. `TeardownLeavesNothing` allows exactly those
to be left. `OnIdle` is `sweep`, one step for each kind it lists and removes.
`Crash` ends the process at any moment; the next `OnIdle` meets what is left.

Limits. A credential stays at the cache server for ever after a crash or a failed
revocation, and a registration that arrives after its revocation is not modelled.
A Kubernetes secret whose pod was never created is not found by the sweep, which
looks for pods. Of the containers that survive a crash the job's sleeps for a bounded
time and removes itself (`ContainerExpires`); a service is not removed by anybody, may
run for ever, and holds its network as long (`ServiceEnds` is not fair), which is why
`OrphansReclaimed` promises only the networks no service holds. Workspaces are a task's
own, and swept, with `bind_workdir` only; the run has that on.
A resource does not become old during a sweep; a task whose runner died is not
delivered again; the probe containers of the docker proxy and a negative
`ServiceReadyTimeout` are left out. After the start a cancellation only ends the
steps sooner.

### 2.6 PlanExecutor

One worker loop per parallel executor: the jobs of a stage, and inside a job its
combinations. Every combination reads, changes and writes the result under the
job's mutex. It may be disabled, invalid (its platform cannot be evaluated: the
result is then written without the mutex, a data race, and the job is excepted from
`ResultIsWorst`), broken (of no known type, not startable or panicked: no result; for
a called workflow the caller keeps "pending"), or run. `callerJob` is what the calling job has been told.

### 2.7 ActionSteps

The position `pc` has the stage (pre, main, post in reverse), the place among the job's
steps and the place within the composite action that is open, 0 when none is: a
composite opens and closes around its children. `env` and `path` have one copy per run
context; the model follows when the code copies them. One variable stands for all
that are written to `$GITHUB_ENV`. Facts the model follows and that its properties
except: a nested action that cannot be downloaded records no step result, so that
later `success()` siblings of it run; a value a nested pre stage wrote is lost where
the stage's environment is evaluated again, or, where the parent had no `GlobalEnv`
when the composite was set up, comes back over what a main step wrote later; a
composite whose pre ran and whose main is skipped does not run its nested posts,
and neither does one whose copy fails at the start of the post stage (`barred`, which
records it also where `continue-on-error` keeps the failure out of the errors). The
`action.yml` of a local action is taken to be readable: without it there is no post.

### 2.8 StepBody

Three processes for each step: the step itself, its command and the goroutine that
copies its output to the command handler. A container's exec is waited for and then
drained with a grace period; on the host the process tree is killed and the pipes
are closed after a delay; in a pod the exec stream ends. Command files are emptied
before the step and read after it, under a context of their own when the step was
interrupted. Facts the model follows: a command in a container outlives its
interrupted step and may write to the files of the next one; a copying goroutine
left behind hands late lines to the handler, which files them under the step that
is current; a file that cannot be fetched is taken for an empty one by
`ParseEnvFile` and is an error for `UpdateExtraPath`; a context that ends while the
files are read loses the rest of them. Not modelled: image tags, masks, and the
probe for bash (its negative answer is cached even when the probe was interrupted).

### 2.9 ActionFetch

`flight` is `actionFetches`, `dirLock` and the tree locks are the file locks between
processes, `disk` the record, the trees and their size files. Download (archive,
then clone) and installation are steps, and between any two of them a process may
die, a job be cancelled, a file be damaged or the ref move, together bounded by
`MaxEvents`. One read of a job stands for both of its readers. A crash or an error
between the two renames of `installTree` leaves no tree, which the next fetch
repairs. Links in copied trees and the slots of prefetching are not modelled.

### 2.10 CachePolicy and ArtifactCache

`CachePolicy` translates what `handler.go` computes from the table of entries:
`findCache` and `findExactCache` as an order of preference on entries, `inUse`,
`touchNeeded`, and each eviction pass as the set of entries it tries to delete.
`evictTo` walks its list from the least recently used entry and stops when the
rest fits; since only deleted entries count, an entry is tried exactly when the
total without the older deleted ones is still over the limit.

`ArtifactCache` runs these against the disk. What a handler does between `openDB`
and `Close` is one step, for `dbLock` admits one store at a time. File operations
happen outside the lock and are steps of their own: create or truncate a part,
end of its copy (or failure, which removes the name), ordering of the blocks,
and in a commit the listing, the rename of the first part, the copy of each
further part, the check of the size, the save. A file is the sequence of the
parts its bytes come from, a negative number for a part that is torn; an assembled
file is told from another one under the same name by its first part. `age` and
`url` count ticks since `UsedAt` and until a URL expires; ages stop where no pass
tells them apart any more.

The clients are external: they send a part again after a lost answer or a 5xx one,
and never commit before every part is acknowledged. A failed deletion, at the blob,
at the staged parts or at the row, a failed touch, a lock timeout and a crash of the
process are nondeterministic and together bounded by `MaxMishaps`. A deletion removes
the blob, then the parts, then the row, under the lock; the only step of another
request that matters in between is the rename of a commit, which holds no lock
(`Renamed`), so `DeleteCaches` lets it come before or after the removal of the blob.

Facts the model follows and `StoredIsSound` excepts, each by a history variable that
says which entry it happened to:

* `stray`: an upload let in before its entry was swept and written after it, or a
  commit whose rename came between the two removals of the sweep, leaves files no sweep
  finds (the commit itself is refused when it comes to save its row);
* `holes`: a part whose client gave up and sent it again has two writers, and the later
  `os.Create` truncates the file under the first one's hands. What the first one wrote
  so far is then zeros if it goes on at its own offset; the length is right, so the size
  check of the commit passes. `CommittedIsWhole` says that such zeros are in no other
  part;
* an upload given up on that fails after the part was sent again removes the second
  copy (the commit then fails);
* `untouched`: a lookup whose touch cannot be written hands the URL out all the same,
  and its entry may be evicted before the URL expires;
* `half`: an entry whose deletion failed half way has no bytes until it is tried again.

Not in the model: signatures, the sweep interval (a sweep may come at any moment),
the mirror of the table in memory, S3, the expiry of upload URLs (one hour), block
ids and `Content-Range`. A rename of all blocks is one step: what a concurrent
repetition of the same list could see in between is an error.

### 2.11 FileTransfer and Artifacts

All uploads are to one artifact name, so that they meet on the server; content is the
sequence of the blocks it was uploaded in, a torn block being told from a whole one.
Requests can be lost before or after they are executed, and executed late; block
writes are two steps, and so is a finalize, which hashes before it takes the lock.
`FileTransfer` is the way of the bytes into the job: directly on the host, through
the daemon, or into a pod by its helper, with the offer, its end and the fallback.
`Artifacts` uses it for the download. Facts the model follows: overlapping uploads
that overwrite share a directory; a second finalize answers Ok without a look at the
hash; the lost answer of a create makes its repetition a conflict, and the name stays
taken; a late delete can remove the uploader's own artifact; a late commit can
replace the blob after the finalize, which the download's digest catches. A copy that
fails leaves the entry it was at truncated. Whoever extracts at the other end of a lost
connection, the pod's helper, the `tar` of an exec or the daemon, may go on (`stray`):
it writes further entries, until it is done or its stream is cut off, which happens soon
since `fetchOnce` closes the file the stream is made of, and it then leaves a truncated
file. If that comes after a retry has succeeded, the finished download has a damaged file
and nobody notices; `rewritten` is the history variable with the files written by such
a process since the copy began, and `DownloadIsIntact` excepts those files and no others.
On the host an upload reads its files without a look at its context: a file that cannot
be opened or read to its end (a FIFO) holds the upload for ever, also when the stall
timer has ended its requests (`<-done` in `upload`). The wait of a download for headers
has no timer; only the end of the job's context ends it (`CtxDone`). `TransfersEnd` says
what is left. Not modelled: the v3 server, the REST source, `skip-decompress`, and a
digest mismatch that is only a warning.

## 3. Runs

| Run | Question | Instance | Distinct states |
|---|---|---|---|
| `poller` | slots, duplicates, bookkeeping, drain, cancellation order, spent registration, health gate; every stop completes, received tasks end, queued tasks are served | three modes, capacity 2, two deliveries of one task, health check on | 91 651 |
| `reporter` | log delivery and refinement of LogStream; state, outputs and result; honesty of Close | a record, a row and the sentinel, one output, one late request, loss allowed | 2 844 764 |
| `reporter_progress` | Close returns, the daemon ends; under working RPCs a verdict cancels and rows arrive | a job that logs one row without a signal, a verdict, an expired context, RPC failures | 116 682 |
| `reported_steps` | slices tile the log, results of steps and job agree and stay | two steps, three faults | 689 966 |
| `job_executor` | cleanup, result, conditions | two steps, all conditions, all ends | 1 150 488 |
| `job_environment` | teardown, sweep, end of every task, orphans | one task on any backend, two faults, one crash | 208 737 |
| `plan_executor` | result, verdict, order and end of a plan | a matrix of three on two workers, a job beside it, a job that needs both | 301 472 |
| `action_steps` | posts, environment, path, state, success, status scope | a script, a composite of an action and a script, an action; two failures | 727 044 |
| `step_body` | output, commands, files, end of an interrupted step | two steps in seven environments, one error | 196 721 |
| `action_fetch` | intact and current answers, undisturbed readers, every call ends | two jobs in one process, one in another, two commits, two events | 321 400 |
| `artifact_cache` | archives whole, URLs serve, acknowledged parts stay, nothing orphaned or resurrected, a saved entry is there | two jobs on one key (two blocks over v2, one chunk over v1), two requests at a time, two entries, limit below their sum, one mishap | 1 421 153 |
| `artifacts` | downloads intact, uploads recorded, transfers end | two uploads, one overwriting, four environments, one fault | 537 978 |

Why the bounds are enough.

* `poller`: a duplicate needs two deliveries of one task, and with them the loop, both
  goroutines and the shutdown meet in every order. The capacity is not exhausted by
  two deliveries that execute, since the second is refused; that bound is what the
  proof of `AdmissionTheorem` is for, which holds for every capacity and number of
  deliveries.
* `reporter`: a row and the sentinel allow a partial acknowledgement, one beyond the
  request and a resend that overlaps a late request; two attempts of `flushFinal`
  (10 in the code) give a first, a last and a failed one.
* `job_executor`, `reported_steps`: two steps are the smallest number where one
  step's end decides about another; for `JobExecutor` the proofs cover every number.
* `job_environment`: tasks share no resource, for every name holds the task's; what
  two tasks share is the sweep, which sees one task as stale or as live. Two faults
  are a failed call and a failed removal after it.
* `plan_executor`: three combinations on two workers queue one; two workers write the
  result while the third combination waits for a slot.
* `action_steps`: one composite with an action that has pre and post, siblings before
  and after it, and two failures, so that a failure meets the handling of another.
* `step_body`: the second step exists to be disturbed by what the first left behind.
* `action_fetch`: a leader, a follower and a foreign process; two events are a damage
  or a moved ref together with a crash or a cancellation.
* `artifact_cache`: two requests are the smallest number that race over one entry, and
  two entries over the limit of 2 are the smallest eviction with a choice. The times
  (touch lag 1, URL 1, stall 1, retention 1) keep the code's order of the limits and
  reach every age the passes tell apart. Threads are symmetric. `OverlapCommits` is
  FALSE: see section 4.
* `artifacts`: two blocks can be in flight at once, two attempts are a first and a last.

No safety property rests on these bounds: section 5 proves each of them for every value
of the constants, three of them under a hypothesis that is named there.

Deadlock is checked in every run but `action_fetch`, whose behaviours stop when every
call has returned or died; the other specifications have an explicit final step.

### Fairness

* Goroutines: weak fairness of each goroutine's steps, the promise of the Go
  scheduler. A `select` with several ready cases picks at random, so a cancelled
  context that stays ready is picked in the end: strong fairness of the
  cancelled arms. Locks taken by polling or queueing (`Locking` in `ActionFetch`)
  are strongly fair for the same reason.
* `RunFinish` is fair because `Run` puts `runner.timeout` on every job; the
  post-task script has a timeout too.
* `RpcEnds` is fair because the HTTP client has a timeout of one minute; an RPC
  may fail every time.
* `Close` is bounded by its wait for the daemon and by ten attempts; neither the
  tickers nor the end of the job are assumed fair in `reporter_progress`.
* The parts of `PollerProgress` and `ReporterProgress` about queued tasks, verdicts and
  rows are conditional: their antecedent is that server, host and tickers succeed
  again and again (strong fairness, `EnvironmentFairness`, `HeartbeatsSucceed`,
  `LogReportsSucceed`).
* `JobEnvironment`: each call to docker, Kubernetes or the disk returns, as the
  contexts of start and teardown have timeouts; `OnIdle` comes again and again, and
  what is orphaned becomes old between sweeps; the job container reaches the end of its
  lifetime. A service may stay in its starting state for ever, `TaskEnds` relies on
  `ServiceReadyTimeout`, and may outlive its task for ever.
* `PlanExecutor`: workers and combinations go on; a combination ends by the job's
  timeout.
* `StepBody`: the step and the copying goroutine are fair, a command is not: it may
  run, print or hold its pipe for ever.
* `Artifacts`: the steps of the actions and the server are fair; a request that hangs is
  ended by the stall timer, by the retry's timeout or, before the headers of a download,
  by the timeout of the job. The read of a file on the host (`ReadReturns`) and processes
  left behind (`StrayHelper`) are not fair.

## 4. Where code and documentation disagree

Met while modelling; the models follow the code, and no property above states the
sentence that does not hold.

* Closing rows. If the daemon is stuck in an RPC when the wait of `Close` runs out,
  it may acknowledge all buffered rows after `Close` looked for an empty buffer; the
  closing request then has no row, and the server ignores its `NoMore`. The comment
  at `internal/pkg/report/reporter.go:696` and the test at `reporter_test.go:403`
  promise that it has one.
* Outputs and the post-task script. `docs/post-task-script.md:13` lists the report of
  the outputs before the script; `SetOutputs` (`internal/app/run/runner.go:653`)
  only buffers them then.
* Stray cancellation. A cancellation on a live context is "never a step FAILURE" for
  `reportStepError` (`act/runner/job_executor.go:75`), but `runStepExecutor` has
  already concluded the step as failed (`step.go:235`); later `success()` steps skip
  while the job succeeds.
* Commit and its retry. Two commits of one cache entry that overlap, a request and its
  retry, share the files (`act/artifactcache/storage.go:111`), though the comment at
  `handler_v2.go:146` expects retries and the one at `handler.go:1197` promises that an
  entry outlives every URL still usable for it. The later one finds
  its parts renamed away and its error path removes the name of the blob that the
  first one has completed. With `OverlapCommits = TRUE` in `MCArtifactCache.cfg` TLC
  shows it as a violation of `UrlServes`, a part of `StoredIsSound`.
* Results of a called workflow. `setJobResult` serializes the combinations of a matrix
  so that no failure is lost (comment at `job_executor.go:408`), but tells the caller
  after it has released the mutex, so the caller may hear a success last.
* A nested action that cannot be downloaded leaves no step result, so that `success()`
  of its later siblings does not "read the composite's result" (comment at
  `step.go:311`) although the composite fails in the end.

## 5. Proofs

`Poller_proofs` proves, for every capacity, every finite set of deliveries and
every mode: `TypeOK`, `AdmissionIsRight` (slots accounted for, capacity respected, no
task executed twice at a time, `runningTasks` and `runningCount` exact) and
`ShutdownIsOrderly` (done means drained, jobs cancelled only when overdue). The
inductive invariant adds to them: the semaphore is within its capacity
(`SemBound`, so that the accounting bounds the bodies); the wait group counts the
goroutines (`WgAccounted`) and is zero once the loop is closed (`ClosedInv`), so
that drained means drained; `PollOnce` uses neither and has one goroutine at most
(`OnceInv`); and the order of `Shutdown` (`DaemonInv`). One lemma, `AtMoves`, says
what a stage change does to the cardinality of every set of stages; each action
is then arithmetic. From the same invariant follow `OnceIsSpent` and the action
property `NoFetchWhileUnhealthy`.

`JobEnvironment_proofs` proves `TeardownLeavesNothing` and the action property
`SweepSparesLive` for any number of tasks, faults and deaths of the runner. All that
is said of a task is said of its record and of the kinds of its resources that exist
(`Local`), so that the steps of one task need no lemma about another. But for those
whose removal was missed these kinds shrink along the pipeline: what the start can have
made before a teardown is armed (`Starting`), what a running job can have made through its proxy
(`Running`, `Proxied`), what each stage of a docker teardown has removed (`Clearing`),
and what the rest of the task still has to (`Ending`). For the sweep it is enough that
nothing stale belongs to a task that is counted (`Swept`): a task that starts during a
sweep makes nothing that is already stale.

`Jobs_proofs` extends `PlanExecutor` and `JobExecutor`. It proves `ResultIsWorst`,
`VerdictIsRight` and `NeedsComeFirst` for every graph of needs that stages can order,
every matrix and any number of workers.
The first needs that the job's result is the worst of what was written *so far*, and
that the holder of the job's mutex has read that very result (`ResultSoFar`,
`Locking`): a read-modify-write outside the mutex breaks the second. The verdict needs
the same for tolerated failures (`ToleratedSoFar`), and that a stage with an error is
the last (`ErrSoFar`). That needs stay met is `StageOrder`: a job of an earlier stage
is over, so that its result no longer changes.

Of one job, `Jobs_proofs` proves both properties of `job_executor`, the action
property included, for every number of steps. The inductive invariant (`JobInv`) says
where the pipeline stands (`Position`), that a fresh context implies a recorded
interrupt (`Detached`), that the backstop leaves every earlier interrupt marked
(`Marked`), that every failure left a mark (`FaultsMarked`), that only a
cancelled context marks the job cancelled (`MarkIsGenuine`), that the result is
the one of the marks (`ResultOfMarks`), what became of the container
(`Contained`), that the main steps before the current one are decided
(`DecidedSoFar`, `RanIsDecided`), and that while main steps are decided a failure is
marked only if there was one (`FailedIsGenuine`). With `FaultsMarked` and `Detached`
the last makes the status a condition sees equal to what the job has come to
(`StatusIsCourse`), which is what both directions of `ConditionsRespected` need.

`ActionSteps_proofs` proves the five properties of `action_steps`, for any steps,
composite actions, conditions, tolerances, writers and number of failures. Everything
rests on where a position is: every step has one place in one scope (`PlaceOfStep`,
`StepHasPlace`), a rank in each stage, and is `Ahead` of a position or not; the end of a
step's stage moves the position past that step and, outside the pre stage and while the
context lives, past no other but its children (`Passes`). The invariant (`StepsInv`) then
says that a stage that has not ended has left no trace (`Untouched`), which alone carries
`JudgedByOwnScope`: a step's condition was judged by results that no longer change. For
`SuccessIsEarned`, an open composite action without an error has passed over none of its
steps (`ChildrenCounted`), and every error has marked the job, is tolerated, or is kept
by the composite that is open (`ErrorsMarked`, which needs `CancelHolds`: a kept
cancellation is one of the current context, so that reporting it marks the job). For
`PostsPaired`, what ran is known to the post stage (`TracesKept`), the main stage left
out no step of the job (`Reached`), and a post stage that has ended ran if it was due
and was not lost (`PostGiven`, `PostDue`, `PostOnce`, `PostReversed`). `StateKept` is
that no two steps share a scope and an ID. `EnvReachesLaterSteps` is proved where no
nested step writes in its pre stage (`NoNestedPreWriter`; section 2.7 says what the code
does otherwise): `Handing` says which map each scope's `GlobalEnv` refers to, and that
the open composite's, or else the job's, holds the last value written.

The same module extends `ActionFetch` and proves `FetchedIsIntact`, `FetchedIsCurrent` and
`ReadersUndisturbed` for any jobs, processes, commits and events. A call holds the lock on
the action's directory from its record until its answer is handed over (`Holds`), and only
its holder writes sizes and trees: the tree that a call found intact, or installed, is
therefore still so when it is answered, unless a file was damaged meanwhile (`HoldOK` with
`Good`, or `Old` for one without sizes). A commit is named by the server or by a clone
that is up to date, and every ref since the flight began has been seen (`SeenOK`). A call
that was answered holds no lock until it reads, so that its tree may be away: then
somebody is replacing it under the tree's lock, or a replacement broke off (`ReadOK`,
`Moving`); the reader's own lock excludes the first. A tree that is there changes only
by damage, while its lock is free, or by the call that replaces it (`TreeChanges`).

`StepBody_proofs` proves `OutputIsComplete`, `CommandsObeyed` and `FilesAppliedOnce`
for any steps, jobs and command files, whatever commands print and write. The invariant
says for every line handled so far what the properties say at the end of the step. A
step that was not cut off holds back one line at most, its last one, without an end
(`Output`); a handler is stopped exactly if the lines before the next one say so
(`Stops`), which `StoppedByLine` carries over one line and `StoppedBefore` over an
append; every output is credited (`Credits`) and every refused command remembered until
it failed its step (`Remembered`). Only the current step can have an output that was
not cut off, which is why a command goes to its own step. For the files: an entry a
step waited for is that step's until the files are emptied, or until the next step has
begun if that failed (`FileEntries`), and the files before the current one have been
taken (`Reading`). Steps are assumed to be distinct (`BodyAssumption`).

`Reporter_proofs` proves `LogIsWhole`, `StateIsReported` and that the reporter with the
server implements `LogStream` (`StreamTheorem`: the initial states map to initial states
and every step to a step or a stutter), for any number of rows, records, attempts and
late requests. Rows carry their numbers, so that every sequence of rows is described by
where it starts (`Numbered`). The invariant says that the buffer begins after the last
acknowledged row (`Buffer`), that a request holds rows the job appended also when the
server sees it late (`Requests`), that the offset does not move while a request is in
flight (`InFlight`), that an answer acknowledges what the server has (`Answer`), and
that what was there when Close marked the reporter closed is in the request that
archives the log (`Flushing`). For the state: a state without a change is in flight or
on the server (`StateInv`).

The same module extends `ReportedSteps` and proves its `RowsTile`, `ResultsAgree` and
`ResultsStick` for any number of steps and whatever goes wrong. The argument is an order:
setup, pre steps, main steps, post steps in reverse and cleanup have a rank (`Rank`), the
job only moves up in it (`GoesOn`), and the list of shown steps is sorted by it wherever a
record inserts one (`ListInv`, lemma `Inserted`). From the order follow three things. A
step the job has not passed has no result yet (`OpenInv`), so the one record that gives a
result replaces none; this needs that a failed step, which emits an error after its
result, is told from one that still runs. Rows go to the current step or a later one
(`BehindInv`), so the current step's slice is the last of the log (`LastEnds`) and a row
extends it without a gap (`TilesInv`). And the entries by index (`LegacyInv`) end with
the log too, because a result that comes after rows is not itself logged: `duringSteps`
is true then, which needs that the first step has its result once the job has left it
(`FirstInv`). The lists agree (`AgreeInv`) as both take the result of the same record,
and `Close` gives the rest one (`ClosedInv`). A late row is a record that fits the
results (`Fits`) without being in time (`Punctual`): results survive it, slices do not.

`ArtifactCache_proofs` proves, for every table, limit, retention and failing deletion:
a sweep and the eviction that ends a commit delete no complete entry in use
(`SweepSparesInUse`, `CommitSparesInUse`: each pass spares them, and a pass over
what another one left spares them in the whole table); and an entry a lookup
answered with stays in use while its URL is usable, for every touch lag and URL
lifetime (`UrlWithinGrace`). On top of that it proves `StoredIsSound` and
`SavesAreSound` of the server, for any jobs, parts, requests at a time, mishaps and
crashes. Two inductive invariants carry them. `UploadsOK` needs no hypothesis: it ties
every thread to the request of the client it serves, every request to an entry, and the
parts and blocks in a staging directory to what was acknowledged or is being written;
from it follow `NoOrphanBlob`, `AckedIsStaged` and `NoResurrection`. `SavesOK` is about
commits and holds where a job's second commit waits for its first
(`OverlapCommits = FALSE`, a hypothesis of the theorems that need it; section 4 says what
the code does otherwise): a commit is the only one of its entry, the file it assembles
begins with the parts in order and what it has left to take is all the rest, the
entry's name holds that very file, and a complete entry keeps its bytes unless its
deletion got half way. `HolesOK` adds that a part with zeros was sent again, for which
clients must remember what they sent again (`Remembers`). That parts are taken in order is an argument about least
elements, with `WFMin` of the library in the place of an induction.

`Artifacts_proofs` proves `DownloadIsIntact` and `UploadIsRecorded` for any uploaders,
blocks, attempts, environments and faults. `RequestOK` says of a request whose it can be
and who waits for it, and that a finalize that has hashed the blob found the uploader's
own archive. An upload without rivals finds its artifact (`Recorded`) as soon as the
server has created it *and the uploader knows or will hear of it* (`Had`), and its digest
as soon as it has finalized it in that sense (`Ended`); a creation whose answer was lost
gives neither, which is why the invariant cannot speak of the server's state alone. Only
the uploader's own delete could take the artifact away, and while it is waited for the
uploader is not yet at the creation; late ones are what `lateDelete` excepts. Without
overwriting, one name has one rival (`NamesOK`). Steps of an uploader go through one
lemma, `ClientMoves`: requests it drops or leaves behind, and one it sends. For the
download (`DownloadsOK`) the digest it was told is that of a whole archive, and a copy
that is done has written every file that no process left behind has written since.

The assumptions are the named `ASSUME`s of the component modules, which TLC evaluates
in every run. The bounds of the runs (`MaxErrors`, `MaxRows`, `MaxFaults`, ...) are
constants of any value there. Every inductive invariant was checked with TLC on the
instance of the component's run before it was proved.

Only model-checked:

* every liveness property: fairness and ENABLED are out of the prover's reach.

## 6. Not modelled

`PROJECT.json` gives the reason for every component that has no module, and for every
part of one that is left out: external APIs (S3, git), the translation of options
(`docker_cli.go`, pod manifests, mounts), string processing (masks, expressions, glob
patterns, formatting), and front ends without concurrency (registration,
configuration, `exec`).

## 7. Plan

1. Abstract specifications: the cache as a map of keys to archives, the action cache as
   a cell that is written once.
2. Components still open: job-log rotation, the glob matcher against a reference
   definition, the v3 artifact server.
