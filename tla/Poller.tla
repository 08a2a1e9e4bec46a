------------------------------- MODULE Poller -------------------------------
(***************************************************************************)
(* The task poller (internal/app/poll/poller.go), the admission part of    *)
(* Runner.Run (internal/app/run/runner.go) and the tail of the daemon      *)
(* command that starts the poller and shuts it down                        *)
(* (internal/app/cmd/daemon.go).                                           *)
(*                                                                         *)
(* One goroutine runs Poll (or PollOnce); every task it receives runs in a *)
(* goroutine of its own, bounded by the semaphore `sem`.  A delivery is    *)
(* one answer of the server that carries a task: two deliveries may carry  *)
(* the same task id, which Run refuses while the first one still runs.     *)
(* The server's task queue is external and modelled from the use fetchTask *)
(* makes of TasksVersion.  The backoff delays are left out: a wait of any  *)
(* length is a step that has not been taken yet.                           *)
(***************************************************************************)
EXTENDS Integers, FiniteSets

CONSTANTS
    Deliveries,    \* answers of the server that carry a task
    Tasks,         \* task ids
    TaskOf,        \* the task id a delivery carries
    Capacity,      \* runner.capacity
    HealthEnabled  \* health_check.enabled

ASSUME DeliveriesAssumption == IsFiniteSet(Deliveries)
ASSUME TaskOfAssumption == TaskOf \in [Deliveries -> Tasks]
\* config.go:340 replaces a capacity below one by one.
ASSUME CapacityAssumption == Capacity \in Nat \ {0}
ASSUME HealthAssumption == HealthEnabled \in BOOLEAN

VARIABLES
    mode,          \* how the daemon polls: see Modes
    loop,          \* where the Poll or PollOnce goroutine is
    sem,           \* tokens in the semaphore channel of Poll
    wg,            \* counter of Poll's WaitGroup
    work,          \* stage of every delivery, from the server to the end of its goroutine
    pollingCtx,    \* cancelled by shutdownPolling
    jobsCtx,       \* cancelled by shutdownJobs
    registration,  \* the flags unregistered and registrationRejected
    tasksVersion,  \* the client's cached version
    rpc,           \* the FetchTask call of the loop: none, sent, dead (sent on a cancelled context), answered
    reqVersion, respVersion,
    srvVersion,    \* the server's version of its task queue
    runningTasks, runningCount,
    health,        \* the cached verdict of the local health check
    daemonCtx,     \* cancelled when the process is told to stop
    daemon,        \* where runDaemon is
    shutdownCtx,   \* the shutdown_timeout context; once it has run out, whether
                   \* done was closed by then ("late") or not ("overdue")
    regFile        \* the registration file: present, removed, or removal failed

loopVars   == <<loop, sem, wg>>
ctxVars    == <<pollingCtx, jobsCtx>>
fetchVars  == <<tasksVersion, rpc, reqVersion, respVersion>>
runVars    == <<runningTasks, runningCount>>
daemonVars == <<daemonCtx, daemon, shutdownCtx>>

vars == <<mode, loopVars, work, ctxVars, registration, fetchVars, srvVersion, runVars,
          health, daemonVars, regFile>>

-----------------------------------------------------------------------------
(* Types and derived state.                                                *)

\* PollOnce serves --once and every ephemeral registration, Poll the rest.
Modes     == {"poll", "once", "ephemeral"}
Once      == mode # "poll"
Ephemeral == mode = "ephemeral"

LoopPc    == {"acquire", "check", "fetch", "rpc", "idle", "backoff", "run", "drain", "closed"}
Context   == {"live", "cancelled"}
Verdict   == {"ready", "unready"}
Rejection == {"unauthenticated", "rejected"}
DaemonPc  == {"select", "shutdown", "recheck", "force", "forced", "stopped"}

\* At the server, in flight, and in the runner: spawned (goroutine started),
\* admitted (task id stored), running (counted), finishing (no longer counted),
\* exit (Run returned), released (semaphore token given back), ended.
Stage == {"new", "queued", "assigned", "lost", "spawned", "admitted", "running",
          "finishing", "exit", "released", "ended"}

GoroutineStages == {"spawned", "admitted", "running", "finishing", "exit", "released"}
HolderStages    == GoroutineStages \ {"released"}
BodyStages      == {"admitted", "running", "finishing"}
CountedStages   == {"running"}

AtStage(f, stages) == {d \in Deliveries : f[d] \in stages}

In(stages) == AtStage(work, stages)

\* The loop holds a token from the acquire until it gives it back or spawns.
LoopHolds == ~Once /\ loop \in {"check", "fetch", "rpc", "idle"}

At(d, from, to) ==
    /\ work[d] = from
    /\ work' = [work EXCEPT ![d] = to]

TypeOK ==
    /\ mode \in Modes
    /\ loop \in LoopPc /\ sem \in Nat /\ wg \in Nat
    /\ work \in [Deliveries -> Stage]
    /\ pollingCtx \in Context /\ jobsCtx \in Context
    /\ registration \in {"ok"} \cup Rejection
    /\ tasksVersion \in Nat /\ reqVersion \in Nat /\ respVersion \in Nat
    /\ rpc \in {"none", "sent", "dead", "answered"}
    /\ srvVersion \in Nat
    /\ runningTasks \in SUBSET Tasks /\ runningCount \in Int
    /\ health \in {"unset"} \cup Verdict
    /\ daemonCtx \in Context /\ daemon \in DaemonPc
    /\ shutdownCtx \in {"live", "late", "overdue"}
    /\ regFile \in {"present", "removed", "failed"}

LoopStart == IF Once THEN "check" ELSE "acquire"
LoopEnd   == IF Once THEN "closed" ELSE "drain"

Init ==
    /\ mode \in Modes
    /\ loop = LoopStart /\ sem = 0 /\ wg = 0
    /\ work = [d \in Deliveries |-> "new"]
    /\ pollingCtx = "live" /\ jobsCtx = "live"
    /\ registration = "ok"
    /\ tasksVersion = 0 /\ rpc = "none" /\ reqVersion = 0 /\ respVersion = 0
    /\ srvVersion = 1
    /\ runningTasks = {} /\ runningCount = 0
    /\ health = "unset"
    /\ daemonCtx = "live" /\ daemon = "select" /\ shutdownCtx = "live"
    /\ regFile = "present"

-----------------------------------------------------------------------------
(* The server (external): a queue with a version.  A request whose version *)
(* equals the queue's is answered "nothing new" without a look at the      *)
(* queue; any other version, and zero in particular, makes it look.        *)

SrvEnqueue(d) ==
    /\ At(d, "new", "queued")
    /\ srvVersion' = srvVersion + 1
    /\ UNCHANGED <<mode, loopVars, ctxVars, registration, fetchVars, runVars, health, daemonVars, regFile>>

SrvAnswer ==
    /\ rpc = "sent"
    /\ rpc' = "answered"
    /\ respVersion' = srvVersion
    /\ \/ /\ reqVersion = srvVersion \/ In({"queued"}) = {}
          /\ UNCHANGED work
       \/ /\ reqVersion # srvVersion
          /\ \E d \in Deliveries : At(d, "queued", "assigned")
    /\ UNCHANGED <<mode, loopVars, ctxVars, registration, tasksVersion, reqVersion, srvVersion, runVars,
                   health, daemonVars, regFile>>

-----------------------------------------------------------------------------
(* The poll loop.                                                          *)

\* select: a token of the semaphore ...
Acquire ==
    /\ loop = "acquire" /\ sem < Capacity
    /\ loop' = "check" /\ sem' = sem + 1
    /\ UNCHANGED <<mode, wg, work, ctxVars, registration, fetchVars, srvVersion, runVars, health,
                   daemonVars, regFile>>

\* ... or the end of polling.
AcquireCancelled ==
    /\ loop = "acquire" /\ pollingCtx = "cancelled"
    /\ loop' = "drain"
    /\ UNCHANGED <<mode, sem, wg, work, ctxVars, registration, fetchVars, srvVersion, runVars, health,
                   daemonVars, regFile>>

\* Mutant: while jobs run every task is accepted, whatever the last check said.
CanAcceptTaskWhileBusy(verdict, answer) ==
    \/ /\ ~HealthEnabled \/ runningCount > 0
       /\ answer = "ready"
       /\ UNCHANGED health
    \/ /\ HealthEnabled /\ runningCount <= 0
       /\ answer = verdict
       /\ health' = verdict

\* CanAcceptTask: while jobs run the cached verdict answers, otherwise a fresh
\* check does and is cached.
CanAcceptTask(verdict, answer) ==
    \/ /\ ~HealthEnabled
       /\ answer = "ready"
       /\ UNCHANGED health
    \/ /\ HealthEnabled /\ runningCount > 0
       /\ answer = IF health = "unset" THEN "ready" ELSE health
       /\ UNCHANGED health
    \/ /\ HealthEnabled /\ runningCount <= 0
       /\ answer = verdict
       /\ health' = verdict

CheckAvailability(verdict) ==
    /\ loop = "check"
    /\ \E answer \in Verdict :
          /\ CanAcceptTask(verdict, answer)
          /\ loop' = IF answer = "ready" THEN "fetch" ELSE "idle"
    /\ UNCHANGED <<mode, sem, wg, work, ctxVars, registration, fetchVars, srvVersion, runVars, daemonVars,
                   regFile>>

\* runIdleMaintenance, then the token goes back before the backoff sleep.
IdleRelease ==
    /\ loop = "idle"
    /\ loop' = "backoff"
    /\ sem' = IF Once THEN sem ELSE sem - 1
    /\ UNCHANGED <<mode, wg, work, ctxVars, registration, fetchVars, srvVersion, runVars, health,
                   daemonVars, regFile>>

BackoffOver ==
    /\ loop = "backoff"
    /\ loop' = LoopStart
    /\ UNCHANGED <<mode, sem, wg, work, ctxVars, registration, fetchVars, srvVersion, runVars, health,
                   daemonVars, regFile>>

BackoffCancelled ==
    /\ loop = "backoff" /\ pollingCtx = "cancelled"
    /\ loop' = LoopEnd
    /\ UNCHANGED <<mode, sem, wg, work, ctxVars, registration, fetchVars, srvVersion, runVars, health,
                   daemonVars, regFile>>

\* The deferred wg.Wait and close(done) of Poll.
Drain ==
    /\ loop = "drain" /\ wg = 0
    /\ loop' = "closed"
    /\ UNCHANGED <<mode, sem, wg, work, ctxVars, registration, fetchVars, srvVersion, runVars, health,
                   daemonVars, regFile>>

-----------------------------------------------------------------------------
(* fetchTask.                                                              *)

FetchSend ==
    /\ loop = "fetch"
    /\ loop' = "rpc"
    /\ rpc' = IF pollingCtx = "live" THEN "sent" ELSE "dead"
    /\ reqVersion' = tasksVersion
    /\ UNCHANGED <<mode, sem, wg, work, ctxVars, registration, tasksVersion, respVersion, srvVersion, runVars,
                   health, daemonVars, regFile>>

\* Whatever the server assigned in an answer that never arrives is lost to the runner.
LoseAnswer == work' = [d \in Deliveries |-> IF work[d] = "assigned" THEN "lost" ELSE work[d]]

\* fetch_timeout, or any transport or server error: no task, the loop goes idle.
FetchFailed ==
    /\ loop = "rpc"
    /\ loop' = "idle" /\ rpc' = "none"
    /\ LoseAnswer
    /\ UNCHANGED <<mode, sem, wg, ctxVars, registration, tasksVersion, reqVersion, respVersion, srvVersion,
                   runVars, health, daemonVars, regFile>>

\* Unauthenticated, or "unregistered runner" from Gitea itself (rejected):
\* the poller stops itself.
FetchUnregistered(how) ==
    /\ loop = "rpc" /\ rpc = "sent"
    /\ loop' = "idle" /\ rpc' = "none"
    /\ registration' = how
    /\ pollingCtx' = "cancelled"
    /\ UNCHANGED <<mode, sem, wg, work, jobsCtx, tasksVersion, reqVersion, respVersion, srvVersion,
                   runVars, health, daemonVars, regFile>>

\* The two CompareAndSwaps: keep a newer version, and forget it with a task.
Swapped(version, old, new) == IF version = old THEN new ELSE version

KeptVersion ==
    IF respVersion > reqVersion
    THEN Swapped(tasksVersion, reqVersion, respVersion)
    ELSE tasksVersion

\* Mutant: the version survives a task.
KeptAfterTask == KeptVersion

VersionAfterTask == Swapped(KeptVersion, respVersion, 0)

FetchEmpty ==
    /\ loop = "rpc" /\ rpc = "answered" /\ In({"assigned"}) = {}
    /\ loop' = "idle" /\ rpc' = "none"
    /\ tasksVersion' = KeptVersion
    /\ UNCHANGED <<mode, sem, wg, work, ctxVars, registration, reqVersion, respVersion, srvVersion, runVars,
                   health, daemonVars, regFile>>

\* Poll hands the task and the token to a new goroutine.
FetchTaskPoll(d) ==
    /\ ~Once
    /\ loop = "rpc" /\ rpc = "answered"
    /\ At(d, "assigned", "spawned")
    /\ tasksVersion' = VersionAfterTask
    /\ loop' = "acquire" /\ rpc' = "none"
    /\ wg' = wg + 1
    /\ UNCHANGED <<mode, sem, ctxVars, registration, reqVersion, respVersion, srvVersion, runVars, health,
                   daemonVars, regFile>>

\* removeEphemeralRegistration: os.Remove may fail, which is only logged.
RemoveRegistration ==
    IF Ephemeral
    THEN \/ regFile' = "removed"
         \/ regFile = "present" /\ regFile' = "failed"
    ELSE UNCHANGED regFile

\* Mutant: the task runs on a registration that is still on disk.
FetchTaskOnceKeepsRegistration(d) ==
    /\ Once
    /\ loop = "rpc" /\ rpc = "answered"
    /\ At(d, "assigned", "spawned")
    /\ tasksVersion' = VersionAfterTask
    /\ loop' = "run" /\ rpc' = "none"
    /\ UNCHANGED <<mode, sem, wg, ctxVars, registration, reqVersion, respVersion, srvVersion, runVars,
                   health, daemonVars, regFile>>

\* PollOnce removes a spent registration, then runs the task itself.
FetchTaskOnce(d) ==
    /\ Once
    /\ loop = "rpc" /\ rpc = "answered"
    /\ At(d, "assigned", "spawned")
    /\ tasksVersion' = VersionAfterTask
    /\ loop' = "run" /\ rpc' = "none"
    /\ RemoveRegistration
    /\ UNCHANGED <<mode, sem, wg, ctxVars, registration, reqVersion, respVersion, srvVersion, runVars,
                   health, daemonVars>>

-----------------------------------------------------------------------------
(* Runner.Run inside runTaskWithRecover, one goroutine per delivery.  A    *)
(* panic unwinds the same deferred calls as a return.                      *)

\* runningTasks.LoadOrStore
RunAdmit(d) ==
    /\ TaskOf[d] \notin runningTasks
    /\ At(d, "spawned", "admitted")
    /\ runningTasks' = runningTasks \cup {TaskOf[d]}
    /\ UNCHANGED <<mode, loopVars, ctxVars, registration, fetchVars, srvVersion, runningCount, health,
                   daemonVars, regFile>>

\* Mutant: the deferred Delete is registered before the check, so a refusal runs it.
RunRefuseForgets(d) ==
    /\ TaskOf[d] \in runningTasks
    /\ At(d, "spawned", "exit")
    /\ runningTasks' = runningTasks \ {TaskOf[d]}
    /\ UNCHANGED <<mode, loopVars, ctxVars, registration, fetchVars, srvVersion, runningCount, health,
                   daemonVars, regFile>>

\* "task %d is already running"
RunRefuse(d) ==
    /\ TaskOf[d] \in runningTasks
    /\ At(d, "spawned", "exit")
    /\ UNCHANGED <<mode, loopVars, ctxVars, registration, fetchVars, srvVersion, runVars, health,
                   daemonVars, regFile>>

RunCount(d) ==
    /\ At(d, "admitted", "running")
    /\ runningCount' = runningCount + 1
    /\ UNCHANGED <<mode, loopVars, ctxVars, registration, fetchVars, srvVersion, runningTasks, health,
                   daemonVars, regFile>>

\* The job ended, failed, timed out or panicked, and was reported.
RunFinish(d) ==
    /\ At(d, "running", "finishing")
    /\ runningCount' = runningCount - 1
    /\ UNCHANGED <<mode, loopVars, ctxVars, registration, fetchVars, srvVersion, runningTasks, health,
                   daemonVars, regFile>>

RunForget(d) ==
    /\ At(d, "finishing", "exit")
    /\ runningTasks' = runningTasks \ {TaskOf[d]}
    /\ UNCHANGED <<mode, loopVars, ctxVars, registration, fetchVars, srvVersion, runningCount, health,
                   daemonVars, regFile>>

\* The two deferred calls of Poll's goroutine, in their order.
ReleaseToken(d) ==
    /\ ~Once
    /\ At(d, "exit", "released")
    /\ sem' = sem - 1
    /\ UNCHANGED <<mode, loop, wg, ctxVars, registration, fetchVars, srvVersion, runVars, health,
                   daemonVars, regFile>>

GoroutineDone(d) ==
    /\ ~Once
    /\ At(d, "released", "ended")
    /\ wg' = wg - 1
    /\ UNCHANGED <<mode, loop, sem, ctxVars, registration, fetchVars, srvVersion, runVars, health,
                   daemonVars, regFile>>

\* PollOnce returns after its one task and closes done.
OnceReturn(d) ==
    /\ loop = "run"
    /\ At(d, "exit", "ended")
    /\ loop' = "closed"
    /\ UNCHANGED <<mode, sem, wg, ctxVars, registration, fetchVars, srvVersion, runVars, health,
                   daemonVars, regFile>>

-----------------------------------------------------------------------------
(* runDaemon from the start of polling on, with Poller.Shutdown inlined.   *)

Signal ==
    /\ daemonCtx = "live" /\ daemonCtx' = "cancelled"
    /\ UNCHANGED <<mode, loopVars, work, ctxVars, registration, fetchVars, srvVersion, runVars, health,
                   daemon, shutdownCtx, regFile>>

BeginShutdown ==
    /\ daemon = "select" /\ (daemonCtx = "cancelled" \/ loop = "closed")
    /\ daemon' = "shutdown" /\ pollingCtx' = "cancelled"
    /\ UNCHANGED <<mode, loopVars, work, jobsCtx, registration, fetchVars, srvVersion, runVars, health,
                   daemonCtx, shutdownCtx, regFile>>

\* The shutdown_timeout context is created just before Shutdown is called.
ShutdownTimeout ==
    /\ daemon = "shutdown" /\ shutdownCtx = "live"
    /\ shutdownCtx' = IF loop = "closed" THEN "late" ELSE "overdue"
    /\ UNCHANGED <<mode, loopVars, work, ctxVars, registration, fetchVars, srvVersion, runVars, health,
                   daemonCtx, daemon, regFile>>

\* What runDaemon does after Shutdown returned: a rejected registration is removed.
Stop ==
    /\ daemon' = "stopped"
    /\ IF registration = "rejected" THEN RemoveRegistration ELSE UNCHANGED regFile

ShutdownGraceful ==
    /\ daemon = "shutdown" /\ loop = "closed"
    /\ Stop
    /\ UNCHANGED <<mode, loopVars, work, ctxVars, registration, fetchVars, srvVersion, runVars, health,
                   daemonCtx, shutdownCtx>>

ShutdownExpired ==
    /\ daemon = "shutdown" /\ shutdownCtx # "live"
    /\ daemon' = "recheck"
    /\ UNCHANGED <<mode, loopVars, work, ctxVars, registration, fetchVars, srvVersion, runVars, health,
                   daemonCtx, shutdownCtx, regFile>>

\* Mutant: no second look at done.
ShutdownNoRecheck ==
    /\ daemon = "recheck"
    /\ daemon' = "force"
    /\ UNCHANGED <<mode, loopVars, work, ctxVars, registration, fetchVars, srvVersion, runVars, health,
                   daemonCtx, shutdownCtx, regFile>>

\* The non-blocking second look at done.
ShutdownRecheck ==
    /\ daemon = "recheck"
    /\ IF loop = "closed" THEN Stop ELSE daemon' = "force" /\ UNCHANGED regFile
    /\ UNCHANGED <<mode, loopVars, work, ctxVars, registration, fetchVars, srvVersion, runVars, health,
                   daemonCtx, shutdownCtx>>

ShutdownJobs ==
    /\ daemon = "force"
    /\ daemon' = "forced" /\ jobsCtx' = "cancelled"
    /\ UNCHANGED <<mode, loopVars, work, pollingCtx, registration, fetchVars, srvVersion, runVars, health,
                   daemonCtx, shutdownCtx, regFile>>

ShutdownForced ==
    /\ daemon = "forced" /\ loop = "closed"
    /\ Stop
    /\ UNCHANGED <<mode, loopVars, work, ctxVars, registration, fetchVars, srvVersion, runVars, health,
                   daemonCtx, shutdownCtx>>

\* runDaemon returned and the process is gone.
Terminated ==
    /\ daemon = "stopped"
    /\ UNCHANGED vars

-----------------------------------------------------------------------------
LoopStep ==
    \/ Acquire \/ AcquireCancelled
    \/ \E v \in Verdict : CheckAvailability(v)
    \/ IdleRelease \/ BackoffOver \/ BackoffCancelled \/ Drain
    \/ FetchSend \/ FetchFailed \/ FetchEmpty
    \/ \E how \in Rejection : FetchUnregistered(how)
    \/ \E d \in Deliveries : FetchTaskPoll(d) \/ FetchTaskOnce(d)

\* Goroutines end with the process, when runDaemon has returned.
JobStep(d) ==
    /\ daemon # "stopped"
    /\ \/ RunAdmit(d) \/ RunRefuse(d) \/ RunCount(d) \/ RunFinish(d) \/ RunForget(d)
       \/ ReleaseToken(d) \/ GoroutineDone(d) \/ OnceReturn(d)

DaemonStep ==
    \/ BeginShutdown \/ ShutdownGraceful \/ ShutdownExpired \/ ShutdownRecheck
    \/ ShutdownJobs \/ ShutdownForced

Environment ==
    \/ \E d \in Deliveries : SrvEnqueue(d)
    \/ SrvAnswer \/ Signal \/ ShutdownTimeout

Next ==
    \/ LoopStep
    \/ \E d \in Deliveries : JobStep(d)
    \/ DaemonStep
    \/ Environment
    \/ Terminated

Spec == Init /\ [][Next]_vars

\* The Go scheduler runs every runnable goroutine, and a select with several
\* ready cases picks one at random, so a cancelled context that stays ready is
\* eventually picked (strong fairness).  RunFinish is fair because Run puts a
\* timeout on every job.
SchedulerFairness ==
    /\ WF_vars(LoopStep)
    /\ SF_vars(AcquireCancelled) /\ SF_vars(BackoffCancelled)
    /\ \A d \in Deliveries : WF_vars(JobStep(d))
    /\ WF_vars(DaemonStep)

\* The server is reachable and the host healthy again and again.
EnvironmentFairness ==
    /\ SF_vars(CheckAvailability("ready"))
    /\ SF_vars(SrvAnswer)
    /\ SF_vars(FetchEmpty)
    /\ \A d \in Deliveries : SF_vars(FetchTaskPoll(d) \/ FetchTaskOnce(d))

FairSpec == Spec /\ SchedulerFairness

-----------------------------------------------------------------------------
(* Properties.                                                             *)

ReceivedStages == GoroutineStages \cup {"ended"}

\* Every token in Poll's semaphore is held by a goroutine whose deferred
\* receive is still to come or by the loop between its send and its release:
\* no path through the loop leaks or returns a token twice (poller.go:115-150).
SlotsAccounted ==
    ~Once => sem = Cardinality(In(HolderStages)) + (IF LoopHolds THEN 1 ELSE 0)

\* At most runner.capacity bodies of Run execute at a time, and one under
\* PollOnce, however fetches, refusals and job ends interleave (poller.go:106).
CapacityRespected ==
    Cardinality(In(BodyStages)) <= (IF Once THEN 1 ELSE Capacity)

\* Two deliveries of one task never execute at the same time (runner.go:293).
NoDuplicateRun ==
    \A d, e \in In(BodyStages) : TaskOf[d] = TaskOf[e] => d = e

\* The set of running ids and the running count, which admission, idle
\* maintenance and the busy gauge read, match the bodies that execute, also
\* after a refused duplicate (runner.go:293-299).
RunningBookkeeping ==
    /\ runningTasks = {TaskOf[d] : d \in In(BodyStages)}
    /\ runningCount = Cardinality(In(CountedStages))

\* What admission promises together: no slot is leaked or returned twice, the
\* capacity holds, no task runs twice at a time, and the books match what runs.
AdmissionIsRight ==
    SlotsAccounted /\ CapacityRespected /\ NoDuplicateRun /\ RunningBookkeeping

\* done is closed only when no job goroutine is left, and the process stops
\* only after that (poller.go:110-113, 259-274).
DoneMeansDrained ==
    /\ loop = "closed" => In(GoroutineStages) = {}
    /\ daemon = "stopped" => loop = "closed"

\* Running jobs are cancelled only by a shutdown whose timeout ran out before
\* the graceful shutdown had completed (poller.go:260-270).
JobsCancelledOnlyWhenOverdue ==
    jobsCtx = "cancelled" => shutdownCtx = "overdue" /\ pollingCtx = "cancelled"

\* A shutdown waits for the jobs, and cuts them off only when it is overdue.
ShutdownIsOrderly == DoneMeansDrained /\ JobsCancelledOnlyWhenOverdue

\* A fetch is issued only if the last health check that was really made passed,
\* though its verdict is cached while jobs run (runner.go:796-815).
NoFetchWhileUnhealthy ==
    [][rpc = "none" /\ rpc' # "none" => (HealthEnabled => health = "ready")]_vars

\* The removal of an ephemeral registration is attempted before its one task
\* starts, so a crash during the job does not leave a spent one behind
\* (poller.go:176, daemon.go:247).
SpentBeforeRun ==
    Ephemeral /\ In(ReceivedStages) # {} => regFile # "present"

\* PollOnce never receives a second task (poller.go:175-178).
OneTaskOnly ==
    Once => Cardinality(In(ReceivedStages)) <= 1

\* A run-once daemon takes one task, on a registration already given up.
OnceIsSpent == SpentBeforeRun /\ OneTaskOnly

\* A stop request, or the server's rejection of the runner, always ends with
\* the process stopped: no wait of the loop, of the jobs and of Shutdown on
\* each other lasts forever (poller.go:251-278).
ShutdownCompletes ==
    (daemonCtx = "cancelled" \/ registration # "ok") ~> daemon = "stopped"

\* A task that reached the runner is run to its end, or refused as a duplicate,
\* also when polling is cancelled while its answer arrives (poller.go:139-150).
ReceivedTaskEnds ==
    \A d \in Deliveries : work[d] = "spawned" ~> work[d] = "ended"

\* A queued task does not stay unseen behind a cached tasksVersion: while the
\* server answers and the host is healthy again and again, it is handed out or
\* polling stops (poller.go:410-422).
QueuedTaskServed ==
    EnvironmentFairness =>
        \A d \in Deliveries :
            work[d] = "queued" ~> (work[d] # "queued" \/ pollingCtx = "cancelled")

\* The poller never gets stuck: stopping, running and fetching all go on.
PollerProgress == ShutdownCompletes /\ ReceivedTaskEnds /\ QueuedTaskServed

=============================================================================
