----------------------------- MODULE JobExecutor -----------------------------
(***************************************************************************)
(* One job from the start of its container to its result: newJobExecutor   *)
(* (act/runner/job_executor.go), the steps it runs (act/runner/step.go),   *)
(* the marks on the run context (act/runner/run_context.go) and the        *)
(* combinators Then and Finally they are glued with (act/common/           *)
(* executor.go).  The job is sequential; what it races with is its         *)
(* context, which a cancel or the job timeout ends at any moment.          *)
(*                                                                         *)
(* What a step, a hook or a container call does is abstracted to how it    *)
(* ends.  A step's condition is one of the status functions; the pre and   *)
(* post parts of a step may run or be skipped.                             *)
(***************************************************************************)
EXTENDS Integers

CONSTANT StepCount  \* steps of the job

ASSUME StepCountAssumption == StepCount \in Nat \ {0}

Steps          == 1..StepCount
StepConditions == {"success", "failure", "cancelled", "always"}

VARIABLES
    cond,       \* the condition of every step
    pc,         \* the part of the job that runs
    step,       \* the step it is at
    phase,      \* "enter", or "body" while a step's body runs
    jobCtx,     \* the job context
    scope,      \* the context steps run on: the job's, or a fresh bounded one
    fresh,      \* state of that fresh context
    marks,      \* jobCancelled, jobFailed, and whether the job-error container holds an error
    conclusion, \* StepResults of the main steps
    container,  \* the job container
    result,     \* the job's result
    endedAt,    \* history: the part of the job during which jobCtx ended
    ran,        \* history: main steps whose body ran
    unevaluated,\* history: main steps whose environment or condition had an error
    stray,      \* history: main steps that ended with a cancellation on a live context
    faults      \* history: parts of the job in which something failed

jobVars == <<cond, pc, step, phase, jobCtx, scope, fresh, marks, conclusion, container, result,
             endedAt, ran, unevaluated, stray, faults>>

Part == {"start", "env", "startedHook", "prepare", "pre", "main", "mark", "postContext",
         "post", "completedHook", "outputs", "teardown", "close", "done"}

JobTypeOK ==
    /\ cond \in [Steps -> StepConditions]
    /\ pc \in Part /\ step \in 0..(StepCount + 1) /\ phase \in {"enter", "body"}
    /\ jobCtx \in {"live", "cancelled", "expired"}
    /\ scope \in {"job", "fresh"} /\ fresh \in {"live", "expired"}
    /\ marks \subseteq {"cancelled", "failed", "error"}
    /\ conclusion \in [Steps -> {"none", "success", "failure", "skipped"}]
    /\ container \in {"none", "up", "removed", "leaked", "closed"}
    /\ result \in {"none", "success", "failure", "cancelled"}
    /\ endedAt \in Part \cup {"never"}
    /\ ran \subseteq Steps /\ unevaluated \subseteq Steps /\ stray \subseteq Steps
    /\ faults \subseteq Part

JobInit ==
    /\ cond \in [Steps -> StepConditions]
    /\ pc = "start" /\ step = 1 /\ phase = "enter"
    /\ jobCtx = "live" /\ scope = "job" /\ fresh = "live"
    /\ marks = {} /\ conclusion = [s \in Steps |-> "none"]
    /\ container = "none" /\ result = "none"
    /\ endedAt = "never" /\ ran = {} /\ unevaluated = {} /\ stray = {} /\ faults = {}

history == <<endedAt, ran, unevaluated, stray, faults>>

-----------------------------------------------------------------------------
(* Contexts and errors.                                                    *)

\* The state of the context the current part runs on.
Here == IF scope = "job" THEN jobCtx ELSE fresh

\* How a piece of work can end: nil, an ordinary error, context.Canceled or
\* context.DeadlineExceeded.  A cancellation on a live context is a stray one.
Ends == {"ok", "error", "canceled"} \cup (IF Here = "expired" THEN {"deadline"} ELSE {})

\* markInterrupted, by the state of a context.
Interrupted(c) ==
    IF c = "cancelled" THEN {"cancelled"} ELSE IF c = "expired" THEN {"failed"} ELSE {}

\* reportStepError
ReportStepError(end) ==
    IF end = "ok" THEN {} ELSE IF end = "canceled" THEN Interrupted(Here) ELSE {"failed", "error"}

\* The wrappers of pre, main and post steps report an error, or else the
\* context's own.
Reported(end) ==
    IF end # "ok" \/ Here = "live" THEN ReportStepError(end)
    ELSE ReportStepError(IF Here = "cancelled" THEN "canceled" ELSE "deadline")

Faulty(end) == IF end \in {"error", "deadline"} THEN {pc} ELSE {}

\* A server cancel, or the job timeout.
CtxEnds(how) ==
    /\ jobCtx = "live" /\ pc # "done"
    /\ jobCtx' = how /\ endedAt' = pc
    /\ UNCHANGED <<cond, pc, step, phase, scope, fresh, marks, conclusion, container, result,
                   ran, unevaluated, stray, faults>>

\* A fresh context is bounded too.
FreshExpires ==
    /\ scope = "fresh" /\ fresh = "live" /\ pc \in {"main", "post", "completedHook", "outputs"}
    /\ fresh' = "expired"
    /\ UNCHANGED <<cond, pc, step, phase, jobCtx, scope, marks, conclusion, container, result, history>>

-----------------------------------------------------------------------------
(* The start of the container and the setup section.                       *)

\* cleanupFailedStart, which may fail itself.
CleanupFailedStart == container' \in {"removed", "leaked"}

StartContainer(end) ==
    /\ pc = "start"
    /\ IF end = "ok"
       THEN pc' = "env" /\ container' = "up"
       ELSE pc' = "close" /\ CleanupFailedStart
    /\ UNCHANGED <<cond, step, phase, jobCtx, scope, fresh, marks, conclusion, result, history>>

\* A pipeline goes on after an element without error on a live context.
Then(end, next) == IF end = "ok" /\ jobCtx = "live" THEN next ELSE "main"

Setup(part, end, next) ==
    /\ pc = part
    /\ pc' = next
    /\ marks' = marks \cup ReportStepError(end)
    /\ faults' = faults \cup Faulty(end)
    /\ UNCHANGED <<cond, step, phase, jobCtx, scope, fresh, conclusion, container, result,
                   endedAt, ran, unevaluated, stray>>

EvaluateJobEnv(end) == Setup("env", end, Then(end, "startedHook"))
StartedHook(end)    == Setup("startedHook", end, Then(end, "prepare"))

\* An action that cannot be downloaded is a setupError: no main step runs.
PrepareActions(end) == Setup("prepare", end, IF end # "ok" THEN "mark" ELSE Then(end, "pre"))

\* The pre part of a step; one without pre, or whose condition is false, ends ok at once.
PreStep(end) ==
    /\ pc = "pre"
    /\ \E next \in {Then(end, IF step = StepCount THEN "main" ELSE "pre")} :
          pc' = next /\ step' = IF next = "pre" THEN step + 1 ELSE 1
    /\ marks' = marks \cup Reported(end)
    /\ faults' = faults \cup Faulty(end)
    /\ UNCHANGED <<cond, phase, jobCtx, scope, fresh, conclusion, container, result,
                   endedAt, ran, unevaluated, stray>>

-----------------------------------------------------------------------------
(* The main steps.                                                         *)

\* getJobContext().Status
Status ==
    IF "cancelled" \in marks THEN "cancelled"
    ELSE IF "failed" \in marks \/ \E s \in Steps : conclusion[s] = "failure" THEN "failure"
    ELSE "success"

\* isStepEnabled
IsStepEnabled(s) == cond[s] \in {"always", Status}

AtMainStep == pc = "main" /\ step <= StepCount

\* Mutant: the steps after an interrupt see the status from before it.
InterruptUnmarked ==
    /\ AtMainStep /\ phase = "enter" /\ scope = "job" /\ jobCtx # "live"
    /\ scope' = "fresh" /\ fresh' = "live"
    /\ UNCHANGED <<cond, pc, step, phase, jobCtx, marks, conclusion, container, result, history>>

\* runMainStepsAfterInterrupt: the remaining steps go on under a fresh context.
MainInterrupted ==
    /\ AtMainStep /\ phase = "enter" /\ scope = "job" /\ jobCtx # "live"
    /\ marks' = marks \cup Interrupted(jobCtx)
    /\ scope' = "fresh" /\ fresh' = "live"
    /\ UNCHANGED <<cond, pc, step, phase, jobCtx, conclusion, container, result, history>>

\* A main step's environment and condition are evaluated on a context that was live.
MainEnters == AtMainStep /\ phase = "enter" /\ (scope = "fresh" \/ jobCtx = "live")

\* They cannot be evaluated.
MainUnevaluated ==
    /\ MainEnters
    /\ conclusion' = [conclusion EXCEPT ![step] = "failure"]
    /\ marks' = marks \cup Reported("error")
    /\ unevaluated' = unevaluated \cup {step} /\ faults' = faults \cup {pc}
    /\ step' = step + 1
    /\ UNCHANGED <<cond, pc, phase, jobCtx, scope, fresh, container, result, endedAt, ran, stray>>

MainSkips ==
    /\ MainEnters /\ ~IsStepEnabled(step)
    /\ conclusion' = [conclusion EXCEPT ![step] = "skipped"]
    /\ marks' = marks \cup Reported("ok")
    /\ step' = step + 1
    /\ UNCHANGED <<cond, pc, phase, jobCtx, scope, fresh, container, result, history>>

MainRuns ==
    /\ MainEnters /\ IsStepEnabled(step)
    /\ phase' = "body" /\ ran' = ran \cup {step}
    \* StepResults holds a successful result while the step runs
    /\ conclusion' = [conclusion EXCEPT ![step] = "success"]
    /\ UNCHANGED <<cond, pc, step, jobCtx, scope, fresh, marks, container, result,
                   endedAt, unevaluated, stray, faults>>

\* continue-on-error turns an error into a success.
AfterContinueOnError(end, continue) == IF continue THEN "ok" ELSE end

MainEnds(end, continue) ==
    /\ AtMainStep /\ phase = "body"
    /\ continue => end # "ok"
    /\ \E err \in {AfterContinueOnError(end, continue)} :
          /\ conclusion' = [conclusion EXCEPT ![step] = IF err = "ok" THEN "success" ELSE "failure"]
          /\ marks' = marks \cup Reported(err)
          /\ faults' = faults \cup Faulty(err)
          /\ stray' = IF err = "canceled" /\ Here = "live" THEN stray \cup {step} ELSE stray
    /\ phase' = "enter" /\ step' = step + 1
    /\ UNCHANGED <<cond, pc, jobCtx, scope, fresh, container, result, endedAt, ran, unevaluated>>

\* After the last step: an interrupt during it is recorded.
MainDone ==
    /\ pc = "main" /\ step > StepCount
    /\ pc' = "mark"
    /\ marks' = IF scope = "job" THEN marks \cup Interrupted(jobCtx) ELSE marks
    /\ UNCHANGED <<cond, step, phase, jobCtx, scope, fresh, conclusion, container, result, history>>

-----------------------------------------------------------------------------
(* The post steps and the teardown.                                        *)

\* Mutant: no backstop for interrupts outside the main loop.
MarkNothing ==
    /\ pc = "mark"
    /\ pc' = "postContext"
    /\ UNCHANGED <<cond, step, phase, jobCtx, scope, fresh, marks, conclusion, container, result, history>>

\* The backstop for interrupts outside the main loop.
MarkBackstop ==
    /\ pc = "mark"
    /\ pc' = "postContext" /\ marks' = marks \cup Interrupted(jobCtx)
    /\ UNCHANGED <<cond, step, phase, jobCtx, scope, fresh, conclusion, container, result, history>>

\* postStepsContext reads the job context once more: a cancelled one gives the
\* post steps a new job-error container.
PostStepsContext ==
    /\ pc = "postContext"
    /\ pc' = "post" /\ step' = StepCount
    /\ scope' = (IF jobCtx = "live" THEN "job" ELSE "fresh") /\ fresh' = "live"
    /\ marks' = IF jobCtx = "cancelled" THEN marks \ {"error"} ELSE marks
    /\ UNCHANGED <<cond, phase, jobCtx, conclusion, container, result, history>>

\* The post part of a step, in reverse order, whatever the others did.
PostStep(end) ==
    /\ pc = "post"
    /\ step' = step - 1 /\ pc' = IF step = 1 THEN "completedHook" ELSE "post"
    /\ marks' = marks \cup Reported(end)
    /\ faults' = faults \cup Faulty(end)
    /\ UNCHANGED <<cond, phase, jobCtx, scope, fresh, conclusion, container, result,
                   endedAt, ran, unevaluated, stray>>

CompletedHook(end) == Setup("completedHook", end, "outputs")

\* An output that cannot be evaluated fails the job and nothing else.
JobOutputs(end) == Setup("outputs", end, "teardown")

\* setJobResult, for a job without matrix.
FinalResult ==
    IF "cancelled" \in marks THEN "cancelled" ELSE IF marks # {} THEN "failure" ELSE "success"

\* The summary upload, stopContainer on a context of its own, and the result.
Teardown ==
    /\ pc = "teardown"
    /\ pc' = "close" /\ container' \in {"removed", "leaked"}
    /\ result' = FinalResult
    /\ UNCHANGED <<cond, step, phase, jobCtx, scope, fresh, marks, conclusion, history>>

\* closeContainer runs after a failed start too.
CloseContainer ==
    /\ pc = "close"
    /\ pc' = "done" /\ container' = IF container = "removed" THEN "closed" ELSE container
    /\ UNCHANGED <<cond, step, phase, jobCtx, scope, fresh, marks, conclusion, result, history>>

Terminated == pc = "done" /\ UNCHANGED jobVars

-----------------------------------------------------------------------------
JobNext ==
    \/ \E end \in Ends :
          \/ StartContainer(end)
          \/ EvaluateJobEnv(end) \/ StartedHook(end) \/ PrepareActions(end) \/ PreStep(end)
          \/ \E continue \in BOOLEAN : MainEnds(end, continue)
          \/ PostStep(end) \/ CompletedHook(end) \/ JobOutputs(end)
    \/ MainInterrupted \/ MainUnevaluated \/ MainSkips \/ MainRuns \/ MainDone
    \/ MarkBackstop \/ PostStepsContext \/ Teardown \/ CloseContainer
    \/ \E how \in {"cancelled", "expired"} : CtxEnds(how)
    \/ FreshExpires
    \/ Terminated

JobSpec == JobInit /\ [][JobNext]_jobVars

-----------------------------------------------------------------------------
(* Properties.                                                             *)

\* The parts of the job up to the end of its main steps.
Working == {"start", "env", "startedHook", "prepare", "pre", "main"}

JobEnded == pc = "done" /\ result # "none"

\* Whatever failed, was cancelled or timed out, the job ends with the removal
\* of its container attempted (job_executor.go:306-318, run_context.go:1260).
CleanupAttempted == pc = "done" => container \in {"closed", "leaked"}

\* A cancel that lands before the main steps are over makes the job cancelled,
\* also when a step, killed by it, ends with an error of its own
\* (job_executor.go:311-313, 384, 428).
CancelIsReported == JobEnded /\ endedAt \in Working /\ jobCtx = "cancelled" => result = "cancelled"

\* A job timeout that hits before the main steps are over fails the job, also
\* when no step failed (run_context.go:166-167).
TimeoutFails == JobEnded /\ endedAt \in Working /\ jobCtx = "expired" => result = "failure"

\* A job succeeds only if nothing in it failed: not its setup, hooks, pre, main
\* or post steps, nor its outputs; stray cancellations aside (job_executor.go:71-83).
SuccessIsEarned ==
    JobEnded /\ result = "success" =>
        /\ faults = {}
        /\ \A s \in Steps : conclusion[s] = "failure" => s \in stray

\* A job is reported cancelled only if its context was cancelled: a stray
\* cancellation out of a step is not a cancel (job_executor.go:74-78).
CancelledIsGenuine == result = "cancelled" => jobCtx = "cancelled"

\* What the job has come to: cancelled or timed out before this step, failed
\* in its setup, a pre step or an earlier step, or healthy.
CourseSoFar ==
    IF jobCtx = "cancelled" THEN "cancelled"
    ELSE IF jobCtx = "expired" \/ faults # {} \/ \E s \in Steps : conclusion[s] = "failure"
    THEN "failure" ELSE "success"

\* A step whose condition can be evaluated runs if and only if the condition
\* fits the job's course up to then: cancelled() and failure() steps after a
\* cancel and after a failure or timeout and never in a healthy job, success()
\* steps in a healthy one only, always() steps ever (run_context.go:1537-1545,
\* job_executor.go:376-402).
ConditionsRespected ==
    [][\A s \in Steps : conclusion[s] = "none" /\ conclusion'[s] # "none" /\ s \notin unevaluated' =>
          (s \in ran' <=> cond[s] \in {"always", CourseSoFar})]_jobVars

\* The main steps are left only when each was run, skipped or found impossible
\* to evaluate, after failed pre or main steps and after an interruption too,
\* or when the setup failed and none ran (job_executor.go:342-402).
EveryStepDecided ==
    [][pc # "mark" /\ pc' = "mark" =>
          \/ pc = "prepare" /\ ran' = {}
          \/ \A s \in Steps : conclusion'[s] # "none"]_jobVars

\* A finished job was cleaned up after and has the result its course deserves.
FinishedJobIsRight ==
    /\ CleanupAttempted
    /\ CancelIsReported /\ TimeoutFails /\ SuccessIsEarned /\ CancelledIsGenuine

\* Each step is decided, and runs exactly when its condition fits what the job
\* has come to, interruptions included.
StepsAsConditioned == EveryStepDecided /\ ConditionsRespected

=============================================================================
