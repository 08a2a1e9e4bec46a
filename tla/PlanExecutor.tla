---------------------------- MODULE PlanExecutor ----------------------------
(***************************************************************************)
(* A plan: stages one after the other, the jobs of a stage and the matrix  *)
(* combinations of a job each in a NewParallelExecutor of bounded workers. *)
(* The combinations of a job share one result, which each of them reads,   *)
(* changes and writes under the job's mutex; the plan of a called workflow *)
(* also collects its jobs' results for the job that called it.             *)
(*                                                                         *)
(* A combination may be disabled, fail to be evaluated, fail to start or   *)
(* panic (an error without a result), or run its steps to a result.        *)
(***************************************************************************)
EXTENDS Naturals, FiniteSets, Sequences

CONSTANTS
    Jobs,           \* the plan's jobs in the order the workers get them, a sequence
    StageOf, Needs, \* the stage of a job and the jobs it needs
    Combos,         \* how many matrix combinations a job has
    MaxParallelOf,  \* strategy.max-parallel of a job
    Parallelism,    \* workers for the jobs of one stage
    Conditions,     \* the conditions a job may have: "success", "always"
    Called          \* the plan is that of a reusable workflow

Job == {Jobs[i] : i \in 1 .. Len(Jobs)}
Stages == {StageOf[j] : j \in Job}
Combo == UNION {{<<j, i>> : i \in 1 .. Combos[j]} : j \in Job}
NoCombo == <<"none", 0>>

ASSUME PlanAssumption ==
    /\ StageOf \in [Job -> 1 .. Cardinality(Job)]
    /\ \A j \in Job : Needs[j] \subseteq {k \in Job : StageOf[k] < StageOf[j]}
    /\ Combos \in [Job -> Nat \ {0}] /\ MaxParallelOf \in [Job -> Nat]
    /\ Parallelism \in Nat /\ Conditions \subseteq {"success", "always"} /\ Called \in BOOLEAN

VARIABLES
    plan,       \* [stage, at, err]
    job,        \* [at, result, tolerated, cond] of each job
    combo,      \* [at, out, err, read, tol] of each combination
    mutex,      \* jobMutexes: the combination that holds the job's
    reused,     \* reusedWorkflowJobResults of the caller
    callerJob,  \* the result the calling job gets
    ctx

vars == <<plan, job, combo, mutex, reused, callerJob, ctx>>

CombosOf(j) == {c \in Combo : c[1] = j}
JobsOf(s) == {j \in Job : StageOf[j] = s}

Init ==
    /\ plan = [stage |-> 1, at |-> "enter", err |-> FALSE]
    /\ \E c \in Conditions :    \* the condition of the jobs that need others
        job = [j \in Job |-> [at |-> "wait", result |-> "", tolerated |-> "unset",
                              cond |-> IF Needs[j] = {} THEN "success" ELSE c]]
    /\ combo = [c \in Combo |-> [at |-> "wait", out |-> "none", err |-> FALSE, read |-> "", tol |-> "no"]]
    /\ mutex = [j \in Job |-> NoCombo]
    /\ reused = [j \in Job |-> "none"]
    /\ callerJob = ""
    /\ ctx = "live"

-----------------------------------------------------------------------------
(* The workers.                                                            *)

\* Work is taken in order by at least one worker; a worker is busy until its
\* executor has returned.
Workers(limit, n) == LET m == IF limit < n THEN limit ELSE n IN IF m < 1 THEN 1 ELSE m

\* max-parallel of 0 is not declared.
maxParallelFor(j) == Workers(IF MaxParallelOf[j] = 0 THEN 4 ELSE MaxParallelOf[j], Combos[j])

Earlier(j, k) == \E a, b \in 1 .. Len(Jobs) : a < b /\ Jobs[a] = j /\ Jobs[b] = k

Busy == {"eval", "run", "lock", "write", "tell"}

\* The run contexts of the stage are made first.  A matrix of one of its jobs
\* that cannot be read ends the plan.
EnterStage ==
    /\ plan.at = "enter"
    /\ \/ /\ plan' = [plan EXCEPT !.at = "stage"]
          /\ reused' = [j \in Job |-> IF Called /\ j \in JobsOf(plan.stage) THEN "pending" ELSE reused[j]]
       \/ /\ JobsOf(plan.stage) # {}
          /\ plan' = [plan EXCEPT !.at = "end", !.err = TRUE]
          /\ UNCHANGED reused
    /\ UNCHANGED <<job, combo, mutex, callerJob, ctx>>

\* Mutant: a stage begins before the last one has ended.
StageOverlaps(j) ==
    /\ plan.at = "stage" /\ job[j].at = "wait"
    /\ job' = [job EXCEPT ![j].at = "running"]
    /\ UNCHANGED <<plan, combo, mutex, reused, callerJob, ctx>>

StartJob(j) ==
    /\ plan.at = "stage" /\ StageOf[j] = plan.stage /\ job[j].at = "wait"
    /\ \A k \in JobsOf(plan.stage) : Earlier(k, j) => job[k].at # "wait"
    /\ Cardinality({k \in Job : job[k].at = "running"}) < Workers(Parallelism, Cardinality(JobsOf(plan.stage)))
    /\ job' = [job EXCEPT ![j].at = "running"]
    /\ UNCHANGED <<plan, combo, mutex, reused, callerJob, ctx>>

StartCombo(c) ==
    /\ job[c[1]].at = "running" /\ combo[c].at = "wait"
    /\ \A d \in CombosOf(c[1]) : d[2] < c[2] => combo[d].at # "wait"
    /\ Cardinality({d \in CombosOf(c[1]) : combo[d].at \in Busy}) < maxParallelFor(c[1])
    /\ combo' = [combo EXCEPT ![c].at = "eval"]
    /\ UNCHANGED <<plan, job, mutex, reused, callerJob, ctx>>

\* The executor has returned: its worker sends the error and takes the next.
Returned(c, out, err) == combo' = [combo EXCEPT ![c].at = "done", ![c].out = out, ![c].err = err]

-----------------------------------------------------------------------------
(* A combination.                                                          *)

\* success() of a job holds when all it needs have succeeded.
Enabled(j) == job[j].cond = "always" \/ \A k \in Needs[j] : job[k].result = "success"

Tell(j, result) == reused' = IF Called THEN [reused EXCEPT ![j] = result] ELSE reused

\* isEnabled: disabled, no image for the platform, or a platform that cannot
\* be evaluated, which is written to the result without the mutex.
Disabled(c) ==
    /\ combo[c].at = "eval" /\ ~Enabled(c[1])
    /\ Returned(c, "skipped", FALSE) /\ Tell(c[1], "skipped")
    /\ UNCHANGED <<plan, job, mutex, callerJob, ctx>>

Unsupported(c) ==
    /\ combo[c].at = "eval" /\ Enabled(c[1])
    /\ Returned(c, "skipped", FALSE)
    /\ UNCHANGED <<plan, job, mutex, reused, callerJob, ctx>>

Invalid(c) ==
    /\ combo[c].at = "eval" /\ Enabled(c[1])
    /\ job' = [job EXCEPT ![c[1]].result = "failure"]
    /\ Returned(c, "invalid", TRUE) /\ Tell(c[1], "failure")
    /\ UNCHANGED <<plan, mutex, callerJob, ctx>>

Begin(c) ==
    /\ combo[c].at = "eval" /\ Enabled(c[1])
    /\ combo' = [combo EXCEPT ![c].at = "run"]
    /\ UNCHANGED <<plan, job, mutex, reused, callerJob, ctx>>

\* Mutant: a combination that panicked is run again.
RetriesPanics(c) ==
    /\ combo[c].at = "run"
    /\ combo' = [combo EXCEPT ![c].at = "eval"]
    /\ UNCHANGED <<plan, job, mutex, reused, callerJob, ctx>>

\* The job is of no known type, whatever its condition, the environment cannot
\* be started, or something panics: RecoverPanic makes that the executor's
\* error, and no result is set.
Breaks(c) ==
    /\ combo[c].at \in {"eval", "run"}
    /\ Returned(c, "broken", TRUE)
    /\ UNCHANGED <<plan, job, mutex, reused, callerJob, ctx>>

\* The steps are over.  A failed step is no error of the executor, a failed
\* pre or post step is one.
RunsSteps(c) ==
    /\ combo[c].at = "run"
    /\ \E out \in IF ctx = "live" THEN {"success", "failure"} ELSE {"cancelled", "failure"} :
       \E err \in IF out = "failure" THEN BOOLEAN ELSE {out = "cancelled"} :
            combo' = [combo EXCEPT ![c].at = "lock", ![c].out = out, ![c].err = err]
    /\ UNCHANGED <<plan, job, mutex, reused, callerJob, ctx>>

-----------------------------------------------------------------------------
(* setJobResult.                                                           *)

lockJob(c) ==
    /\ combo[c].at = "lock" /\ mutex[c[1]] = NoCombo
    /\ mutex' = [mutex EXCEPT ![c[1]] = c]
    /\ combo' = [combo EXCEPT ![c].at = "write", ![c].read = job[c[1]].result]
    /\ UNCHANGED <<plan, job, reused, callerJob, ctx>>

\* Mutant: the last combination to end decides.
ForgetsSiblings(c) == combo[c].out

\* The result of a matrix job is kept unless this combination makes it worse.
JobResult(c) ==
    LET kept == IF Combos[c[1]] > 1 /\ combo[c].read # "" THEN combo[c].read ELSE "success" IN
    IF combo[c].out = "cancelled" THEN "cancelled"
    ELSE IF combo[c].out = "failure" /\ kept # "cancelled" THEN "failure" ELSE kept

\* Mutant: the last failure decides whether failing is tolerated.
ToleratesLast(old, new) == new

\* continue-on-error is the job's only while all its failures have it.
SetContinueOnError(old, new) == IF old = "no" THEN "no" ELSE new

WriteResult(c) ==
    /\ combo[c].at = "write"
    /\ \E t \in IF combo[c].out = "failure" THEN {"yes", "no"} ELSE {"no"} :
        /\ job' = [job EXCEPT ![c[1]].result = JobResult(c),
                              ![c[1]].tolerated = IF combo[c].out = "failure" /\ JobResult(c) = "failure"
                                                  THEN SetContinueOnError(@, t) ELSE @]
        /\ combo' = [combo EXCEPT ![c].at = "tell", ![c].read = JobResult(c), ![c].tol = t]
    /\ mutex' = [mutex EXCEPT ![c[1]] = NoCombo]
    /\ UNCHANGED <<plan, reused, callerJob, ctx>>

\* The mutex is released before the caller's map is written.
TellCaller(c) ==
    /\ combo[c].at = "tell"
    /\ Returned(c, combo[c].out, combo[c].err) /\ Tell(c[1], combo[c].read)
    /\ UNCHANGED <<plan, job, mutex, callerJob, ctx>>

-----------------------------------------------------------------------------
(* The end of a job, of a stage and of the plan.                           *)

\* NewParallelExecutor waits for the error of every executor.
FinishJob(j) ==
    /\ job[j].at = "running" /\ \A c \in CombosOf(j) : combo[c].at = "done"
    /\ job' = [job EXCEPT ![j].at = "done"]
    /\ UNCHANGED <<plan, combo, mutex, reused, callerJob, ctx>>

StageErr == ctx # "live" \/ \E j \in JobsOf(plan.stage) : \E c \in CombosOf(j) : combo[c].err

\* Then: an error ends the pipeline of stages.
FinishStage ==
    /\ plan.at = "stage" /\ \A j \in JobsOf(plan.stage) : job[j].at = "done"
    /\ plan' = IF StageErr THEN [plan EXCEPT !.at = "end", !.err = TRUE]
               ELSE IF plan.stage + 1 \in Stages THEN [plan EXCEPT !.at = "enter", !.stage = @ + 1]
               ELSE [plan EXCEPT !.at = "verdict"]
    /\ UNCHANGED <<job, combo, mutex, reused, callerJob, ctx>>

Failure == \E j \in Job : job[j].result = "failure" /\ job[j].tolerated # "yes"

handleFailure ==
    /\ plan.at = "verdict"
    /\ plan' = IF Failure THEN [plan EXCEPT !.at = "end", !.err = TRUE]
               ELSE [plan EXCEPT !.at = IF Called THEN "caller" ELSE "end"]
    /\ UNCHANGED <<job, combo, mutex, reused, callerJob, ctx>>

\* A job that never told its result leaves the caller without one.
setReusedWorkflowCallerResult ==
    /\ plan.at = "caller"
    /\ plan' = [plan EXCEPT !.at = "end"]
    /\ callerJob' = IF \E j \in Job : reused[j] = "pending" THEN callerJob
                    ELSE IF \E j \in Job : reused[j] = "failure" THEN "failure" ELSE "success"
    /\ UNCHANGED <<job, combo, mutex, reused, ctx>>

Cancel ==
    /\ ctx = "live" /\ plan.at # "end"
    /\ ctx' = "cancelled"
    /\ UNCHANGED <<plan, job, combo, mutex, reused, callerJob>>

Ended == plan.at = "end" /\ UNCHANGED vars

ComboStep(c) ==
    \/ StartCombo(c) \/ Disabled(c) \/ Unsupported(c) \/ Invalid(c) \/ Begin(c) \/ Breaks(c) \/ RunsSteps(c)
    \/ lockJob(c) \/ WriteResult(c) \/ TellCaller(c)

PlanStep ==
    \/ EnterStage \/ FinishStage \/ handleFailure \/ setReusedWorkflowCallerResult
    \/ \E j \in Job : StartJob(j) \/ FinishJob(j)

Next == PlanStep \/ (\E c \in Combo : ComboStep(c)) \/ Cancel \/ Ended

Spec == Init /\ [][Next]_vars

\* Go runs every worker that can go on, and steps end by themselves or by the
\* job's timeout; nothing is assumed about the cancellation.
Fairness == WF_vars(PlanStep) /\ \A c \in Combo : WF_vars(ComboStep(c))
FairSpec == Spec /\ Fairness

-----------------------------------------------------------------------------
(* Properties.                                                             *)

HasResult == {"success", "failure", "cancelled"}

\* The result of a finished job is the worst of its combinations, whatever
\* the order they read and wrote it in.  (A combination that could not be
\* evaluated writes without the mutex: its job is excepted.)
ResultIsWorst ==
    \A j \in Job :
        LET outs == {combo[c].out : c \in CombosOf(j)} IN
        (job[j].at = "done" /\ "invalid" \notin outs) =>
            job[j].result = IF "cancelled" \in outs THEN "cancelled"
                            ELSE IF "failure" \in outs THEN "failure"
                            ELSE IF "success" \in outs THEN "success" ELSE ""

\* A plan ends without an error only if every combination that failed has
\* continue-on-error and none broke, and with one only for a reason.
VerdictIsRight ==
    plan.at = "end" =>
        LET outs == {combo[c].out : c \in Combo} IN
        IF plan.err
        THEN \/ outs \cap {"failure", "cancelled", "invalid", "broken"} # {} \/ ctx # "live"
             \/ \E j \in JobsOf(plan.stage) : job[j].at = "wait"
        ELSE /\ outs \cap {"invalid", "broken", "cancelled"} = {}
             /\ \A c \in Combo : combo[c].out = "failure" => combo[c].tol = "yes"

\* No combination of a job runs before all combinations of the jobs it needs
\* have returned, and one that runs on success() finds them all succeeded to
\* the end of the plan.
NeedsComeFirst ==
    \A c \in Combo : combo[c].at \in Busy \ {"eval"} =>
        \A k \in Needs[c[1]] :
            /\ \A d \in CombosOf(k) : combo[d].at = "done"
            /\ job[c[1]].cond = "success" => job[k].result = "success"

\* Every plan ends, with any of its combinations failing to start or
\* panicking and with fewer workers than work.
PlanEnds == <>(plan.at = "end")

=============================================================================
