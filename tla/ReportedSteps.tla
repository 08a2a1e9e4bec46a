--------------------------- MODULE ReportedSteps ----------------------------
(***************************************************************************)
(* The steps a job is shown with: the Reporter's handling of the log       *)
(* records of a job (internal/pkg/report/reporter.go) and the order in     *)
(* which the job executor, its step loggers and its stage loggers emit     *)
(* them (act/runner/job_executor.go, act/runner/step.go).                  *)
(*                                                                         *)
(* The Reporter keeps two lists: `steps`, by their index in the workflow   *)
(* file, and `shown`, the steps that ran, with setup, pre, post and        *)
(* cleanup.  Each entry points to its rows of the one log by an index and  *)
(* a length, so the rows of an entry have to be consecutive.  A row is     *)
(* what emitted it.                                                        *)
(***************************************************************************)
EXTENDS Naturals, Sequences, SequencesExt

CONSTANTS
    StepCount,  \* steps of the job
    MaxFaults   \* bound: what goes wrong in the job

ASSUME ReportedStepsAssumption == StepCount \in Nat \ {0} /\ MaxFaults \in Nat

Steps == 1 .. StepCount

VARIABLES
    shown,      \* state.ReportedSteps
    cur,        \* currentReportedStep
    steps,      \* state.Steps
    jobLog,     \* the log
    stateResult,\* state.Result
    at,         \* [part, n, ph]: where the job is
    ended,      \* of the job: "no", "failed" or "cancelled"
    lateRow,    \* history: whether a row came late out of a step that was interrupted
    faults

shownVars == <<shown, cur, steps, jobLog, stateResult, at, ended, lateRow, faults>>
reporterVars == <<shown, cur, steps, jobLog, stateResult>>

-----------------------------------------------------------------------------
(* The Reporter.                                                           *)

Entry(stage, n) == [stage |-> stage, n |-> n, res |-> "none", st |-> "new", idx |-> 0, len |-> 0]
Setup == <<"setup", 0>>
Cleanup == <<"cleanup", 0>>

KeyOf(v) == <<v.stage, v.n>>
Position(list, key) == CHOOSE i \in DOMAIN list : KeyOf(list[i]) = key
Has(list, key) == \E i \in DOMAIN list : KeyOf(list[i]) = key

ResetSteps ==
    /\ steps = [n \in Steps |-> Entry("main", n)]
    /\ shown = <<[Entry("setup", 0) EXCEPT !.st = "running"]>> \o [n \in Steps |-> Entry("main", n)]
               \o <<Entry("cleanup", 0)>>
    /\ cur = Setup /\ jobLog = << >> /\ stateResult = "none"

\* A record: the stage and step of its logger, whether it says that the step
\* starts, its result, its level, whether it is raw output, whether it is of a
\* step of a composite action, and the job's result.
Record == [stage |-> "none", n |-> 0, started |-> FALSE, res |-> "none", error |-> FALSE, level |-> "info",
           raw |-> FALSE, nested |-> FALSE, job |-> "none"]

OfStep(rec) == rec.stage \in {"pre", "main", "post"}
Own(rec) == OfStep(rec) /\ (rec.started \/ Has(shown, <<rec.stage, rec.n>>))

\* Mutant: a pre step is shown right before its own main step.
BeforeItsMain(rec) ==
    IF rec.stage = "pre" THEN Position(shown, <<"main", rec.n>>) ELSE Len(shown)

\* Pre steps go before all main steps, post steps before the cleanup.
addReportedStep(rec) ==
    IF rec.stage = "pre" THEN CHOOSE i \in DOMAIN shown : shown[i].stage = "main" /\ shown[i - 1].stage # "main"
    ELSE Len(shown)

WithStep(rec) ==
    IF Own(rec) /\ ~Has(shown, <<rec.stage, rec.n>>)
    THEN InsertAt(shown, addReportedStep(rec), Entry(rec.stage, rec.n)) ELSE shown

reportedStepOf(rec) ==
    IF rec.stage = "complete" THEN Cleanup ELSE IF Own(rec) THEN <<rec.stage, rec.n>> ELSE cur

\* Entering another step finishes the setup.
enterReportedStep(list, key) ==
    [i \in DOMAIN list |->
        IF KeyOf(list[i]) = key THEN [list[i] EXCEPT !.st = IF @ = "new" THEN "running" ELSE @]
        ELSE IF KeyOf(list[i]) = Setup /\ cur = Setup /\ list[i].st # "stopped"
             THEN [list[i] EXCEPT !.st = "stopped", !.res = IF @ = "none" THEN "success" ELSE @]
        ELSE list[i]]

\* Mutant: an error of the job replaces the result of the step it is shown in.
ErrorReplaces(v) == TRUE

MayFail(v) == v.res = "none"

\* The result the record gives to the step it belongs to.
Judged(v, rec) ==
    LET w == IF ~Own(rec) /\ rec.error /\ MayFail(v) THEN [v EXCEPT !.res = "failure"] ELSE v
    IN IF Own(rec) /\ rec.res # "none" /\ ~rec.nested THEN [w EXCEPT !.res = rec.res, !.st = "stopped"] ELSE w

\* Mutant: a step that was never reached gets the job's result.
ResultForAll(v, jobResult) == jobResult

ResultAtEnd(v, jobResult) ==
    IF v.st = "new" THEN IF jobResult = "cancelled" THEN "cancelled" ELSE "skipped"
    ELSE IF v.stage = "cleanup" THEN "success" ELSE jobResult

finishReportedSteps(list, jobResult, closing) ==
    [i \in DOMAIN list |->
        LET v == IF closing /\ list[i].st = "running" THEN [list[i] EXCEPT !.st = "stopped"] ELSE list[i]
        IN IF v.res # "none" \/ (~closing /\ v.st # "new" /\ v.stage = "cleanup") THEN v
           ELSE [v EXCEPT !.res = ResultAtEnd(v, jobResult), !.st = IF @ = "new" THEN @ ELSE "stopped"]]

duringSteps ==
    /\ steps[1].res # "none" \/ steps[1].len # 0
    /\ steps[StepCount].res = "none"

shouldAppendLogRow(rec) == ~duringSteps /\ rec.level # "debug"

\* Raw output and errors of a main step are always logged.
Logged(rec) == IF rec.stage = "main" /\ (rec.error \/ rec.raw) THEN TRUE ELSE shouldAppendLogRow(rec)

Counts(v) == [v EXCEPT !.idx = IF v.len = 0 THEN Len(jobLog) ELSE @, !.len = @ + 1]

appendLogRow(list, key) == [i \in DOMAIN list |-> IF KeyOf(list[i]) = key THEN Counts(list[i]) ELSE list[i]]

\* The entry of a main step by its index: its own rows, and its result.
LegacyStep(v, rec) ==
    LET w == IF rec.error \/ rec.raw THEN Counts(v) ELSE v
    IN IF rec.res # "none" /\ ~rec.nested
       THEN [w EXCEPT !.res = rec.res, !.st = "stopped",
                      !.idx = IF w.len = 0 THEN Len(jobLog) + (IF Logged(rec) THEN 1 ELSE 0) ELSE @]
       ELSE [w EXCEPT !.st = IF @ = "new" THEN "running" ELSE @]

HandleRecord(rec) ==
    LET key == reportedStepOf(rec)
        list == enterReportedStep(WithStep(rec), key)
        judged == [i \in DOMAIN list |-> IF KeyOf(list[i]) = key THEN Judged(list[i], rec) ELSE list[i]]
        final == IF rec.job = "none" THEN judged ELSE finishReportedSteps(judged, rec.job, FALSE)
    IN /\ cur' = key
       /\ stateResult' = IF rec.job = "none" THEN stateResult ELSE rec.job
       /\ steps' = IF rec.stage = "main" THEN [steps EXCEPT ![rec.n] = LegacyStep(@, rec)]
                   ELSE IF rec.job = "none" THEN steps
                   ELSE [n \in Steps |-> [steps[n] EXCEPT !.res = IF @ = "none" THEN "cancelled" ELSE @]]
       /\ IF Logged(rec) THEN shown' = appendLogRow(final, key) /\ jobLog' = Append(jobLog, <<rec.stage, rec.n>>)
          ELSE shown' = final /\ UNCHANGED jobLog

\* A job that gave no result of its own gets one, and a last row.
Close(words) ==
    LET result == IF stateResult # "none" THEN stateResult ELSE IF ended = "cancelled" THEN "cancelled" ELSE "failure"
    IN /\ at.part = "over" /\ at' = [at EXCEPT !.part = "closed"] /\ stateResult' = result /\ UNCHANGED <<cur, ended, lateRow, faults>>
       /\ steps' = [n \in Steps |-> [steps[n] EXCEPT !.res = IF @ = "none" /\ stateResult = "none" THEN "cancelled" ELSE @]]
       /\ IF stateResult = "none" \/ words
          THEN shown' = finishReportedSteps(appendLogRow(shown, cur), result, TRUE) /\ jobLog' = Append(jobLog, <<"none", 0>>)
          ELSE shown' = finishReportedSteps(shown, result, TRUE) /\ UNCHANGED jobLog

-----------------------------------------------------------------------------
(* The job.                                                                *)

ShownInit == ResetSteps /\ at = [part |-> "setup", n |-> 0, ph |-> "enter"] /\ ended = "no" /\ lateRow = FALSE /\ faults = 0

Where(part, n) == [part |-> part, n |-> n, ph |-> "enter"]
Fault == faults < MaxFaults /\ faults' = faults + 1
Emit(rec) == HandleRecord(rec) /\ UNCHANGED <<lateRow, faults>>
EmitFault(rec) == HandleRecord(rec) /\ Fault /\ UNCHANGED lateRow
Fails == ended' = IF ended = "cancelled" THEN ended ELSE "failed"
In(part, ph) == at.part = part /\ at.ph = ph

\* The next part of the job after a step's; a pre step that failed is the last one.
After(good) ==
    IF at.part = "pre" THEN IF at.n = StepCount \/ ~good THEN Where("main", 1) ELSE Where("pre", at.n + 1)
    ELSE IF at.part = "main" THEN IF at.n = StepCount THEN Where("post", StepCount) ELSE Where("main", at.n + 1)
    ELSE IF at.n = 1 THEN Where("complete", 0) ELSE Where("post", at.n - 1)

\* Rows of the job's own loggers and of a step's output.
JobRow ==
    /\ at.part \in {"setup", "complete", "closing"} /\ at.ph = "enter" /\ at' = [at EXCEPT !.ph = "logged"] /\ UNCHANGED ended
    /\ Emit([Record EXCEPT !.stage = IF at.part = "complete" THEN "complete" ELSE "none"])

SetupFails ==
    /\ at.part = "setup" /\ EmitFault([Record EXCEPT !.error = TRUE]) /\ Fails
    /\ at' \in {Where("main", 1), Where("post", StepCount)}

SetupDone == at.part = "setup" /\ Emit(Record) /\ at' = Where("pre", 1) /\ UNCHANGED ended

Step == [Record EXCEPT !.stage = at.part, !.n = at.n]

\* A step without the part says nothing; one whose condition is false, or that
\* has no reason to clean up, says that it is skipped.
StepAbsent == at.part \in {"pre", "post"} /\ at.ph = "enter" /\ at' = After(TRUE) /\ UNCHANGED <<reporterVars, ended, lateRow, faults>>
StepSkipped ==
    /\ at.part \in {"pre", "main", "post"} /\ at.ph = "enter" /\ at' = After(TRUE) /\ UNCHANGED ended
    /\ Emit([Step EXCEPT !.res = "skipped", !.level = "debug"])

shouldRunPostStep == Has(shown, <<"pre", at.n>>) \/ steps[at.n].res \in {"success", "failure"}
MayRun == In("pre", "enter") \/ In("main", "enter") \/ (In("post", "enter") /\ shouldRunPostStep)

StepUnevaluated == MayRun /\ at' = [at EXCEPT !.ph = "failing"] /\ EmitFault([Step EXCEPT !.res = "failure"]) /\ UNCHANGED ended
StepStarts ==
    /\ MayRun /\ at' = [at EXCEPT !.ph = "body"] /\ UNCHANGED ended
    /\ Emit([Step EXCEPT !.started = TRUE, !.level = IF at.part = "main" THEN "debug" ELSE "info"])

Running == at.ph \in {"body", "output"}

\* Output, and the result of a step of a composite action.
StepRow == In("main", "body") /\ Emit([Step EXCEPT !.raw = TRUE]) /\ at' = [at EXCEPT !.ph = "output"] /\ UNCHANGED ended
NestedResult ==
    /\ Running /\ at.part = "main" /\ at' = [at EXCEPT !.ph = "nested"] /\ UNCHANGED ended
    /\ EmitFault([Step EXCEPT !.res = "failure", !.nested = TRUE])

ContinueOnError == Running /\ at.part = "main" /\ EmitFault([Step EXCEPT !.error = TRUE]) /\ at' = [at EXCEPT !.ph = "continued"] /\ UNCHANGED ended

StepEnds(res) ==
    /\ Running \/ at.ph = "nested" \/ (at.ph = "continued" /\ res = "success")
    /\ (IF res = "success" THEN Emit([Step EXCEPT !.res = res]) ELSE EmitFault([Step EXCEPT !.res = res])) /\ UNCHANGED ended
    /\ at' = IF res = "success" THEN After(TRUE) ELSE IF ended = "cancelled" THEN After(FALSE) ELSE [at EXCEPT !.ph = "failing"]

\* reportStepError
StepError == at.ph = "failing" /\ Emit([Step EXCEPT !.error = TRUE]) /\ Fails /\ at' = After(FALSE)

\* A row that comes out of an interrupted step when the job has gone on.
LateRow ==
    /\ ended = "cancelled" /\ lateRow' = TRUE /\ Fault /\ UNCHANGED <<at, ended>>
    /\ \E n \in Steps :
        /\ steps[n].res = "failure" /\ (at.part = "main" => at.n # n) /\ at.part # "closed"
        /\ HandleRecord([Record EXCEPT !.stage = "main", !.n = n, !.raw = TRUE])

OutputsFail ==
    /\ at.part = "complete" /\ at.ph # "failed" /\ Fails /\ at' = [at EXCEPT !.ph = "failed"]
    /\ EmitFault([Record EXCEPT !.stage = "complete", !.error = TRUE])

JobResult == IF ended = "no" THEN "success" ELSE IF ended = "failed" THEN "failure" ELSE "cancelled"
setJobResult ==
    /\ at.part = "complete" /\ Emit([Record EXCEPT !.stage = "complete", !.job = JobResult])
    /\ at' = Where("closing", 0) /\ UNCHANGED ended

JobOver == at.part = "closing" /\ at' = Where("over", 0) /\ UNCHANGED <<reporterVars, ended, lateRow, faults>>

\* The container cannot be started, or something panics: nothing else runs.
Breaks ==
    /\ at.part \in {"setup", "pre", "main", "post"} /\ at' = Where("over", 0)
    /\ Fault /\ UNCHANGED <<reporterVars, ended, lateRow>>

Cancel ==
    /\ at.part \in {"setup", "pre", "main", "post"} /\ ended # "cancelled" /\ ended' = "cancelled"
    /\ Fault /\ UNCHANGED <<reporterVars, at, lateRow>>

StaysClosed == at.part = "closed" /\ UNCHANGED shownVars

ShownNext ==
    \/ JobRow \/ SetupFails \/ SetupDone \/ StepAbsent \/ StepSkipped \/ StepUnevaluated \/ StepStarts \/ StepRow
    \/ NestedResult \/ ContinueOnError \/ StepError \/ LateRow \/ OutputsFail \/ setJobResult \/ JobOver \/ Breaks
    \/ Cancel \/ StaysClosed
    \/ \E res \in {"success", "failure"} : StepEnds(res)
    \/ \E words \in BOOLEAN : Close(words)

ShownSpec == ShownInit /\ [][ShownNext]_shownVars

-----------------------------------------------------------------------------
(* Properties.                                                             *)

RowsOf(v) == v.idx + 1 .. v.idx + v.len

\* The rows of the log are those of the steps that are shown, all of them and
\* in the order the steps are shown in, and every row is in the step that
\* emitted it, if that is shown; by its index in the workflow a step has its own
\* rows only.  A row that comes late is in the log and breaks this.
RowsTile ==
    ~lateRow =>
        /\ DOMAIN jobLog = UNION {RowsOf(shown[i]) : i \in DOMAIN shown}
        /\ \A i, j \in DOMAIN shown :
            i < j /\ shown[i].len > 0 /\ shown[j].len > 0 => shown[i].idx + shown[i].len <= shown[j].idx
        /\ \A r \in DOMAIN jobLog : \A i \in DOMAIN shown :
            r \in RowsOf(shown[i]) => (jobLog[r] = KeyOf(shown[i]) \/ ~Has(shown, jobLog[r]))
        /\ \A n \in Steps : \A r \in RowsOf(steps[n]) : r \in DOMAIN jobLog /\ jobLog[r] = <<"main", n>>

\* When the task is closed every step that is shown has a result and has ended
\* if it had begun, the two lists agree on the steps that gave a result, and a
\* step that was never reached is not shown as one that ran.
ResultsAgree ==
    at.part = "closed" =>
        /\ \A i \in DOMAIN shown : shown[i].res # "none" /\ shown[i].st # "running"
        /\ \A i \in DOMAIN shown : shown[i].st = "new" => shown[i].res \in {"skipped", "cancelled"}
        /\ \A n \in Steps : steps[n].st = "stopped" => shown[Position(shown, <<"main", n>>)].res = steps[n].res

\* A result that was reported never changes, whatever is logged later.
ResultsStick ==
    [][\A i \in DOMAIN shown :
        shown[i].res # "none" => shown'[Position(shown', KeyOf(shown[i]))].res = shown[i].res]_shownVars
=============================================================================
