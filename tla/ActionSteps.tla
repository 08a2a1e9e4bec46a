---------------------------- MODULE ActionSteps -----------------------------
(***************************************************************************)
(* The steps of a job that are actions: their pre, main and post stages,   *)
(* composite actions with steps of their own, and what a step hands to     *)
(* later ones: its result, the environment and path it writes to the       *)
(* command files, and the state it keeps for its post stage.               *)
(*                                                                         *)
(* The job runs one stage after the other, each through its steps in       *)
(* order; a composite action opens and closes around its children.  The    *)
(* body of a step is one action with any outcome, and the job's context    *)
(* may end, or the fresh context of the main and post steps that follow.   *)
(* Two levels of steps; one variable $GITHUB_ENV stands for all.           *)
(***************************************************************************)
EXTENDS Naturals, FiniteSets, SequencesExt

CONSTANTS
    Top,            \* the job's steps, in order
    Children,       \* the steps of each composite action
    Kind,           \* "run", "action" (with pre and post) or "composite"
    Local,          \* actions of the workspace that can be read: no pre stage
    CondsOf,        \* the conditions a step may have: "success", "failure", "always"
    Tolerant,       \* the steps with continue-on-error
    Writers,        \* <<stage, step>> that may write $GITHUB_ENV and $GITHUB_PATH
    NotPrepared,    \* nested actions that may be impossible to download
    MaxErrors       \* bound: how many stages fail by themselves

Composites == DOMAIN Children
Step == ToSet(Top) \cup UNION {ToSet(Children[c]) : c \in Composites}
Scope == {"job"} \cup Composites        \* the run contexts
Stage == {"pre", "main", "post"}

StepsOf(sc) == IF sc = "job" THEN Top ELSE Children[sc]

ASSUME StepsAssumption ==
    /\ \A sc \in Scope : StepsOf(sc) \in Seq(Step) /\ IsInjective(StepsOf(sc))
    /\ \A sc, other \in Scope : sc # other => ToSet(StepsOf(sc)) \cap ToSet(StepsOf(other)) = {}
    /\ {"job", "nil", "unset"} \cap Step = {}
    /\ Composites \subseteq ToSet(Top) /\ Composites = {s \in Step : Kind[s] = "composite"}
    /\ Kind \in [Step -> {"run", "action", "composite"}] /\ Local \subseteq Step /\ Tolerant \subseteq Step
    /\ CondsOf \in [Step -> SUBSET {"success", "failure", "always"}]
    /\ Writers \subseteq Stage \X Step /\ NotPrepared \subseteq Step \ ToSet(Top)
    /\ MaxErrors \in Nat

VARIABLES
    pc,         \* [stage, i, j]: the place among the job's steps, and within a composite action
    ctx,        \* [job, fresh, used]: the contexts, and which one the step gets
    job,        \* [cancelled, failed, err]: jobCancelled, jobFailed, JobError
    cond, result,       \* of each step; result is its conclusion in StepResults
    opened,     \* composite actions whose run context exists
    preStarted, \* preStepStarted
    childErr,   \* the JobError container of each composite action
    env, path,  \* rc.Env and rc.ExtraPath of each scope
    globalRef, globalEnv,   \* the map rc.GlobalEnv refers to, and the maps
    saved,      \* IntraActionState: scope, step ID -> the stages that saved
    download,   \* of the nested actions
    ran, erred, wrote, kept,    \* history: stages run, errors, main writes, own states
    barred      \* history: composite actions whose post steps could not be entered

handVars == <<env, path, globalRef, globalEnv, saved, wrote, kept>>
vars == <<pc, ctx, job, cond, result, opened, preStarted, childErr, env, path, globalRef, globalEnv,
          saved, download, ran, erred, wrote, kept, barred>>

Parent(s) == IF s \in ToSet(Top) THEN "job" ELSE CHOOSE c \in Composites : s \in ToSet(Children[c])
ID(s) == CHOOSE i \in DOMAIN StepsOf(Parent(s)) : StepsOf(Parent(s))[i] = s
Before(s, t) == Parent(s) = Parent(t) /\ ID(s) < ID(t)

\* The post stage takes the steps in reverse order.
Nth(stage, seq, k) == seq[IF stage = "post" THEN Len(seq) + 1 - k ELSE k]

\* A composite action opens and closes around its children.
TopStep == Nth(pc.stage, Top, pc.i)
Entry ==
    IF pc.j = 0 THEN <<IF TopStep \in Composites THEN "open" ELSE "step", TopStep>>
    ELSE IF pc.j <= Len(Children[TopStep]) THEN <<"step", Nth(pc.stage, Children[TopStep], pc.j)>>
    ELSE <<"close", TopStep>>

At(stage, op, s) == pc.stage = stage /\ stage \in Stage /\ pc.i <= Len(Top) /\ Entry = <<op, s>>

Init ==
    /\ pc = [stage |-> "setup", i |-> 1, j |-> 0]
    /\ ctx = [job |-> "live", fresh |-> "live", used |-> "job"]
    /\ job = [cancelled |-> FALSE, failed |-> FALSE, err |-> FALSE]
    /\ cond \in {f \in [Step -> {"success", "failure", "always"}] : \A s \in Step : f[s] \in CondsOf[s]}
    /\ result = [s \in Step |-> "none"]
    /\ opened = {} /\ preStarted = {}
    /\ childErr = [c \in Composites |-> "none"]
    /\ env = [sc \in Scope |-> "unset"] /\ path = [sc \in Scope |-> {}]
    /\ globalRef = [sc \in Scope |-> "nil"] /\ globalEnv = [sc \in Scope |-> "unset"]
    /\ saved = [sc \in Scope |-> [i \in 1 .. Len(StepsOf(sc)) |-> {}]]
    /\ download \in [NotPrepared -> {"ok", "fails"}]
    /\ ran = << >> /\ erred = {} /\ wrote = << >> /\ kept = [s \in Step |-> {}] /\ barred = {}

-----------------------------------------------------------------------------
(* Contexts and the job's status.                                          *)

CtxErr == IF ctx.used = "job" THEN IF ctx.job = "live" THEN "none" ELSE ctx.job
          ELSE IF ctx.fresh = "live" THEN "none" ELSE "timeout"

CtxEnds ==
    /\ pc.stage \in Stage /\ ctx.job = "live"
    /\ \E e \in {"cancel", "timeout"} : ctx' = [ctx EXCEPT !.job = e]
    /\ UNCHANGED <<pc, job, cond, result, opened, preStarted, childErr, download, ran, erred, barred, handVars>>

FreshExpires ==
    /\ pc.stage \in {"main", "post"} /\ ctx.used = "fresh" /\ ctx.fresh = "live"
    /\ ctx' = [ctx EXCEPT !.fresh = "expired"]
    /\ UNCHANGED <<pc, job, cond, result, opened, preStarted, childErr, download, ran, erred, barred, handVars>>

markInterrupted(j, e) == [j EXCEPT !.cancelled = @ \/ e = "cancel", !.failed = @ \/ e = "timeout"]

\* A cancellation defers to the context; a timeout is an error like others.
reportStepError(j, e) ==
    IF e = "none" THEN j
    ELSE IF e = "cancel" THEN markInterrupted(j, CtxErr)
    ELSE [j EXCEPT !.failed = TRUE, !.err = TRUE]

\* The wrapper of a step of the job: its error, or else that of its context.
Reported(e) == reportStepError(job, IF e = "none" THEN CtxErr ELSE e)

ownStatus(sc) ==
    IF (sc = "job" /\ job.failed) \/ \E i \in DOMAIN StepsOf(sc) : result[StepsOf(sc)[i]] = "failure"
    THEN "failure" ELSE "success"

getJobContext == IF job.cancelled THEN "cancelled" ELSE ownStatus("job")

\* Mutant: a nested step reads the status of the job.
JobStatusOnly(stage, s) == getJobContext

\* The main steps of a composite action read its own result, other stages
\* and a cancellation the job's.
StatusFor(stage, s) ==
    IF stage = "main" /\ Parent(s) # "job" /\ getJobContext # "cancelled" THEN ownStatus(Parent(s))
    ELSE getJobContext

\* pre-if defaults to success(), post-if to always().
isStepEnabled(stage, s) ==
    LET c == IF stage = "main" THEN cond[s] ELSE IF stage = "pre" THEN "success" ELSE "always" IN
    c = "always" \/ c = StatusFor(stage, s)

-----------------------------------------------------------------------------
(* What a step hands on.                                                   *)

\* setEnv writes rc.Env and the map of rc.GlobalEnv, made when there is none.
Hand(stage, s) ==
    LET sc == Parent(s)
        m == IF globalRef[sc] = "nil" THEN sc ELSE globalRef[sc] IN
    \/ /\ <<stage, s>> \in Writers
       /\ env' = [env EXCEPT ![sc] = s] /\ path' = [path EXCEPT ![sc] = @ \cup {s}]
       /\ globalRef' = [globalRef EXCEPT ![sc] = m] /\ globalEnv' = [globalEnv EXCEPT ![m] = s]
       /\ wrote' = IF stage = "main" THEN Append(wrote, s) ELSE wrote
    \/ UNCHANGED <<env, path, globalRef, globalEnv, wrote>>

\* Mutant: the state of a step is kept by its ID alone.
StateKeyedByID(stage, s) ==
    /\ saved' = IF Kind[s] # "action" \/ stage = "post" THEN saved
                ELSE [sc \in Scope |-> [i \in DOMAIN saved[sc] |-> IF i = ID(s) THEN saved[sc][i] \cup {stage} ELSE saved[sc][i]]]
    /\ kept' = IF Kind[s] # "action" \/ stage = "post" THEN kept ELSE [kept EXCEPT ![s] = @ \cup {stage}]

\* saveState: by the step's ID in its run context.
SaveState(stage, s) ==
    IF Kind[s] # "action" \/ stage = "post" THEN UNCHANGED <<saved, kept>>
    ELSE /\ saved' = [saved EXCEPT ![Parent(s)][ID(s)] = @ \cup {stage}]
         /\ kept' = [kept EXCEPT ![s] = @ \cup {stage}]

\* A composite action starts from what the step that uses it sees.
evaluateCompositeInputAndEnv(c) == env["job"]

\* The environment of a composite action is made again for each of its
\* stages that runs through getCompositeRunContext: its first and main.
getCompositeRunContext(c) ==
    /\ opened' = opened \cup {c}
    /\ env' = [env EXCEPT ![c] = evaluateCompositeInputAndEnv(c)] /\ path' = [path EXCEPT ![c] = path["job"]]
    /\ globalRef' = IF c \in opened THEN globalRef ELSE [globalRef EXCEPT ![c] = globalRef["job"]]
    /\ UNCHANGED <<globalEnv, saved, wrote, kept>>

\* Mutant: what a composite action exported stays inside it.
KeepsEnvInside(c) == UNCHANGED <<env, path, globalRef, globalEnv>>

\* The end of execAsComposite, also after an error.
MergeComposite(c) ==
    LET m == globalRef[c]
        v == IF m = "nil" THEN "unset" ELSE globalEnv[m] IN
    /\ path' = [path EXCEPT !["job"] = path[c]]
    /\ globalRef' = [globalRef EXCEPT !["job"] = IF @ = "nil" THEN "job" ELSE @]
    /\ globalEnv' = IF v = "unset" THEN globalEnv ELSE [globalEnv EXCEPT !["job"] = v]
    /\ env' = IF v = "unset" THEN env ELSE [env EXCEPT !["job"] = v]

-----------------------------------------------------------------------------
(* Bodies.                                                                 *)

\* A body fails by itself or because its context has ended.
MayErr == Cardinality(erred) < MaxErrors
BodyErrs == {"none"} \cup IF CtxErr # "none" THEN {CtxErr} ELSE IF MayErr THEN {"error"} ELSE {}

Untolerated(s, e) == IF s \in Tolerant THEN "none" ELSE e

\* runStepExecutor in the main stage.
Conclusion(s, e) == IF Untolerated(s, e) = "none" THEN "success" ELSE "failure"

\* A nested action that cannot be downloaded fails before runStepExecutor.
prepareAction(s) == s \in NotPrepared => download[s] = "ok"

\* Mutant: only a successful main stage has a post stage.
PostNeedsSuccess(s) == result[s] = "success"

\* The conditions of a post stage: the action is known and its pre or its main
\* stage has run; that of a composite action follows its main stage only.
shouldRunPostStep(s) ==
    \/ s \in preStarted /\ Kind[s] = "action"
    \/ result[s] \in {"success", "failure"} /\ prepareAction(s)

hasStage(stage, s) ==
    CASE stage = "pre" -> Kind[s] # "run" /\ s \notin Local
      [] stage = "main" -> TRUE
      [] OTHER -> Kind[s] # "run" /\ shouldRunPostStep(s)

Goto(i, j) == pc' = [pc EXCEPT !.i = i, !.j = j]

\* After a step of the job: the pre stage ends at the first error.
Proceed(e) ==
    Goto(IF pc.stage = "pre" /\ (e # "none" \/ CtxErr # "none") THEN Len(Top) + 1 ELSE pc.i + 1, 0)

\* After a child: newCompositeStepLogExecutor keeps its error, or that of the
\* context, and the pipeline ends with the context; the post chain goes on.
\* Without a container of its own, the post chain sets the job's error.
AfterChild(s, e) ==
    LET c == Parent(s)
        err == IF e = "none" THEN CtxErr ELSE e IN
    /\ childErr' = [childErr EXCEPT ![c] = IF err = "none" \/ pc.stage = "post" THEN @ ELSE err]
    /\ job' = IF pc.stage = "post" /\ err # "none" THEN [job EXCEPT !.err = TRUE] ELSE job
    /\ Goto(pc.i, IF CtxErr # "none" /\ pc.stage # "post" THEN Len(Children[c]) + 1 ELSE pc.j + 1)

After(s, e) ==
    /\ erred' = IF e = "none" THEN erred ELSE erred \cup {<<pc.stage, s>>}
    /\ IF Parent(s) = "job"
       THEN job' = Reported(e) /\ Proceed(e) /\ UNCHANGED childErr
       ELSE AfterChild(s, e)

Recorded(s, conclusion) ==
    result' = IF pc.stage = "main" THEN [result EXCEPT ![s] = conclusion] ELSE result

-----------------------------------------------------------------------------
(* Steps.                                                                  *)

Here(s) == At(pc.stage, "step", s) \/ At(pc.stage, "open", s)

\* The main steps go on under a fresh context once the job's has ended.
MainInterrupted == pc.stage = "main" /\ ctx.used = "job" /\ ctx.job # "live"
AtBoundary == pc.i <= Len(Top) /\ pc.j = 0
Ready == ~(MainInterrupted /\ AtBoundary)

runMainStepsAfterInterrupt ==
    /\ MainInterrupted /\ AtBoundary
    /\ ctx' = [ctx EXCEPT !.used = "fresh", !.fresh = "live"]
    /\ job' = markInterrupted(job, ctx.job)
    /\ UNCHANGED <<pc, cond, result, opened, preStarted, childErr, download, ran, erred, barred, handVars>>

NoStage(s) ==
    /\ Here(s) /\ Ready /\ ~hasStage(pc.stage, s)
    /\ After(s, "none")
    /\ UNCHANGED <<ctx, cond, result, opened, preStarted, download, ran, barred, handVars>>

\* prepareActionExecutor of a nested action: no result is recorded.
Unprepared(s) ==
    /\ Here(s) /\ Ready /\ hasStage(pc.stage, s) /\ pc.stage # "post" /\ ~prepareAction(s)
    /\ After(s, "error")
    /\ UNCHANGED <<ctx, cond, result, opened, preStarted, download, ran, barred, handVars>>

\* setupEnv, the condition or setupInputs cannot be evaluated.
Unevaluated(s) ==
    /\ Here(s) /\ Ready /\ MayErr /\ hasStage(pc.stage, s) /\ prepareAction(s)
    /\ Recorded(s, "failure") /\ After(s, "error")
    /\ UNCHANGED <<ctx, cond, opened, preStarted, download, ran, barred, handVars>>

Skipped(s) ==
    /\ Here(s) /\ Ready /\ hasStage(pc.stage, s) /\ prepareAction(s) /\ ~isStepEnabled(pc.stage, s)
    /\ Recorded(s, "skipped") /\ After(s, "none")
    /\ UNCHANGED <<ctx, cond, opened, preStarted, download, ran, barred, handVars>>

\* A composite action that was never entered has no post steps, an error.
runPostStep(s) ==
    IF s \in Composites \ opened THEN (BodyErrs \ {"none"}) \cup {"error"} ELSE BodyErrs

Outcomes(s) == IF pc.stage = "post" THEN runPostStep(s) ELSE BodyErrs

\* What a step wrote to its command files is read also when it has failed.
RunStep(s) ==
    /\ At(pc.stage, "step", s) /\ Ready /\ hasStage(pc.stage, s) /\ prepareAction(s) /\ isStepEnabled(pc.stage, s)
    /\ ran' = Append(ran, <<pc.stage, s>>)
    /\ preStarted' = IF pc.stage = "pre" THEN preStarted \cup {s} ELSE preStarted
    /\ \E e \in Outcomes(s) : Recorded(s, Conclusion(s, e)) /\ After(s, Untolerated(s, e))
    /\ Hand(pc.stage, s) /\ SaveState(pc.stage, s)
    /\ UNCHANGED <<ctx, cond, opened, download, barred>>

\* A composite action enters its children, after its files were copied (main
\* and post) and its inputs evaluated (pre, when first made, and main).
OpenComposite(c) ==
    /\ At(pc.stage, "open", c) /\ Ready /\ hasStage(pc.stage, c) /\ isStepEnabled(pc.stage, c)
    /\ preStarted' = IF pc.stage = "pre" THEN preStarted \cup {c} ELSE preStarted
    /\ \/ /\ "none" \in Outcomes(c)
          /\ childErr' = [childErr EXCEPT ![c] = "none"] /\ Goto(pc.i, 1)
          /\ IF pc.stage = "post" THEN UNCHANGED <<opened, handVars>> ELSE getCompositeRunContext(c)
          /\ UNCHANGED <<job, result, erred, barred>>
       \/ /\ barred' = IF pc.stage = "post" THEN barred \cup {c} ELSE barred
          /\ \E e \in Outcomes(c) \ {"none"} : Recorded(c, Conclusion(c, e)) /\ After(c, Untolerated(c, e))
          /\ UNCHANGED <<opened, handVars>>
    /\ UNCHANGED <<ctx, cond, download, ran>>

\* Mutant: a composite action ends without its children's error.
ForgetsChildren(c) == "none"

CompositeErr(c) == IF pc.stage = "post" THEN "none" ELSE childErr[c]

CloseComposite(c) ==
    /\ At(pc.stage, "close", c)
    /\ LET e == Untolerated(c, CompositeErr(c)) IN
        /\ Recorded(c, Conclusion(c, CompositeErr(c)))
        /\ erred' = IF e = "none" THEN erred ELSE erred \cup {<<pc.stage, c>>}
        /\ job' = Reported(e) /\ Proceed(e)
    /\ IF pc.stage = "main" THEN MergeComposite(c) ELSE UNCHANGED <<env, path, globalRef, globalEnv>>
    /\ UNCHANGED <<ctx, cond, opened, preStarted, childErr, saved, download, ran, wrote, kept, barred>>

-----------------------------------------------------------------------------
(* Stages.                                                                 *)

\* printPrepareActions downloads the actions of the job's own steps; no step
\* runs after a setup error.
PrepareActions ==
    /\ pc.stage = "setup"
    /\ \/ pc' = [pc EXCEPT !.stage = "pre"] /\ UNCHANGED job
       \/ pc' = [stage |-> "main", i |-> Len(Top) + 1, j |-> 0] /\ job' = reportStepError(job, "error")
    /\ UNCHANGED <<ctx, cond, result, opened, preStarted, childErr, download, ran, erred, barred, handVars>>

Over(stage) == pc.stage = stage /\ pc.i > Len(Top)

\* The main stage runs whatever the pre stage did.
MainStage ==
    /\ Over("pre")
    /\ pc' = [stage |-> "main", i |-> 1, j |-> 0]
    /\ UNCHANGED <<ctx, job, cond, result, opened, preStarted, childErr, download, ran, erred, barred, handVars>>

\* The interruption is recorded once more, and the post steps get a context
\* that has not ended, after a cancellation with an error container of its own.
postStepsContext ==
    /\ Over("main")
    /\ pc' = [stage |-> "post", i |-> 1, j |-> 0]
    /\ ctx' = [ctx EXCEPT !.used = IF ctx.job = "live" THEN "job" ELSE "fresh", !.fresh = "live"]
    /\ job' = [markInterrupted(job, IF ctx.job = "live" THEN "none" ELSE ctx.job)
                 EXCEPT !.err = @ /\ ctx.job # "cancel"]
    /\ UNCHANGED <<cond, result, opened, preStarted, childErr, download, ran, erred, barred, handVars>>

JobEnds ==
    /\ Over("post")
    /\ pc' = [pc EXCEPT !.stage = "end"]
    /\ UNCHANGED <<ctx, job, cond, result, opened, preStarted, childErr, download, ran, erred, barred, handVars>>

Ended == pc.stage = "end" /\ UNCHANGED vars

Next ==
    \/ PrepareActions \/ MainStage \/ postStepsContext \/ JobEnds \/ Ended
    \/ CtxEnds \/ FreshExpires \/ runMainStepsAfterInterrupt
    \/ \E s \in Step : NoStage(s) \/ Unprepared(s) \/ Unevaluated(s) \/ Skipped(s) \/ RunStep(s)
    \/ \E c \in Composites : OpenComposite(c) \/ CloseComposite(c)

Spec == Init /\ [][Next]_vars

-----------------------------------------------------------------------------
(* Properties.                                                             *)

Ran(stage, s) == <<stage, s>> \in ToSet(ran)
Verdict == IF job.cancelled THEN "cancelled" ELSE IF job.err \/ job.failed THEN "failure" ELSE "success"

\* The post stages that a failed copy of a composite action's files, an
\* evaluation that failed or a composite action whose main was skipped take
\* with them.
PostLost(s) ==
    \/ <<"post", s>> \in erred
    \/ Parent(s) # "job" /\ (Parent(s) \in barred \/ <<"post", Parent(s)>> \in erred \/ result[Parent(s)] = "skipped")

\* An action whose pre or main stage ran gets its post stage, once and in the
\* reverse order of the main stages, whatever failed or ended in between; no
\* other action gets one.
PostsPaired ==
    pc.stage = "end" =>
        /\ \A s \in Step : Kind[s] = "action" =>
            LET posts == {n \in DOMAIN ran : ran[n] = <<"post", s>>} IN
            /\ (Ran("pre", s) \/ Ran("main", s)) /\ ~PostLost(s) => \E n \in posts : posts = {n}
            /\ posts # {} => Ran("pre", s) \/ result[s] \in {"success", "failure"}
        /\ \A m, n \in DOMAIN ran : \A s, t \in Step :
            ran[m] = <<"post", s>> /\ ran[n] = <<"post", t>> /\ Before(s, t) => n < m

\* A main step finds the variable as the last main step before it left it, and
\* every path that main steps added, across the borders of composite actions.
EnvReachesLaterSteps ==
    \A s \in Step : (At("main", "step", s) /\ wrote # << >>) =>
        /\ env[Parent(s)] = Last(wrote)
        /\ ToSet(wrote) \subseteq path[Parent(s)]

\* The post stage of an action finds what its own pre and main stages saved,
\* and nothing another step saved, also of a step with the same ID elsewhere.
StateReachesOwnPost ==
    \A s \in Step : At("post", "step", s) => saved[Parent(s)][ID(s)] = kept[s]

\* A composite action succeeds only when all its steps were reached and none
\* failed, and a job only when no step's error was left untolerated, a nested
\* post step's included.
SuccessIsEarned ==
    /\ \A c \in Composites \ Tolerant : (result[c] = "success" /\ pc.stage # "main") =>
        \A s \in ToSet(Children[c]) : result[s] # "none" /\ <<"main", s>> \notin erred
    /\ (pc.stage = "end" /\ Verdict = "success") =>
        \A x \in erred : x[1] # "post" /\ Parent(x[2]) \in Tolerant

\* success() and failure() of a step in a composite action are about the steps
\* before it in the same action, whatever became of the job.
JudgedByOwnScope ==
    \A s \in Step : Ran("main", s) =>
        /\ cond[s] = "success" => \A t \in Step : Before(t, s) => result[t] # "failure"
        /\ (cond[s] = "failure" /\ Parent(s) # "job") => \E t \in Step : Before(t, s) /\ result[t] = "failure"

=============================================================================
