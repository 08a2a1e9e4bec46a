----------------------------- MODULE Jobs_proofs -----------------------------
(* Proofs of the safety properties of PlanExecutor, for every plan: any    *)
(* jobs, stages and needs, any matrix and any number of workers; and of    *)
(* JobExecutor, for every number of steps and every choice of their        *)
(* conditions.                                                             *)
EXTENDS PlanExecutor, JobExecutor, TLAPS

-----------------------------------------------------------------------------
(* Plans: the inductive invariant.                                         *)

PlanAt  == {"enter", "stage", "verdict", "caller", "end"}
ComboAt == {"wait", "done"} \cup Busy
Outs    == {"none", "skipped", "invalid", "broken"} \cup HasResult

JobRecord ==
    [at : {"wait", "running", "done"}, result : HasResult \cup {""},
     tolerated : {"unset", "yes", "no"}, cond : {"success", "always"}]
ComboRecord ==
    [at : ComboAt, out : Outs, err : BOOLEAN, read : HasResult \cup {""}, tol : {"yes", "no"}]

TypeOK ==
    /\ plan \in [stage : Nat, at : PlanAt, err : BOOLEAN]
    /\ job \in [Job -> JobRecord]
    /\ combo \in [Combo -> ComboRecord]
    /\ mutex \in [Job -> Combo \cup {NoCombo}]
    /\ ctx \in {"live", "cancelled"}

\* Jobs of earlier stages are over, jobs of later ones have not begun, and a
\* job runs only while its stage does.
StageOrder ==
    \A j \in Job :
        /\ StageOf[j] < plan.stage => job[j].at = "done"
        /\ StageOf[j] > plan.stage => job[j].at = "wait"
        /\ StageOf[j] = plan.stage /\ plan.at = "enter" => job[j].at = "wait"
        /\ plan.at # "stage" => job[j].at # "running"

\* Combinations run only within their job, and an error always has its outcome.
ComboPhases ==
    \A c \in Combo :
        /\ job[c[1]].at = "wait" => combo[c].at = "wait"
        /\ job[c[1]].at = "done" => combo[c].at = "done"
        /\ combo[c].at \in {"wait", "eval", "run"} => combo[c].out = "none" /\ combo[c].err = FALSE
        /\ combo[c].at \in {"lock", "write", "tell"} => combo[c].out \in HasResult
        /\ combo[c].out \in {"invalid", "broken", "cancelled"} => combo[c].err = TRUE
        /\ combo[c].err = TRUE => combo[c].out \in {"failure", "cancelled", "invalid", "broken"}

\* Only the holder of the job's mutex is between its read and its write.
Locking == \A c \in Combo : combo[c].at = "write" => mutex[c[1]] = c

HasWritten(c) == combo[c].at \in {"tell", "done"}
Written(j) == {combo[c].out : c \in {d \in CombosOf(j) : HasWritten(d)}}
Invalidated(j) == \E c \in CombosOf(j) : combo[c].out = "invalid"

Worst(outs) ==
    IF "cancelled" \in outs THEN "cancelled"
    ELSE IF "failure" \in outs THEN "failure"
    ELSE IF "success" \in outs THEN "success" ELSE ""

\* The job's result is the worst of what was written so far, and the holder of
\* the mutex has read that very result.
ResultSoFar ==
    \A j \in Job : ~Invalidated(j) =>
        /\ job[j].result = Worst(Written(j))
        /\ \A c \in CombosOf(j) : combo[c].at = "write" => combo[c].read = job[j].result

\* A job whose failures may still be tolerated has had no other failures.
ToleratedSoFar ==
    \A j \in Job : ~Invalidated(j) /\ "cancelled" \notin Written(j) /\ job[j].tolerated # "no" =>
        \A c \in CombosOf(j) : HasWritten(c) /\ combo[c].out = "failure" => combo[c].tol = "yes"

\* A stage with an error is the last one.
ErrSoFar ==
    plan.err = FALSE =>
        \A c \in Combo :
            StageOf[c[1]] < plan.stage \/ plan.at \notin {"enter", "stage"} => combo[c].err = FALSE

\* What let a combination begin still holds: the jobs it needs are over.
NeedsMet ==
    \A c \in Combo : combo[c].at \in Busy \ {"eval"} /\ job[c[1]].cond = "success" =>
        \A k \in Needs[c[1]] : job[k].result = "success"

\* handleFailure has found every failure tolerated.
CallerInv ==
    plan.at \in {"caller", "end"} /\ plan.err = FALSE =>
        \A c \in Combo : combo[c].out = "failure" => combo[c].tol = "yes"

\* An error of the plan has a reason.
ErrorInv ==
    plan.err = TRUE =>
        /\ plan.at = "end"
        /\ \/ \E c \in Combo : combo[c].out \in {"failure", "cancelled", "invalid", "broken"}
           \/ ctx # "live"
           \/ \E j \in JobsOf(plan.stage) : job[j].at = "wait"

IInv ==
    /\ TypeOK /\ StageOrder /\ ComboPhases /\ Locking /\ ResultSoFar /\ ToleratedSoFar
    /\ ErrSoFar /\ NeedsMet /\ CallerInv /\ ErrorInv

-----------------------------------------------------------------------------
(* Facts about the plan.                                                   *)

\* A combination is one of its job's, and no combination is the free mutex.
LEMMA ComboFacts ==
    ASSUME NEW c \in Combo
    PROVE  /\ c[1] \in Job /\ c \in CombosOf(c[1]) /\ c # NoCombo
           /\ StageOf[c[1]] \in Nat
<1>1. PICK j \in Job : c \in {<<j, i>> : i \in 1 .. Combos[j]}
  BY DEF Combo
<1>2. PICK i \in 1 .. Combos[j] : c = <<j, i>>
  BY <1>1
<1>3. StageOf[j] \in Nat
  BY PlanAssumption
<1>4. i >= 1
  BY <1>2, PlanAssumption
<1>5. QED
  BY <1>1, <1>2, <1>3, <1>4 DEF CombosOf, NoCombo

\* Without a matrix a job has a single combination.
LEMMA OnlyCombo ==
    ASSUME NEW c \in Combo, ~(Combos[c[1]] > 1), NEW d \in CombosOf(c[1])
    PROVE  d = c
<1>1. PICK j \in Job : \E i \in 1 .. Combos[j] : c = <<j, i>>
  BY DEF Combo
<1>2. PICK k \in Job : \E i \in 1 .. Combos[k] : d = <<k, i>>
  BY DEF Combo, CombosOf
<1>3. k = j
  BY <1>1, <1>2 DEF CombosOf
<1>4. Combos[j] \in Nat /\ ~(Combos[j] > 1)
  BY <1>1, PlanAssumption
<1>5. \A i \in 1 .. Combos[j] : i = 1
  BY <1>4
<1>6. QED
  BY <1>1, <1>2, <1>3, <1>5

\* Needs are jobs of earlier stages.
LEMMA NeedsFacts ==
    ASSUME NEW j \in Job, NEW k \in Needs[j]
    PROVE  k \in Job /\ StageOf[k] < StageOf[j] /\ StageOf[k] \in Nat /\ StageOf[j] \in Nat
BY PlanAssumption

\* A combination that has begun and not returned belongs to a running job of
\* the stage the plan is in.
LEMMA BusyNow ==
    ASSUME IInv, NEW c \in Combo, combo[c].at \in Busy \/ job[c[1]].at = "running"
    PROVE  plan.at = "stage" /\ job[c[1]].at = "running" /\ StageOf[c[1]] = plan.stage
<1>1. c[1] \in Job /\ StageOf[c[1]] \in Nat
  BY ComboFacts
<1>2. job[c[1]].at = "running"
  BY <1>1 DEF IInv, ComboPhases, Busy, TypeOK, JobRecord
<1>3. plan.stage \in Nat
  BY DEF IInv, TypeOK
<1>4. QED
  BY <1>1, <1>2, <1>3 DEF IInv, StageOrder

-----------------------------------------------------------------------------
(* Steps of one combination.                                               *)

\* What every step of combination c leaves alone.
OnlyComboChanges(c) ==
    /\ TypeOK' /\ plan' = plan /\ ctx' = ctx
    /\ \A d \in Combo \ {c} : combo'[d] = combo[d]
    /\ \A j \in Job \ {c[1]} : job'[j] = job[j]
    /\ job'[c[1]].at = job[c[1]].at /\ job'[c[1]].cond = job[c[1]].cond

\* Such a step keeps what is said of the plan and of the stages, provided the
\* combination itself stays well-formed.
LEMMA ComboFrame ==
    ASSUME IInv, NEW c \in Combo, OnlyComboChanges(c),
           plan.at = "stage", job[c[1]].at = "running", StageOf[c[1]] = plan.stage,
           combo'[c].at \in {"eval", "run"} => combo'[c].out = "none" /\ combo'[c].err = FALSE,
           combo'[c].at # "wait",
           combo'[c].at \in {"lock", "write", "tell"} => combo'[c].out \in HasResult,
           combo'[c].out \in {"invalid", "broken", "cancelled"} => combo'[c].err = TRUE,
           combo'[c].err = TRUE => combo'[c].out \in {"failure", "cancelled", "invalid", "broken"}
    PROVE  StageOrder' /\ ComboPhases' /\ ErrSoFar' /\ CallerInv' /\ ErrorInv'
<1>1. c[1] \in Job
  BY ComboFacts
<1>2. StageOrder'
  BY <1>1 DEF IInv, StageOrder, OnlyComboChanges
<1>3. ComboPhases'
  <2> SUFFICES ASSUME NEW d \in Combo
               PROVE  /\ job'[d[1]].at = "wait" => combo'[d].at = "wait"
                      /\ job'[d[1]].at = "done" => combo'[d].at = "done"
                      /\ combo'[d].at \in {"wait", "eval", "run"} =>
                            combo'[d].out = "none" /\ combo'[d].err = FALSE
                      /\ combo'[d].at \in {"lock", "write", "tell"} => combo'[d].out \in HasResult
                      /\ combo'[d].out \in {"invalid", "broken", "cancelled"} => combo'[d].err = TRUE
                      /\ combo'[d].err = TRUE =>
                            combo'[d].out \in {"failure", "cancelled", "invalid", "broken"}
    BY DEF ComboPhases
  <2>1. d[1] \in Job
    BY ComboFacts
  <2>2. CASE d = c
    BY <2>2 DEF OnlyComboChanges
  <2>3. CASE d # c
    <3>1. combo'[d] = combo[d] /\ job'[d[1]].at = job[d[1]].at
      BY <2>1, <2>3, <1>1 DEF OnlyComboChanges
    <3>2. QED
      BY <3>1 DEF IInv, ComboPhases
  <2>4. QED
    BY <2>2, <2>3
<1>4. ErrSoFar'
  <2> SUFFICES ASSUME plan'.err = FALSE, NEW d \in Combo,
                      StageOf[d[1]] < plan'.stage \/ plan'.at \notin {"enter", "stage"}
               PROVE  combo'[d].err = FALSE
    BY DEF ErrSoFar
  <2>1. plan' = plan /\ plan.stage \in Nat
    BY DEF OnlyComboChanges, IInv, TypeOK
  <2>2. StageOf[d[1]] < plan.stage
    BY <2>1
  <2>3. d # c
    BY <2>1, <2>2
  <2>4. combo'[d] = combo[d]
    BY <2>3 DEF OnlyComboChanges
  <2>5. QED
    BY <2>1, <2>2, <2>4 DEF IInv, ErrSoFar
<1>5. CallerInv'
  BY DEF CallerInv, OnlyComboChanges
<1>6. ErrorInv'
  BY DEF IInv, ErrorInv, OnlyComboChanges
<1>7. QED
  BY <1>2, <1>3, <1>4, <1>5, <1>6

\* What a running combination relies on is not changed by another one's step.
LEMMA NeedsStay ==
    ASSUME IInv, NEW c \in Combo, OnlyComboChanges(c),
           plan.at = "stage", job[c[1]].at = "running", StageOf[c[1]] = plan.stage,
           \/ combo'[c].at \notin Busy \ {"eval"}
           \/ combo[c].at \in Busy \ {"eval"}
           \/ Enabled(c[1])
    PROVE  NeedsMet'
<1> SUFFICES ASSUME NEW d \in Combo, combo'[d].at \in Busy \ {"eval"}, job'[d[1]].cond = "success",
                    NEW k \in Needs[d[1]]
             PROVE  job'[k].result = "success"
  BY DEF NeedsMet
<1>1. c[1] \in Job /\ d[1] \in Job
  BY ComboFacts
<1>2. StageOf[d[1]] = plan.stage /\ job[d[1]].cond = "success"
  <2>1. CASE d = c
    BY <2>1 DEF OnlyComboChanges
  <2>2. CASE d # c
    <3>1. combo'[d] = combo[d]
      BY <2>2 DEF OnlyComboChanges
    <3>2. StageOf[d[1]] = plan.stage
      BY <3>1, BusyNow
    <3>3. job'[d[1]].cond = job[d[1]].cond
      BY <1>1 DEF OnlyComboChanges
    <3>4. QED
      BY <3>2, <3>3
  <2>3. QED
    BY <2>1, <2>2
<1>3. k \in Job /\ StageOf[k] < plan.stage /\ StageOf[k] \in Nat
  BY <1>1, <1>2, NeedsFacts
<1>4. k # c[1] /\ plan.stage \in Nat
  BY <1>3 DEF IInv, TypeOK
<1>5. job'[k] = job[k]
  BY <1>3, <1>4 DEF OnlyComboChanges
<1>6. job[k].result = "success"
  <2>1. CASE d # c \/ combo[d].at \in Busy \ {"eval"}
    <3>1. combo[d].at \in Busy \ {"eval"}
      BY <2>1 DEF OnlyComboChanges
    <3>2. QED
      BY <1>2, <3>1 DEF IInv, NeedsMet
  <2>2. CASE d = c /\ Enabled(c[1])
    BY <1>2, <2>2 DEF Enabled
  <2>3. QED
    BY <2>1, <2>2
<1>7. QED
  BY <1>5, <1>6

\* A step that writes no result, of a combination that did not hold the mutex
\* and does not end with a result.
LEMMA ResultStays ==
    ASSUME IInv, NEW c \in Combo, OnlyComboChanges(c), job' = job,
           ~HasWritten(c) \/ (combo'[c].out = combo[c].out /\ combo'[c].tol = combo[c].tol),
           HasWritten(c)' => HasWritten(c) \/ combo'[c].out \notin HasResult \cup {"invalid"},
           HasWritten(c) => HasWritten(c)',
           combo'[c].at = "write" => combo'[c].read = job[c[1]].result,
           combo[c].out # "invalid"
    PROVE  ResultSoFar' /\ ToleratedSoFar'
<1>1. ASSUME NEW j \in Job, ~Invalidated(j)'
      PROVE  /\ ~Invalidated(j)
             /\ \A r \in HasResult : r \in Written(j)' <=> r \in Written(j)
  <2>1. \A d \in Combo \ {c} : combo'[d] = combo[d]
    BY DEF OnlyComboChanges
  <2>2. ~Invalidated(j)
    BY <1>1, <2>1 DEF Invalidated, CombosOf
  <2>3. ASSUME NEW r \in HasResult, r \in Written(j)' PROVE r \in Written(j)
    <3>1. PICK d \in CombosOf(j) : combo'[d].at \in {"tell", "done"} /\ combo'[d].out = r
      BY <2>3 DEF Written, HasWritten
    <3>2. combo[d].at \in {"tell", "done"} /\ combo[d].out = r
      BY <2>1, <2>3, <3>1 DEF HasWritten, CombosOf, HasResult
    <3>3. QED
      BY <3>1, <3>2 DEF Written, HasWritten
  <2>4. ASSUME NEW r \in HasResult, r \in Written(j) PROVE r \in Written(j)'
    <3>1. PICK d \in CombosOf(j) : combo[d].at \in {"tell", "done"} /\ combo[d].out = r
      BY <2>4 DEF Written, HasWritten
    <3>2. combo'[d].at \in {"tell", "done"} /\ combo'[d].out = r
      BY <2>1, <2>4, <3>1 DEF HasWritten, CombosOf, HasResult
    <3>3. QED
      BY <3>1, <3>2 DEF Written, HasWritten
  <2>5. QED
    BY <2>2, <2>3, <2>4
<1>2. ResultSoFar'
  <2> SUFFICES ASSUME NEW j \in Job, ~Invalidated(j)'
               PROVE  /\ job'[j].result = Worst(Written(j)')
                      /\ \A d \in CombosOf(j) : combo'[d].at = "write" => combo'[d].read = job'[j].result
    BY DEF ResultSoFar
  <2>1. job[j].result = Worst(Written(j)) /\ ~Invalidated(j)
    BY <1>1 DEF IInv, ResultSoFar
  <2>2. Worst(Written(j)') = Worst(Written(j))
    BY <1>1 DEF Worst, HasResult
  <2>3. ASSUME NEW d \in CombosOf(j), combo'[d].at = "write" PROVE combo'[d].read = job[j].result
    BY <2>1, <2>3 DEF OnlyComboChanges, IInv, ResultSoFar, CombosOf
  <2>4. QED
    BY <2>1, <2>2, <2>3
<1>3. ToleratedSoFar'
  <2> SUFFICES ASSUME NEW j \in Job, ~Invalidated(j)', "cancelled" \notin Written(j)',
                      job'[j].tolerated # "no",
                      NEW d \in CombosOf(j), HasWritten(d)', combo'[d].out = "failure"
               PROVE  combo'[d].tol = "yes"
    BY DEF ToleratedSoFar
  <2>1. ~Invalidated(j) /\ "cancelled" \notin Written(j) /\ job[j].tolerated # "no"
    BY <1>1 DEF HasResult
  <2>2. HasWritten(d) /\ combo[d].out = "failure" /\ combo'[d].tol = combo[d].tol
    BY DEF OnlyComboChanges, CombosOf, HasWritten, HasResult
  <2>3. QED
    BY <2>1, <2>2 DEF IInv, ToleratedSoFar
<1>4. QED
  BY <1>2, <1>3

\* The mutex is taken and given back only by its holder.
LEMMA LockingStays ==
    ASSUME IInv, NEW c \in Combo, OnlyComboChanges(c), combo'[c].at # "write", mutex' = mutex
    PROVE  Locking'
BY DEF IInv, Locking, OnlyComboChanges

\* Steps that leave jobs and mutexes alone.
PlainComboStep(c) ==
    \/ StartCombo(c) \/ Disabled(c) \/ Unsupported(c) \/ Begin(c) \/ Breaks(c) \/ RunsSteps(c)
    \/ TellCaller(c)

\* An executor that returns changes its combination, and it only.
LEMMA ReturnedEffect ==
    ASSUME combo \in [Combo -> ComboRecord], NEW c \in Combo, NEW out \in Outs, NEW err \in BOOLEAN,
           Returned(c, out, err)
    PROVE  /\ combo' \in [Combo -> ComboRecord]
           /\ \A d \in Combo \ {c} : combo'[d] = combo[d]
           /\ combo'[c].at = "done" /\ combo'[c].out = out /\ combo'[c].err = err
           /\ combo'[c].tol = combo[c].tol
<1> DEFINE r == [combo[c] EXCEPT !.at = "done", !.out = out, !.err = err]
<1>1. combo' \in [Combo -> ComboRecord]
  <2>1. combo[c] \in ComboRecord
    OBVIOUS
  <2>2. r \in ComboRecord
    BY <2>1 DEF ComboRecord, ComboAt
  <2>3. combo' = [combo EXCEPT ![c] = r]
    BY DEF Returned
  <2>4. QED
    BY <2>2, <2>3
<1>2. \A d \in Combo \ {c} : combo'[d] = combo[d]
  BY DEF Returned
<1>3. combo'[c].at = "done" /\ combo'[c].out = out /\ combo'[c].err = err /\ combo'[c].tol = combo[c].tol
  BY DEF Returned, ComboRecord
<1>4. QED
  BY <1>1, <1>2, <1>3

\* So does one whose steps are over.
LEMMA StepsOverEffect ==
    ASSUME combo \in [Combo -> ComboRecord], NEW c \in Combo, NEW out \in Outs, NEW err \in BOOLEAN,
           combo' = [combo EXCEPT ![c].at = "lock", ![c].out = out, ![c].err = err]
    PROVE  /\ combo' \in [Combo -> ComboRecord]
           /\ \A d \in Combo \ {c} : combo'[d] = combo[d]
           /\ combo'[c].at = "lock" /\ combo'[c].out = out /\ combo'[c].err = err
<1>1. combo' \in [Combo -> ComboRecord]
  <2>1. "lock" \in ComboAt
    BY DEF ComboAt, Busy
  <2>2. QED
    BY <2>1, ZenonT(40) DEF ComboRecord
<1>2. \A d \in Combo \ {c} : combo'[d] = combo[d]
  OBVIOUS
<1>3. combo'[c].at = "lock" /\ combo'[c].out = out /\ combo'[c].err = err
  BY DEF ComboRecord
<1>4. QED
  BY <1>1, <1>2, <1>3

\* And one that takes the mutex.
LEMMA lockJobEffect ==
    ASSUME combo \in [Combo -> ComboRecord], NEW c \in Combo, NEW read \in HasResult \cup {""},
           combo' = [combo EXCEPT ![c].at = "write", ![c].read = read]
    PROVE  /\ combo' \in [Combo -> ComboRecord]
           /\ \A d \in Combo \ {c} : combo'[d] = combo[d]
           /\ combo'[c].at = "write" /\ combo'[c].read = read
           /\ combo'[c].out = combo[c].out /\ combo'[c].err = combo[c].err
<1>1. combo' \in [Combo -> ComboRecord]
  <2>1. "write" \in ComboAt
    BY DEF ComboAt, Busy
  <2>2. QED
    BY <2>1, ZenonT(40) DEF ComboRecord
<1>2. \A d \in Combo \ {c} : combo'[d] = combo[d]
  OBVIOUS
<1>3. /\ combo'[c].at = "write" /\ combo'[c].read = read
      /\ combo'[c].out = combo[c].out /\ combo'[c].err = combo[c].err
  BY DEF ComboRecord
<1>4. QED
  BY <1>1, <1>2, <1>3

\* And one that writes its result.
LEMMA WriteEffect ==
    ASSUME combo \in [Combo -> ComboRecord], NEW c \in Combo, NEW read \in HasResult \cup {""},
           NEW t \in {"yes", "no"},
           combo' = [combo EXCEPT ![c].at = "tell", ![c].read = read, ![c].tol = t]
    PROVE  /\ combo' \in [Combo -> ComboRecord]
           /\ \A d \in Combo \ {c} : combo'[d] = combo[d]
           /\ combo'[c].at = "tell" /\ combo'[c].tol = t
           /\ combo'[c].out = combo[c].out /\ combo'[c].err = combo[c].err
<1>1. combo' \in [Combo -> ComboRecord]
  <2>1. "tell" \in ComboAt
    BY DEF ComboAt, Busy
  <2>2. combo[c] \in ComboRecord
    OBVIOUS
  <2>3. [combo[c] EXCEPT !.at = "tell", !.read = read, !.tol = t] \in ComboRecord
    BY <2>1, <2>2 DEF ComboRecord
  <2>4. combo' = [combo EXCEPT ![c] = [combo[c] EXCEPT !.at = "tell", !.read = read, !.tol = t]]
    OBVIOUS
  <2>5. QED
    BY <2>3, <2>4
<1>2. \A d \in Combo \ {c} : combo'[d] = combo[d]
  OBVIOUS
<1>3. /\ combo'[c].at = "tell" /\ combo'[c].tol = t
      /\ combo'[c].out = combo[c].out /\ combo'[c].err = combo[c].err
  BY DEF ComboRecord
<1>4. QED
  BY <1>1, <1>2, <1>3

\* What such a step does to its combination.
Moves(c, from, to) == combo[c].at = from /\ combo'[c].at = to
Concludes(c, out, err) == combo'[c].out = out /\ combo'[c].err = err
PlainEffect(c) ==
    \/ /\ Moves(c, "wait", "eval") \/ (Moves(c, "eval", "run") /\ Enabled(c[1]))
       /\ Concludes(c, combo[c].out, combo[c].err)
    \/ Moves(c, "eval", "done") /\ Concludes(c, "skipped", FALSE)
    \/ (Moves(c, "eval", "done") \/ Moves(c, "run", "done")) /\ Concludes(c, "broken", TRUE)
    \/ /\ Moves(c, "run", "lock")
       /\ \/ Concludes(c, "success", FALSE) \/ Concludes(c, "cancelled", TRUE)
          \/ Concludes(c, "failure", TRUE) \/ Concludes(c, "failure", FALSE)
    \/ /\ Moves(c, "tell", "done") /\ Concludes(c, combo[c].out, combo[c].err)
       /\ combo'[c].tol = combo[c].tol

\* The effects of these steps, one by one.
LEMMA PlainComboEffect ==
    ASSUME IInv, NEW c \in Combo, PlainComboStep(c)
    PROVE  /\ UNCHANGED <<plan, job, mutex, ctx>>
           /\ combo[c].at \in Busy \/ job[c[1]].at = "running"
           /\ combo' \in [Combo -> ComboRecord]
           /\ \A d \in Combo \ {c} : combo'[d] = combo[d]
           /\ PlainEffect(c)
<1>1. combo \in [Combo -> ComboRecord]
  BY DEF IInv, TypeOK
<1>2. combo[c].out \in Outs /\ combo[c].err \in BOOLEAN
  BY <1>1 DEF ComboRecord
<1>3. {"skipped", "broken", "success", "failure", "cancelled"} \subseteq Outs
  BY DEF Outs, HasResult
<1> USE DEF PlainEffect, Moves, Concludes
<1>4. CASE StartCombo(c)
  BY <1>1, <1>4, ZenonT(40) DEF StartCombo, ComboRecord, ComboAt, Busy
<1>5. CASE Disabled(c) \/ Unsupported(c)
  <2>1. combo[c].at = "eval" /\ Returned(c, "skipped", FALSE) /\ UNCHANGED <<plan, job, mutex, ctx>>
    BY <1>5 DEF Disabled, Unsupported
  <2>2. QED
    BY <1>1, <1>3, <2>1, ReturnedEffect DEF Busy
<1>6. CASE Begin(c)
  BY <1>1, <1>6 DEF Begin, ComboRecord, ComboAt, Busy
<1>7. CASE Breaks(c)
  <2>1. combo[c].at \in {"eval", "run"} /\ Returned(c, "broken", TRUE) /\ UNCHANGED <<plan, job, mutex, ctx>>
    BY <1>7 DEF Breaks
  <2>2. QED
    BY <1>1, <1>3, <2>1, ReturnedEffect DEF Busy
<1>8. CASE RunsSteps(c)
  <2>1. PICK out \in {"success", "failure", "cancelled"}, err \in BOOLEAN :
            /\ combo' = [combo EXCEPT ![c].at = "lock", ![c].out = out, ![c].err = err]
            /\ (out = "success" => err = FALSE) /\ (out = "cancelled" => err = TRUE)
    BY <1>8 DEF RunsSteps
  <2>2. UNCHANGED <<plan, job, mutex, ctx>> /\ combo[c].at = "run"
    BY <1>8 DEF RunsSteps
  <2>3. out \in Outs
    BY <1>3, <2>1
  <2>5. combo' = [combo EXCEPT ![c].at = "lock", ![c].out = out, ![c].err = err]
    BY <2>1
  <2>6. /\ combo' \in [Combo -> ComboRecord]
        /\ \A d \in Combo \ {c} : combo'[d] = combo[d]
        /\ combo'[c].at = "lock" /\ combo'[c].out = out /\ combo'[c].err = err
    BY <1>1, <2>3, <2>5, StepsOverEffect
  <2>7. \/ out = "success" /\ err = FALSE
        \/ out = "cancelled" /\ err = TRUE
        \/ out = "failure" /\ err = TRUE
        \/ out = "failure" /\ err = FALSE
    BY <2>1
  <2>8. QED
    BY <2>2, <2>6, <2>7 DEF Busy
<1>9. CASE TellCaller(c)
  <2>1. /\ combo[c].at = "tell" /\ Returned(c, combo[c].out, combo[c].err)
        /\ UNCHANGED <<plan, job, mutex, ctx>>
    BY <1>9 DEF TellCaller
  <2>2. QED
    BY <1>1, <1>2, <2>1, ReturnedEffect DEF Busy
<1>10. QED
  BY <1>4, <1>5, <1>6, <1>7, <1>8, <1>9 DEF PlainComboStep

\* Such a step keeps the invariant.
LEMMA PlainComboInv == ASSUME IInv, NEW c \in Combo, PlainComboStep(c) PROVE IInv'
<1>1. UNCHANGED <<plan, job, mutex, ctx>> /\ (combo[c].at \in Busy \/ job[c[1]].at = "running")
  BY PlainComboEffect
<1>2. plan.at = "stage" /\ job[c[1]].at = "running" /\ StageOf[c[1]] = plan.stage
  BY <1>1, BusyNow
<1>3. OnlyComboChanges(c)
  BY <1>1, PlainComboEffect DEF OnlyComboChanges, IInv, TypeOK
<1>4. StageOrder' /\ ComboPhases' /\ ErrSoFar' /\ CallerInv' /\ ErrorInv'
  <2>1. /\ combo[c].at \in {"wait", "eval", "run"} => combo[c].out = "none" /\ combo[c].err = FALSE
        /\ combo[c].out \in {"invalid", "broken", "cancelled"} => combo[c].err = TRUE
        /\ combo[c].err = TRUE => combo[c].out \in {"failure", "cancelled", "invalid", "broken"}
    BY DEF IInv, ComboPhases
  <2>2. /\ combo'[c].at # "wait"
        /\ combo'[c].at \in {"eval", "run"} => combo'[c].out = "none" /\ combo'[c].err = FALSE
        /\ combo'[c].at \in {"lock", "write", "tell"} => combo'[c].out \in HasResult
        /\ combo'[c].out \in {"invalid", "broken", "cancelled"} => combo'[c].err = TRUE
        /\ combo'[c].err = TRUE => combo'[c].out \in {"failure", "cancelled", "invalid", "broken"}
    BY <2>1, PlainComboEffect DEF HasResult, PlainEffect, Moves, Concludes
  <2>3. QED
    BY <1>2, <1>3, <2>2, ComboFrame
<1>5. NeedsMet'
  <2>1. \/ combo'[c].at \notin Busy \ {"eval"}
        \/ combo[c].at \in Busy \ {"eval"}
        \/ Enabled(c[1])
    BY PlainComboEffect DEF Busy, PlainEffect, Moves
  <2>2. QED
    BY <1>2, <1>3, <2>1, NeedsStay
<1>6. ResultSoFar' /\ ToleratedSoFar'
  <2>1. combo[c].at \in {"wait", "eval", "run"} => combo[c].out = "none"
    BY DEF IInv, ComboPhases
  <2>2. combo[c].at = "tell" => combo[c].out \in HasResult
    BY DEF IInv, ComboPhases
  <2>3. combo[c].out # "invalid"
    BY <2>1, <2>2, PlainComboEffect DEF HasResult, PlainEffect, Moves
  <2>4. combo'[c].at # "write"
    BY PlainComboEffect DEF PlainEffect, Moves
  <2>5. ~HasWritten(c) \/ (combo'[c].out = combo[c].out /\ combo'[c].tol = combo[c].tol)
    <3> SUFFICES ASSUME HasWritten(c) PROVE combo'[c].out = combo[c].out /\ combo'[c].tol = combo[c].tol
      OBVIOUS
    <3>1. combo[c].at \in {"tell", "done"}
      BY DEF HasWritten
    <3>2. PlainEffect(c)
      BY PlainComboEffect
    <3>3. QED
      BY <3>1, <3>2 DEF PlainEffect, Moves, Concludes
  <2>6. HasWritten(c)' => HasWritten(c) \/ combo'[c].out \notin HasResult \cup {"invalid"}
    BY PlainComboEffect DEF HasWritten, PlainEffect, Moves, Concludes, HasResult
  <2>7. HasWritten(c) => HasWritten(c)'
    BY PlainComboEffect DEF HasWritten, PlainEffect, Moves, Concludes
  <2>8. QED
    BY <1>1, <1>3, <2>3, <2>4, <2>5, <2>6, <2>7, ResultStays
<1>7. Locking'
  BY <1>1, <1>3, PlainComboEffect, LockingStays DEF PlainEffect, Moves
<1>8. QED
  BY <1>3, <1>4, <1>5, <1>6, <1>7 DEF IInv, OnlyComboChanges

\* A step of one combination is none of another job's business.
LEMMA OtherJobs ==
    ASSUME NEW c \in Combo, OnlyComboChanges(c), NEW j \in Job, j # c[1]
    PROVE  /\ Invalidated(j)' = Invalidated(j) /\ Written(j)' = Written(j) /\ job'[j] = job[j]
           /\ \A d \in CombosOf(j) : combo'[d] = combo[d]
<1>1. \A d \in CombosOf(j) : combo'[d] = combo[d]
  BY DEF CombosOf, OnlyComboChanges
<1>2. job'[j] = job[j]
  BY DEF OnlyComboChanges
<1>3. Invalidated(j)' = Invalidated(j)
  BY <1>1 DEF Invalidated
<1>4. Written(j)' = Written(j)
  BY <1>1 DEF Written, HasWritten
<1>5. QED
  BY <1>1, <1>2, <1>3, <1>4

\* A result written without the mutex: the job is excepted from then on.
LEMMA InvalidInv == ASSUME IInv, NEW c \in Combo, Invalid(c) PROVE IInv'
<1>1. combo \in [Combo -> ComboRecord] /\ job \in [Job -> JobRecord] /\ c[1] \in Job
  BY ComboFacts DEF IInv, TypeOK
<1>2. /\ UNCHANGED <<plan, mutex, ctx>> /\ combo[c].at = "eval" /\ Enabled(c[1])
      /\ combo' \in [Combo -> ComboRecord] /\ job' \in [Job -> JobRecord]
      /\ \A d \in Combo \ {c} : combo'[d] = combo[d]
      /\ \A j \in Job \ {c[1]} : job'[j] = job[j]
      /\ job'[c[1]].at = job[c[1]].at /\ job'[c[1]].cond = job[c[1]].cond
      /\ combo'[c].at = "done" /\ combo'[c].out = "invalid" /\ combo'[c].err = TRUE
  <2>1. "invalid" \in Outs /\ Returned(c, "invalid", TRUE)
    BY DEF Outs, Invalid
  <2>2. /\ job' \in [Job -> JobRecord] /\ \A j \in Job \ {c[1]} : job'[j] = job[j]
        /\ job'[c[1]].at = job[c[1]].at /\ job'[c[1]].cond = job[c[1]].cond
    BY <1>1, ZenonT(40) DEF Invalid, JobRecord, HasResult
  <2>3. QED
    BY <1>1, <2>1, <2>2, ReturnedEffect DEF Invalid
<1>3. plan.at = "stage" /\ job[c[1]].at = "running" /\ StageOf[c[1]] = plan.stage
  BY <1>2, BusyNow DEF Busy
<1>4. OnlyComboChanges(c)
  BY <1>2 DEF OnlyComboChanges, IInv, TypeOK
<1>5. StageOrder' /\ ComboPhases' /\ ErrSoFar' /\ CallerInv' /\ ErrorInv'
  BY <1>2, <1>3, <1>4, ComboFrame
<1>6. NeedsMet'
  BY <1>2, <1>3, <1>4, NeedsStay
<1>7. Locking'
  BY <1>2, <1>4, LockingStays
<1>8. Invalidated(c[1])'
  BY <1>2, ComboFacts DEF Invalidated
<1>9. ResultSoFar'
  <2> SUFFICES ASSUME NEW j \in Job, ~Invalidated(j)'
               PROVE  /\ job'[j].result = Worst(Written(j)')
                      /\ \A d \in CombosOf(j) : combo'[d].at = "write" => combo'[d].read = job'[j].result
    BY DEF ResultSoFar
  <2>1. j # c[1]
    BY <1>8
  <2>2. QED
    BY <1>4, <2>1, OtherJobs DEF IInv, ResultSoFar
<1>10. ToleratedSoFar'
  <2> SUFFICES ASSUME NEW j \in Job, ~Invalidated(j)', "cancelled" \notin Written(j)',
                      job'[j].tolerated # "no",
                      NEW d \in CombosOf(j), HasWritten(d)', combo'[d].out = "failure"
               PROVE  combo'[d].tol = "yes"
    BY DEF ToleratedSoFar
  <2>1. j # c[1]
    BY <1>8
  <2>2. HasWritten(d) /\ combo[d].out = "failure"
    BY <1>4, <2>1, OtherJobs DEF HasWritten
  <2>3. QED
    BY <1>4, <2>1, <2>2, OtherJobs DEF IInv, ToleratedSoFar
<1>11. QED
  BY <1>4, <1>5, <1>6, <1>7, <1>9, <1>10 DEF IInv, OnlyComboChanges

\* Taking the mutex and reading the result.
LEMMA lockJobInv == ASSUME IInv, NEW c \in Combo, lockJob(c) PROVE IInv'
<1>1. combo \in [Combo -> ComboRecord] /\ job \in [Job -> JobRecord] /\ c[1] \in Job
      /\ mutex \in [Job -> Combo \cup {NoCombo}]
  BY ComboFacts DEF IInv, TypeOK
<1>2. /\ UNCHANGED <<plan, job, ctx>> /\ combo[c].at = "lock" /\ mutex[c[1]] = NoCombo
      /\ combo' \in [Combo -> ComboRecord] /\ mutex' \in [Job -> Combo \cup {NoCombo}]
      /\ mutex'[c[1]] = c /\ \A j \in Job \ {c[1]} : mutex'[j] = mutex[j]
      /\ \A d \in Combo \ {c} : combo'[d] = combo[d]
      /\ combo'[c].at = "write" /\ combo'[c].read = job[c[1]].result
      /\ combo'[c].out = combo[c].out /\ combo'[c].err = combo[c].err
  <2>1. /\ UNCHANGED <<plan, job, ctx>> /\ combo[c].at = "lock" /\ mutex[c[1]] = NoCombo
        /\ mutex' = [mutex EXCEPT ![c[1]] = c]
        /\ combo' = [combo EXCEPT ![c].at = "write", ![c].read = job[c[1]].result]
    BY DEF lockJob
  <2>2. /\ mutex' \in [Job -> Combo \cup {NoCombo}]
        /\ mutex'[c[1]] = c /\ \A j \in Job \ {c[1]} : mutex'[j] = mutex[j]
    BY <1>1, <2>1
  <2>3. job[c[1]].result \in HasResult \cup {""}
    BY <1>1 DEF JobRecord
  <2>4. QED
    BY <1>1, <2>1, <2>2, <2>3, lockJobEffect
<1>3. plan.at = "stage" /\ job[c[1]].at = "running" /\ StageOf[c[1]] = plan.stage
  BY <1>2, BusyNow DEF Busy
<1>4. OnlyComboChanges(c)
  BY <1>2 DEF OnlyComboChanges, IInv, TypeOK
<1>5. /\ combo[c].out \in HasResult
      /\ combo[c].out \in {"invalid", "broken", "cancelled"} => combo[c].err = TRUE
      /\ combo[c].err = TRUE => combo[c].out \in {"failure", "cancelled", "invalid", "broken"}
  BY <1>2 DEF IInv, ComboPhases
<1>6. StageOrder' /\ ComboPhases' /\ ErrSoFar' /\ CallerInv' /\ ErrorInv'
  BY <1>2, <1>3, <1>4, <1>5, ComboFrame
<1>7. NeedsMet'
  BY <1>2, <1>3, <1>4, NeedsStay DEF Busy
<1>8. ResultSoFar' /\ ToleratedSoFar'
  <2>1. ~HasWritten(c) /\ ~HasWritten(c)' /\ combo[c].out # "invalid"
    BY <1>2, <1>5 DEF HasWritten, HasResult
  <2>2. job' = job /\ combo'[c].read = job[c[1]].result
    BY <1>2
  <2>3. QED
    BY <1>4, <2>1, <2>2, ResultStays
<1>9. Locking'
  <2> SUFFICES ASSUME NEW d \in Combo, combo'[d].at = "write" PROVE mutex'[d[1]] = d
    BY DEF Locking
  <2>1. CASE d # c
    <3>1. combo[d].at = "write" /\ d[1] \in Job /\ d # NoCombo
      BY <1>2, <2>1, ComboFacts
    <3>2. mutex[d[1]] = d
      BY <3>1 DEF IInv, Locking
    <3>3. QED
      BY <1>2, <3>1, <3>2
  <2>2. QED
    BY <1>2, <2>1
<1>10. QED
  BY <1>4, <1>6, <1>7, <1>8, <1>9 DEF IInv, OnlyComboChanges

\* The result of a job that a step writes.
LEMMA JobWriteEffect ==
    ASSUME job \in [Job -> JobRecord], NEW j \in Job, NEW r \in HasResult \cup {""},
           NEW t \in {"unset", "yes", "no"},
           job' = [job EXCEPT ![j].result = r, ![j].tolerated = t]
    PROVE  /\ job' \in [Job -> JobRecord]
           /\ \A k \in Job \ {j} : job'[k] = job[k]
           /\ job'[j].at = job[j].at /\ job'[j].cond = job[j].cond
           /\ job'[j].result = r /\ job'[j].tolerated = t
<1>1. job' \in [Job -> JobRecord]
  <2>1. job[j] \in JobRecord
    OBVIOUS
  <2>2. [job[j] EXCEPT !.result = r, !.tolerated = t] \in JobRecord
    BY <2>1 DEF JobRecord
  <2>3. job' = [job EXCEPT ![j] = [job[j] EXCEPT !.result = r, !.tolerated = t]]
    OBVIOUS
  <2>4. QED
    BY <2>2, <2>3
<1>2. \A k \in Job \ {j} : job'[k] = job[k]
  OBVIOUS
<1>3. /\ job'[j].at = job[j].at /\ job'[j].cond = job[j].cond
      /\ job'[j].result = r /\ job'[j].tolerated = t
  BY DEF JobRecord
<1>4. QED
  BY <1>1, <1>2, <1>3

\* What the write makes of the job's tolerance.
NewTolerated(c, t) ==
    IF combo[c].out = "failure" /\ JobResult(c) = "failure"
    THEN SetContinueOnError(job[c[1]].tolerated, t) ELSE job[c[1]].tolerated

\* The write of a combination that holds the mutex.
LEMMA WriteResultEffect ==
    ASSUME IInv, NEW c \in Combo, WriteResult(c)
    PROVE  \E t \in {"yes", "no"} :
             /\ UNCHANGED <<plan, ctx>> /\ combo[c].at = "write" /\ c[1] \in Job
             /\ combo' \in [Combo -> ComboRecord] /\ job' \in [Job -> JobRecord]
             /\ mutex' \in [Job -> Combo \cup {NoCombo}]
             /\ \A j \in Job \ {c[1]} : mutex'[j] = mutex[j]
             /\ \A d \in Combo \ {c} : combo'[d] = combo[d]
             /\ \A j \in Job \ {c[1]} : job'[j] = job[j]
             /\ job'[c[1]].at = job[c[1]].at /\ job'[c[1]].cond = job[c[1]].cond
             /\ job'[c[1]].result = JobResult(c) /\ job'[c[1]].tolerated = NewTolerated(c, t)
             /\ combo'[c].at = "tell" /\ combo'[c].tol = t
             /\ combo'[c].out = combo[c].out /\ combo'[c].err = combo[c].err
<1>1. combo \in [Combo -> ComboRecord] /\ job \in [Job -> JobRecord] /\ c[1] \in Job
      /\ mutex \in [Job -> Combo \cup {NoCombo}]
  BY ComboFacts DEF IInv, TypeOK
<1>2. PICK t \in {"yes", "no"} :
        /\ job' = [job EXCEPT ![c[1]].result = JobResult(c),
                              ![c[1]].tolerated = IF combo[c].out = "failure" /\ JobResult(c) = "failure"
                                                  THEN SetContinueOnError(@, t) ELSE @]
        /\ combo' = [combo EXCEPT ![c].at = "tell", ![c].read = JobResult(c), ![c].tol = t]
  BY DEF WriteResult
<1>3. /\ combo[c].at = "write" /\ mutex' = [mutex EXCEPT ![c[1]] = NoCombo]
      /\ UNCHANGED <<plan, ctx>>
  BY DEF WriteResult
<1>4. JobResult(c) \in HasResult \cup {""}
  <2>1. combo[c].read \in HasResult \cup {""}
    BY <1>1 DEF ComboRecord
  <2>2. QED
    BY <2>1 DEF JobResult, HasResult
<1>5. NewTolerated(c, t) \in {"unset", "yes", "no"}
  <2>1. job[c[1]].tolerated \in {"unset", "yes", "no"}
    BY <1>1 DEF JobRecord
  <2>2. QED
    BY <2>1 DEF NewTolerated, SetContinueOnError
<1>6. job' = [job EXCEPT ![c[1]].result = JobResult(c), ![c[1]].tolerated = NewTolerated(c, t)]
  BY <1>1, <1>2 DEF NewTolerated, JobRecord
<1>7. /\ job' \in [Job -> JobRecord] /\ \A j \in Job \ {c[1]} : job'[j] = job[j]
      /\ job'[c[1]].at = job[c[1]].at /\ job'[c[1]].cond = job[c[1]].cond
      /\ job'[c[1]].result = JobResult(c) /\ job'[c[1]].tolerated = NewTolerated(c, t)
  BY <1>1, <1>4, <1>5, <1>6, JobWriteEffect, ZenonT(40)
<1>8. /\ combo' \in [Combo -> ComboRecord] /\ \A d \in Combo \ {c} : combo'[d] = combo[d]
      /\ combo'[c].at = "tell" /\ combo'[c].tol = t
      /\ combo'[c].out = combo[c].out /\ combo'[c].err = combo[c].err
  BY <1>1, <1>2, <1>4, WriteEffect
<1>9. /\ mutex' \in [Job -> Combo \cup {NoCombo}]
      /\ \A j \in Job \ {c[1]} : mutex'[j] = mutex[j]
  BY <1>1, <1>3
<1>10. QED
  BY <1>1, <1>3, <1>7, <1>8, <1>9

\* The result that is written is the worst of the combinations so far and this
\* one: what was read under the mutex is what the others have made of it.
LEMMA JobResultIsWorst ==
    ASSUME IInv, NEW c \in Combo, combo[c].at = "write", ~Invalidated(c[1])
    PROVE  JobResult(c) = Worst(Written(c[1]) \cup {combo[c].out})
<1>1. c[1] \in Job /\ c \in CombosOf(c[1])
  BY ComboFacts
<1>2. combo[c].read = Worst(Written(c[1]))
  BY <1>1 DEF IInv, ResultSoFar
<1>3. combo[c].out \in HasResult
  BY DEF IInv, ComboPhases
<1>4. CASE Combos[c[1]] > 1
  BY <1>2, <1>3, <1>4 DEF JobResult, Worst, HasResult
<1>5. CASE ~(Combos[c[1]] > 1)
  <2>1. Written(c[1]) = {}
    <3>1. \A d \in CombosOf(c[1]) : ~HasWritten(d)
      BY <1>5, OnlyCombo DEF HasWritten
    <3>2. QED
      BY <3>1 DEF Written
  <2>2. QED
    BY <1>3, <1>5, <2>1 DEF JobResult, Worst, HasResult
<1>6. QED
  BY <1>4, <1>5

\* The write keeps the invariant: the mutex makes what was read still true.
LEMMA WriteResultInv == ASSUME IInv, NEW c \in Combo, WriteResult(c) PROVE IInv'
<1>1. PICK t \in {"yes", "no"} :
        /\ UNCHANGED <<plan, ctx>> /\ combo[c].at = "write" /\ c[1] \in Job
        /\ combo' \in [Combo -> ComboRecord] /\ job' \in [Job -> JobRecord]
        /\ mutex' \in [Job -> Combo \cup {NoCombo}]
        /\ \A j \in Job \ {c[1]} : mutex'[j] = mutex[j]
        /\ \A d \in Combo \ {c} : combo'[d] = combo[d]
        /\ \A j \in Job \ {c[1]} : job'[j] = job[j]
        /\ job'[c[1]].at = job[c[1]].at /\ job'[c[1]].cond = job[c[1]].cond
        /\ job'[c[1]].result = JobResult(c) /\ job'[c[1]].tolerated = NewTolerated(c, t)
        /\ combo'[c].at = "tell" /\ combo'[c].tol = t
        /\ combo'[c].out = combo[c].out /\ combo'[c].err = combo[c].err
  BY WriteResultEffect
<1>2. plan.at = "stage" /\ job[c[1]].at = "running" /\ StageOf[c[1]] = plan.stage
  BY <1>1, BusyNow DEF Busy
<1>3. OnlyComboChanges(c)
  BY <1>1 DEF OnlyComboChanges, IInv, TypeOK
<1>4. /\ combo[c].out \in HasResult
      /\ combo[c].out \in {"invalid", "broken", "cancelled"} => combo[c].err = TRUE
      /\ combo[c].err = TRUE => combo[c].out \in {"failure", "cancelled", "invalid", "broken"}
  BY <1>1 DEF IInv, ComboPhases
<1>5. StageOrder' /\ ComboPhases' /\ ErrSoFar' /\ CallerInv' /\ ErrorInv'
  BY <1>1, <1>2, <1>3, <1>4, ComboFrame
<1>6. NeedsMet'
  BY <1>1, <1>2, <1>3, NeedsStay DEF Busy
<1>7. \A d \in CombosOf(c[1]) : d # c => combo[d].at # "write"
  BY <1>1 DEF IInv, Locking, CombosOf
<1>8. Locking'
  <2> SUFFICES ASSUME NEW d \in Combo, combo'[d].at = "write" PROVE mutex'[d[1]] = d
    BY DEF Locking
  <2>1. d # c /\ combo[d].at = "write" /\ d[1] \in Job /\ d \in CombosOf(d[1])
    BY <1>1, ComboFacts
  <2>2. d[1] # c[1]
    BY <1>7, <2>1
  <2>3. QED
    BY <1>1, <2>1, <2>2 DEF IInv, Locking
<1>9. /\ Invalidated(c[1])' = Invalidated(c[1])
      /\ Written(c[1])' = Written(c[1]) \cup {combo[c].out}
  <2>1. \A d \in CombosOf(c[1]) : combo'[d].out = combo[d].out
    BY <1>1 DEF CombosOf
  <2>2. \A d \in CombosOf(c[1]) : HasWritten(d)' <=> d = c \/ HasWritten(d)
    BY <1>1 DEF CombosOf, HasWritten
  <2>3. c \in CombosOf(c[1])
    BY ComboFacts
  <2>4. Invalidated(c[1])' = Invalidated(c[1])
    BY <2>1 DEF Invalidated
  <2>5. Written(c[1])' = Written(c[1]) \cup {combo[c].out}
    BY <2>1, <2>2, <2>3 DEF Written
  <2>6. QED
    BY <2>4, <2>5
<1>10. ResultSoFar'
  <2> SUFFICES ASSUME NEW j \in Job, ~Invalidated(j)'
               PROVE  /\ job'[j].result = Worst(Written(j)')
                      /\ \A d \in CombosOf(j) : combo'[d].at = "write" => combo'[d].read = job'[j].result
    BY DEF ResultSoFar
  <2>1. CASE j # c[1]
    BY <1>3, <2>1, OtherJobs DEF IInv, ResultSoFar
  <2>2. CASE j = c[1]
    <3>1. job'[j].result = Worst(Written(j)')
      BY <1>1, <1>9, <2>2, JobResultIsWorst
    <3>2. \A d \in CombosOf(j) : combo'[d].at # "write"
      BY <1>1, <1>7, <2>2 DEF CombosOf
    <3>3. QED
      BY <3>1, <3>2
  <2>3. QED
    BY <2>1, <2>2
<1>11. ToleratedSoFar'
  <2> SUFFICES ASSUME NEW j \in Job, ~Invalidated(j)', "cancelled" \notin Written(j)',
                      job'[j].tolerated # "no",
                      NEW d \in CombosOf(j), HasWritten(d)', combo'[d].out = "failure"
               PROVE  combo'[d].tol = "yes"
    BY DEF ToleratedSoFar
  <2>1. CASE j # c[1]
    <3>1. HasWritten(d) /\ combo[d].out = "failure"
      BY <1>3, <2>1, OtherJobs DEF HasWritten
    <3>2. QED
      BY <1>3, <2>1, <3>1, OtherJobs DEF IInv, ToleratedSoFar
  <2>2. CASE j = c[1]
    <3>1. ~Invalidated(j) /\ "cancelled" \notin Written(j) /\ combo[c].out # "cancelled"
      BY <1>9, <2>2
    <3>2. combo[c].out = "failure" => JobResult(c) = "failure"
      BY <1>1, <2>2, <3>1, JobResultIsWorst DEF Worst
    <3>3. job[j].tolerated # "no" /\ (combo[c].out = "failure" => t = "yes")
      BY <1>1, <2>2, <3>2 DEF NewTolerated, SetContinueOnError
    <3>4. CASE d = c
      BY <1>1, <3>3, <3>4
    <3>5. CASE d # c
      <4>1. combo'[d] = combo[d]
        BY <1>1, <3>5 DEF CombosOf
      <4>2. HasWritten(d) /\ combo[d].out = "failure"
        BY <4>1 DEF HasWritten
      <4>3. QED
        BY <3>1, <3>3, <4>1, <4>2 DEF IInv, ToleratedSoFar
    <3>6. QED
      BY <3>4, <3>5
  <2>3. QED
    BY <2>1, <2>2
<1>12. QED
  BY <1>3, <1>5, <1>6, <1>8, <1>10, <1>11 DEF IInv, OnlyComboChanges

\* So every step of a combination keeps the invariant.
LEMMA ComboStepInv == ASSUME IInv, NEW c \in Combo, ComboStep(c) PROVE IInv'
BY PlainComboInv, InvalidInv, lockJobInv, WriteResultInv DEF ComboStep, PlainComboStep

-----------------------------------------------------------------------------
(* Steps of the plan.                                                      *)

\* What is said of the combinations and their results does not depend on the
\* plan or on where the jobs are.
LEMMA ResultsFrame ==
    ASSUME IInv, UNCHANGED <<combo, mutex>>,
           \A j \in Job : /\ job'[j].result = job[j].result /\ job'[j].cond = job[j].cond
                          /\ job'[j].tolerated = job[j].tolerated
    PROVE  Locking' /\ ResultSoFar' /\ ToleratedSoFar' /\ NeedsMet'
<1>1. \A j \in Job : Invalidated(j)' = Invalidated(j) /\ Written(j)' = Written(j)
  BY DEF Invalidated, Written, HasWritten
<1>2. Locking'
  BY DEF IInv, Locking
<1>3. ResultSoFar'
  <2> SUFFICES ASSUME NEW j \in Job, ~Invalidated(j)'
               PROVE  /\ job'[j].result = Worst(Written(j)')
                      /\ \A d \in CombosOf(j) : combo'[d].at = "write" => combo'[d].read = job'[j].result
    BY DEF ResultSoFar
  <2>1. QED
    BY <1>1 DEF IInv, ResultSoFar
<1>4. ToleratedSoFar'
  <2> SUFFICES ASSUME NEW j \in Job, ~Invalidated(j)', "cancelled" \notin Written(j)',
                      job'[j].tolerated # "no",
                      NEW d \in CombosOf(j), HasWritten(d)', combo'[d].out = "failure"
               PROVE  combo'[d].tol = "yes"
    BY DEF ToleratedSoFar
  <2>1. HasWritten(d) /\ combo[d].out = "failure"
    BY DEF HasWritten
  <2>2. QED
    BY <1>1, <2>1 DEF IInv, ToleratedSoFar
<1>5. NeedsMet'
  <2> SUFFICES ASSUME NEW d \in Combo, combo'[d].at \in Busy \ {"eval"}, job'[d[1]].cond = "success",
                      NEW k \in Needs[d[1]]
               PROVE  job'[k].result = "success"
    BY DEF NeedsMet
  <2>1. d[1] \in Job /\ k \in Job
    BY ComboFacts, NeedsFacts
  <2>2. QED
    BY <2>1 DEF IInv, NeedsMet
<1>6. QED
  BY <1>2, <1>3, <1>4, <1>5

\* A job that begins or ends.
LEMMA JobStepInv == ASSUME IInv, NEW j \in Job, StartJob(j) \/ FinishJob(j) PROVE IInv'
<1>1. PICK to \in {"running", "done"} :
        /\ job' = [job EXCEPT ![j].at = to] /\ job[j].at = IF to = "done" THEN "running" ELSE "wait"
        /\ to = "running" => plan.at = "stage" /\ StageOf[j] = plan.stage
        /\ to = "done" => \A c \in CombosOf(j) : combo[c].at = "done"
        /\ UNCHANGED <<plan, combo, mutex, ctx>>
  BY DEF StartJob, FinishJob
<1>2. job \in [Job -> JobRecord] /\ plan.stage \in Nat /\ plan.err \in BOOLEAN /\ StageOf[j] \in Nat
  BY PlanAssumption DEF IInv, TypeOK
<1>3. /\ job' \in [Job -> JobRecord] /\ job'[j].at = to
      /\ \A k \in Job \ {j} : job'[k] = job[k]
      /\ \A k \in Job : /\ job'[k].result = job[k].result /\ job'[k].cond = job[k].cond
                        /\ job'[k].tolerated = job[k].tolerated
  BY <1>1, <1>2 DEF JobRecord
<1>4. plan.at = "stage" /\ StageOf[j] = plan.stage /\ plan.err = FALSE
  <2>1. CASE to = "running"
    BY <1>1, <1>2, <2>1 DEF IInv, ErrorInv
  <2>2. CASE to = "done"
    BY <1>1, <1>2, <2>2 DEF IInv, StageOrder, ErrorInv
  <2>3. QED
    BY <2>1, <2>2
<1>5. TypeOK'
  BY <1>1, <1>3 DEF IInv, TypeOK
<1>6. Locking' /\ ResultSoFar' /\ ToleratedSoFar' /\ NeedsMet'
  BY <1>1, <1>3, ResultsFrame
<1>7. StageOrder'
  BY <1>1, <1>2, <1>3, <1>4 DEF IInv, StageOrder
<1>8. ComboPhases'
  <2> SUFFICES ASSUME NEW d \in Combo
               PROVE  /\ job'[d[1]].at = "wait" => combo[d].at = "wait"
                      /\ job'[d[1]].at = "done" => combo[d].at = "done"
    BY <1>1 DEF IInv, ComboPhases
  <2>1. d[1] \in Job /\ d \in CombosOf(d[1])
    BY ComboFacts
  <2>2. CASE d[1] = j
    BY <1>1, <1>3, <2>1, <2>2
  <2>3. CASE d[1] # j
    BY <1>3, <2>1, <2>3 DEF IInv, ComboPhases
  <2>4. QED
    BY <2>2, <2>3
<1>9. ErrSoFar' /\ CallerInv' /\ ErrorInv'
  BY <1>1, <1>4 DEF IInv, ErrSoFar, CallerInv, ErrorInv
<1>10. QED
  BY <1>5, <1>6, <1>7, <1>8, <1>9 DEF IInv

\* What the steps of the plan itself and the cancellation leave alone.
LEMMA PlanFrame ==
    ASSUME IInv, UNCHANGED <<job, combo, mutex>>, ctx' \in {"live", "cancelled"},
           plan' \in [stage : Nat, at : PlanAt, err : BOOLEAN]
    PROVE  TypeOK' /\ ComboPhases' /\ Locking' /\ ResultSoFar' /\ ToleratedSoFar' /\ NeedsMet'
<1>1. Locking' /\ ResultSoFar' /\ ToleratedSoFar' /\ NeedsMet'
  BY ResultsFrame
<1>2. TypeOK' /\ ComboPhases'
  BY DEF IInv, TypeOK, ComboPhases
<1>3. QED
  BY <1>1, <1>2

\* A stage is entered with all its jobs waiting, or the plan ends there.
LEMMA EnterStageInv == ASSUME IInv, EnterStage PROVE IInv'
<1>1. plan.at = "enter" /\ UNCHANGED <<job, combo, mutex, ctx>>
  BY DEF EnterStage
<1>2. plan \in [stage : Nat, at : PlanAt, err : BOOLEAN] /\ ctx \in {"live", "cancelled"}
  BY DEF IInv, TypeOK
<1>3. plan.err = FALSE
  BY <1>1, <1>2 DEF IInv, ErrorInv
<1>4. CASE plan' = [plan EXCEPT !.at = "stage"]
  <2>1. /\ plan' \in [stage : Nat, at : PlanAt, err : BOOLEAN]
        /\ plan'.stage = plan.stage /\ plan'.err = FALSE /\ plan'.at = "stage"
    BY <1>2, <1>3, <1>4 DEF PlanAt
  <2>2. TypeOK' /\ ComboPhases' /\ Locking' /\ ResultSoFar' /\ ToleratedSoFar' /\ NeedsMet'
    BY <1>1, <1>2, <2>1, PlanFrame
  <2>3. StageOrder' /\ ErrSoFar' /\ CallerInv' /\ ErrorInv'
    BY <1>1, <1>3, <2>1 DEF IInv, StageOrder, ErrSoFar, CallerInv, ErrorInv
  <2>4. QED
    BY <2>2, <2>3 DEF IInv
<1>5. CASE JobsOf(plan.stage) # {} /\ plan' = [plan EXCEPT !.at = "end", !.err = TRUE]
  <2>1. /\ plan' \in [stage : Nat, at : PlanAt, err : BOOLEAN]
        /\ plan'.stage = plan.stage /\ plan'.err = TRUE /\ plan'.at = "end"
    BY <1>2, <1>5 DEF PlanAt
  <2>2. TypeOK' /\ ComboPhases' /\ Locking' /\ ResultSoFar' /\ ToleratedSoFar' /\ NeedsMet'
    BY <1>1, <1>2, <2>1, PlanFrame
  <2>3. StageOrder' /\ ErrSoFar' /\ CallerInv'
    BY <1>1, <2>1 DEF IInv, StageOrder, ErrSoFar, CallerInv
  <2>4. \E j \in JobsOf(plan'.stage) : job'[j].at = "wait"
    BY <1>1, <1>5, <2>1 DEF IInv, StageOrder, JobsOf
  <2>5. QED
    BY <2>1, <2>2, <2>3, <2>4 DEF IInv, ErrorInv
<1>6. QED
  BY <1>4, <1>5 DEF EnterStage

\* A stage ends when all its jobs have; an error of one of its combinations
\* ends the plan.
LEMMA FinishStageInv == ASSUME IInv, FinishStage PROVE IInv'
<1>1. /\ plan.at = "stage" /\ \A j \in JobsOf(plan.stage) : job[j].at = "done"
      /\ UNCHANGED <<job, combo, mutex, ctx>>
  BY DEF FinishStage
<1>2. /\ plan \in [stage : Nat, at : PlanAt, err : BOOLEAN] /\ ctx \in {"live", "cancelled"}
      /\ plan.stage \in Nat
  BY DEF IInv, TypeOK
<1>3. plan.err = FALSE
  BY <1>1, <1>2 DEF IInv, ErrorInv
<1>4. \A j \in Job : StageOf[j] \in Nat
  BY PlanAssumption
<1>5. \A j \in Job : /\ StageOf[j] <= plan.stage => job[j].at = "done"
                     /\ StageOf[j] > plan.stage => job[j].at = "wait"
  BY <1>1, <1>2, <1>4 DEF IInv, StageOrder, JobsOf
<1>6. \A j \in Job : job[j].at # "running"
  BY <1>2, <1>4, <1>5
<1>7. CASE StageErr /\ plan' = [plan EXCEPT !.at = "end", !.err = TRUE]
  <2>1. /\ plan' \in [stage : Nat, at : PlanAt, err : BOOLEAN]
        /\ plan'.stage = plan.stage /\ plan'.err = TRUE /\ plan'.at = "end"
    BY <1>2, <1>7 DEF PlanAt
  <2>2. TypeOK' /\ ComboPhases' /\ Locking' /\ ResultSoFar' /\ ToleratedSoFar' /\ NeedsMet'
    BY <1>1, <1>2, <2>1, PlanFrame
  <2>3. StageOrder' /\ ErrSoFar' /\ CallerInv'
    BY <1>1, <1>6, <2>1 DEF IInv, StageOrder, ErrSoFar, CallerInv
  <2>4. \/ \E c \in Combo : combo'[c].out \in {"failure", "cancelled", "invalid", "broken"}
        \/ ctx' # "live"
    BY <1>1, <1>7 DEF StageErr, CombosOf, IInv, ComboPhases
  <2>5. QED
    BY <2>1, <2>2, <2>3, <2>4 DEF IInv, ErrorInv
<1>8. ASSUME ~StageErr, NEW c \in Combo PROVE combo[c].err = FALSE
  <2>1. c[1] \in Job /\ c \in CombosOf(c[1]) /\ StageOf[c[1]] \in Nat
    BY ComboFacts
  <2>2. CASE StageOf[c[1]] < plan.stage
    BY <1>3, <2>2 DEF IInv, ErrSoFar
  <2>3. CASE StageOf[c[1]] = plan.stage
    <3>1. combo[c].err \in BOOLEAN
      BY DEF IInv, TypeOK, ComboRecord
    <3>2. QED
      BY <1>8, <2>1, <2>3, <3>1 DEF StageErr, JobsOf
  <2>4. CASE StageOf[c[1]] > plan.stage
    BY <1>5, <2>1, <2>4 DEF IInv, ComboPhases
  <2>5. StageOf[c[1]] < plan.stage \/ StageOf[c[1]] = plan.stage \/ StageOf[c[1]] > plan.stage
    <3>1. \A m, n \in Nat : m < n \/ m = n \/ m > n
      OBVIOUS
    <3>2. QED
      BY <1>2, <2>1, <3>1
  <2>6. QED
    BY <2>2, <2>3, <2>4, <2>5
<1>9. CASE ~StageErr /\ plan' = [plan EXCEPT !.at = "enter", !.stage = @ + 1]
  <2>1. /\ plan' \in [stage : Nat, at : PlanAt, err : BOOLEAN]
        /\ plan'.stage = plan.stage + 1 /\ plan'.err = FALSE /\ plan'.at = "enter"
    <3>1. plan' = [stage |-> plan.stage + 1, at |-> "enter", err |-> plan.err]
      BY <1>2, <1>9
    <3>2. plan.stage + 1 \in Nat
      BY <1>2
    <3>3. QED
      BY <1>2, <1>3, <3>1, <3>2 DEF PlanAt
  <2>2. TypeOK' /\ ComboPhases' /\ Locking' /\ ResultSoFar' /\ ToleratedSoFar' /\ NeedsMet'
    BY <1>1, <1>2, <2>1, PlanFrame
  <2>3. StageOrder'
    BY <1>1, <1>2, <1>4, <1>5, <1>6, <2>1 DEF StageOrder
  <2>4. ErrSoFar' /\ CallerInv' /\ ErrorInv'
    BY <1>1, <1>8, <1>9, <2>1 DEF ErrSoFar, CallerInv, ErrorInv
  <2>5. QED
    BY <2>2, <2>3, <2>4 DEF IInv
<1>10. CASE ~StageErr /\ plan' = [plan EXCEPT !.at = "verdict"]
  <2>1. /\ plan' \in [stage : Nat, at : PlanAt, err : BOOLEAN]
        /\ plan'.stage = plan.stage /\ plan'.err = FALSE /\ plan'.at = "verdict"
    BY <1>2, <1>3, <1>10 DEF PlanAt
  <2>2. TypeOK' /\ ComboPhases' /\ Locking' /\ ResultSoFar' /\ ToleratedSoFar' /\ NeedsMet'
    BY <1>1, <1>2, <2>1, PlanFrame
  <2>3. StageOrder'
    BY <1>1, <1>6, <2>1 DEF IInv, StageOrder
  <2>4. ErrSoFar' /\ CallerInv' /\ ErrorInv'
    BY <1>1, <1>8, <1>10, <2>1 DEF ErrSoFar, CallerInv, ErrorInv
  <2>5. QED
    BY <2>2, <2>3, <2>4 DEF IInv
<1>11. QED
  BY <1>7, <1>9, <1>10 DEF FinishStage


\* The failure of a job is that of one of its combinations, and without an
\* error of the plan the job's tolerance is that of all of them.
LEMMA handleFailureInv == ASSUME IInv, handleFailure PROVE IInv'
<1>1. plan.at = "verdict" /\ UNCHANGED <<job, combo, mutex, ctx>>
  BY DEF handleFailure
<1>2. plan \in [stage : Nat, at : PlanAt, err : BOOLEAN] /\ ctx \in {"live", "cancelled"}
  BY DEF IInv, TypeOK
<1>3. plan.err = FALSE
  BY <1>1, <1>2 DEF IInv, ErrorInv
<1>4. CASE Failure /\ plan' = [plan EXCEPT !.at = "end", !.err = TRUE]
  <2>1. /\ plan' \in [stage : Nat, at : PlanAt, err : BOOLEAN]
        /\ plan'.stage = plan.stage /\ plan'.err = TRUE /\ plan'.at = "end"
    BY <1>2, <1>4 DEF PlanAt
  <2>2. TypeOK' /\ ComboPhases' /\ Locking' /\ ResultSoFar' /\ ToleratedSoFar' /\ NeedsMet'
    BY <1>1, <1>2, <2>1, PlanFrame
  <2>3. StageOrder' /\ ErrSoFar' /\ CallerInv'
    BY <1>1, <2>1 DEF IInv, StageOrder, ErrSoFar, CallerInv
  <2>4. PICK j \in Job : job[j].result = "failure"
    BY <1>4 DEF Failure
  <2>5. \E c \in Combo : combo[c].out \in {"failure", "cancelled", "invalid", "broken"}
    <3>1. CASE Invalidated(j)
      BY <3>1 DEF Invalidated, CombosOf
    <3>2. CASE ~Invalidated(j)
      <4>1. Worst(Written(j)) = "failure"
        BY <2>4, <3>2 DEF IInv, ResultSoFar
      <4>2. "failure" \in Written(j)
        BY <4>1 DEF Worst
      <4>3. QED
        BY <4>2 DEF Written, CombosOf
    <3>3. QED
      BY <3>1, <3>2
  <2>6. QED
    BY <1>1, <2>1, <2>2, <2>3, <2>5 DEF IInv, ErrorInv
<1>5. CASE ~Failure /\ plan' = [plan EXCEPT !.at = IF Called THEN "caller" ELSE "end"]
  <2>1. /\ plan' \in [stage : Nat, at : PlanAt, err : BOOLEAN]
        /\ plan'.stage = plan.stage /\ plan'.err = FALSE /\ plan'.at \in {"caller", "end"}
    BY <1>2, <1>3, <1>5 DEF PlanAt
  <2>2. TypeOK' /\ ComboPhases' /\ Locking' /\ ResultSoFar' /\ ToleratedSoFar' /\ NeedsMet'
    BY <1>1, <1>2, <2>1, PlanFrame
  <2>3. StageOrder' /\ ErrorInv'
    BY <1>1, <2>1 DEF IInv, StageOrder, ErrorInv
  <2>4. \A c \in Combo : combo[c].err = FALSE
    BY <1>1, <1>3 DEF IInv, ErrSoFar
  <2>5. ErrSoFar'
    BY <1>1, <2>4 DEF ErrSoFar
  <2>6. \A c \in Combo : combo[c].out \notin {"invalid", "broken", "cancelled"}
    BY <2>4 DEF IInv, ComboPhases
  <2>7. ASSUME NEW c \in Combo, combo[c].out = "failure" PROVE combo[c].tol = "yes"
    <3>1. c[1] \in Job /\ c \in CombosOf(c[1])
      BY ComboFacts
    <3>2. job[c[1]].at # "running" /\ job[c[1]].at \in {"wait", "running", "done"}
      BY <1>1, <3>1 DEF IInv, StageOrder, TypeOK, JobRecord
    <3>3. HasWritten(c)
      BY <2>7, <3>2 DEF IInv, ComboPhases, HasWritten
    <3>4. ~Invalidated(c[1]) /\ "cancelled" \notin Written(c[1])
      BY <2>6 DEF Invalidated, Written, CombosOf
    <3>5. "failure" \in Written(c[1])
      BY <2>7, <3>1, <3>3 DEF Written
    <3>6. job[c[1]].result = "failure"
      BY <3>1, <3>4, <3>5 DEF IInv, ResultSoFar, Worst
    <3>7. job[c[1]].tolerated # "no"
      BY <1>5, <3>1, <3>6 DEF Failure
    <3>8. QED
      BY <2>7, <3>1, <3>3, <3>4, <3>7 DEF IInv, ToleratedSoFar
  <2>8. CallerInv'
    BY <1>1, <2>7 DEF CallerInv
  <2>9. QED
    BY <2>2, <2>3, <2>5, <2>8 DEF IInv
<1>6. QED
  BY <1>4, <1>5 DEF handleFailure

\* The caller's result is set when the verdict is known.
LEMMA CallerResultInv == ASSUME IInv, setReusedWorkflowCallerResult PROVE IInv'
<1>1. plan.at = "caller" /\ UNCHANGED <<job, combo, mutex, ctx>> /\ plan' = [plan EXCEPT !.at = "end"]
  BY DEF setReusedWorkflowCallerResult
<1>2. plan \in [stage : Nat, at : PlanAt, err : BOOLEAN] /\ ctx \in {"live", "cancelled"}
  BY DEF IInv, TypeOK
<1>3. plan.err = FALSE
  BY <1>1, <1>2 DEF IInv, ErrorInv
<1>4. /\ plan' \in [stage : Nat, at : PlanAt, err : BOOLEAN]
      /\ plan'.stage = plan.stage /\ plan'.err = FALSE /\ plan'.at = "end"
  BY <1>1, <1>2, <1>3 DEF PlanAt
<1>5. TypeOK' /\ ComboPhases' /\ Locking' /\ ResultSoFar' /\ ToleratedSoFar' /\ NeedsMet'
  BY <1>1, <1>2, <1>4, PlanFrame
<1>6. StageOrder' /\ ErrSoFar' /\ CallerInv' /\ ErrorInv'
  BY <1>1, <1>3, <1>4 DEF IInv, StageOrder, ErrSoFar, CallerInv, ErrorInv
<1>7. QED
  BY <1>5, <1>6 DEF IInv

\* A cancellation only adds a reason to end with an error.
LEMMA CancelInv == ASSUME IInv, Cancel PROVE IInv'
<1>1. ctx' = "cancelled" /\ UNCHANGED <<plan, job, combo, mutex>>
  BY DEF Cancel
<1>2. plan' \in [stage : Nat, at : PlanAt, err : BOOLEAN]
  BY <1>1 DEF IInv, TypeOK
<1>3. TypeOK' /\ ComboPhases' /\ Locking' /\ ResultSoFar' /\ ToleratedSoFar' /\ NeedsMet'
  BY <1>1, <1>2, PlanFrame
<1>4. StageOrder' /\ ErrSoFar' /\ CallerInv' /\ ErrorInv'
  BY <1>1 DEF IInv, StageOrder, ErrSoFar, CallerInv, ErrorInv
<1>5. QED
  BY <1>3, <1>4 DEF IInv

\* Stuttering changes nothing.
LEMMA StutterInv == ASSUME IInv, UNCHANGED vars PROVE IInv'
<1>1. UNCHANGED <<plan, job, combo, mutex, ctx>>
  BY DEF vars
<1>2. plan' \in [stage : Nat, at : PlanAt, err : BOOLEAN] /\ ctx' \in {"live", "cancelled"}
  BY <1>1 DEF IInv, TypeOK
<1>3. TypeOK' /\ ComboPhases' /\ Locking' /\ ResultSoFar' /\ ToleratedSoFar' /\ NeedsMet'
  BY <1>1, <1>2, PlanFrame
<1>4. StageOrder' /\ ErrSoFar' /\ CallerInv' /\ ErrorInv'
  BY <1>1 DEF IInv, StageOrder, ErrSoFar, CallerInv, ErrorInv
<1>5. QED
  BY <1>3, <1>4 DEF IInv

-----------------------------------------------------------------------------
(* The theorems.                                                           *)

\* The invariant holds before the first stage.
LEMMA InitInv == Init => IInv
<1> SUFFICES ASSUME Init PROVE IInv
  OBVIOUS
<1>1. PICK needed \in Conditions :
        job = [j \in Job |-> [at |-> "wait", result |-> "", tolerated |-> "unset",
                              cond |-> IF Needs[j] = {} THEN "success" ELSE needed]]
  BY DEF Init
<1>2. /\ plan = [stage |-> 1, at |-> "enter", err |-> FALSE]
      /\ combo = [c \in Combo |-> [at |-> "wait", out |-> "none", err |-> FALSE, read |-> "", tol |-> "no"]]
      /\ mutex = [j \in Job |-> NoCombo] /\ ctx = "live"
  BY DEF Init
<1>3. needed \in {"success", "always"}
  BY <1>1, PlanAssumption
<1>4. \A j \in Job : job[j].at = "wait" /\ job[j].result = ""
  BY <1>1
<1>5. \A c \in Combo : /\ combo[c].at = "wait" /\ combo[c].out = "none" /\ combo[c].err = FALSE
                       /\ c[1] \in Job
  BY <1>2, ComboFacts
<1>6. TypeOK
  <2>1. job \in [Job -> JobRecord]
    BY <1>1, <1>3 DEF JobRecord
  <2>2. combo \in [Combo -> ComboRecord]
    BY <1>2 DEF ComboRecord, ComboAt, Outs
  <2>3. QED
    BY <1>2, <2>1, <2>2 DEF TypeOK, PlanAt
<1>7. \A j \in Job : Written(j) = {}
  BY <1>5 DEF Written, HasWritten, CombosOf
<1>8. StageOrder
  <2>1. \A j \in Job : StageOf[j] \in 1 .. Cardinality(Job)
    BY PlanAssumption
  <2>2. \A j \in Job : ~(StageOf[j] < 1)
    BY <2>1
  <2>3. QED
    BY <1>2, <1>4, <2>2 DEF StageOrder
<1>9. ComboPhases
  BY <1>4, <1>5 DEF ComboPhases
<1>10. ResultSoFar /\ ToleratedSoFar
  BY <1>4, <1>5, <1>7 DEF ResultSoFar, ToleratedSoFar, Worst, HasWritten, CombosOf
<1>11. Locking /\ ErrSoFar /\ NeedsMet /\ CallerInv /\ ErrorInv
  BY <1>2, <1>5 DEF Locking, ErrSoFar, NeedsMet, CallerInv, ErrorInv, Busy
<1>12. QED
  BY <1>6, <1>8, <1>9, <1>10, <1>11 DEF IInv

\* Every step keeps it.
LEMMA StepInv == IInv /\ [Next]_vars => IInv'
<1> SUFFICES ASSUME IInv, [Next]_vars PROVE IInv'
  OBVIOUS
<1>1. CASE PlanStep
  BY <1>1, EnterStageInv, FinishStageInv, handleFailureInv, CallerResultInv, JobStepInv DEF PlanStep
<1>2. CASE \E c \in Combo : ComboStep(c)
  BY <1>2, ComboStepInv
<1>3. CASE Cancel
  BY <1>3, CancelInv
<1>4. CASE UNCHANGED vars
  BY <1>4, StutterInv
<1>5. QED
  BY <1>1, <1>2, <1>3, <1>4 DEF Next, Ended

\* So it holds in every state of every plan.
LEMMA Invariance == Spec => []IInv
<1>1. QED
  BY InitInv, StepInv, PTL DEF Spec

\* The record of a plan's execution stays well-formed.
THEOREM TypeCorrect == Spec => []TypeOK
<1>1. IInv => TypeOK
  BY DEF IInv
<1>2. QED
  BY <1>1, Invariance, PTL

\* The result of a finished job is the worst of its combinations: setJobResult
\* loses none of them, however many run at once and in whatever order they
\* take the job's mutex.
THEOREM ResultTheorem == Spec => []ResultIsWorst
<1>1. IInv => ResultIsWorst
  <2> SUFFICES ASSUME IInv, NEW j \in Job, job[j].at = "done",
                      "invalid" \notin {combo[c].out : c \in CombosOf(j)}
               PROVE  job[j].result = Worst({combo[c].out : c \in CombosOf(j)})
    BY DEF ResultIsWorst, Worst
  <2>1. \A c \in CombosOf(j) : HasWritten(c)
    BY DEF IInv, ComboPhases, CombosOf, HasWritten
  <2>2. Written(j) = {combo[c].out : c \in CombosOf(j)}
    BY <2>1 DEF Written
  <2>3. ~Invalidated(j)
    BY DEF Invalidated
  <2>4. QED
    BY <2>2, <2>3 DEF IInv, ResultSoFar
<1>2. QED
  BY <1>1, Invariance, PTL

\* A plan ends without an error only when every failure is tolerated and no
\* combination broke, and with one only for a reason.
THEOREM VerdictTheorem == Spec => []VerdictIsRight
<1>1. IInv => VerdictIsRight
  <2> SUFFICES ASSUME IInv, plan.at = "end" PROVE VerdictIsRight
    BY DEF VerdictIsRight
  <2>1. plan.err \in BOOLEAN
    BY DEF IInv, TypeOK
  <2>2. CASE plan.err = TRUE
    BY <2>2 DEF IInv, ErrorInv, VerdictIsRight
  <2>3. CASE plan.err = FALSE
    <3>1. \A c \in Combo : combo[c].err = FALSE
      BY <2>3 DEF IInv, ErrSoFar
    <3>2. \A c \in Combo : combo[c].out \notin {"invalid", "broken", "cancelled"}
      BY <3>1 DEF IInv, ComboPhases
    <3>3. \A c \in Combo : combo[c].out = "failure" => combo[c].tol = "yes"
      BY <2>3 DEF IInv, CallerInv
    <3>4. QED
      BY <2>3, <3>2, <3>3 DEF VerdictIsRight
  <2>4. QED
    BY <2>1, <2>2, <2>3
<1>2. QED
  BY <1>1, Invariance, PTL

\* No combination runs before those of the jobs it needs have returned, and
\* what success() found stays true while it runs.
THEOREM NeedsTheorem == Spec => []NeedsComeFirst
<1>1. IInv => NeedsComeFirst
  <2> SUFFICES ASSUME IInv, NEW c \in Combo, combo[c].at \in Busy \ {"eval"}, NEW k \in Needs[c[1]]
               PROVE  /\ \A d \in CombosOf(k) : combo[d].at = "done"
                      /\ job[c[1]].cond = "success" => job[k].result = "success"
    BY DEF NeedsComeFirst
  <2>1. c[1] \in Job /\ StageOf[c[1]] = plan.stage
    BY ComboFacts, BusyNow
  <2>2. k \in Job /\ StageOf[k] < plan.stage
    BY <2>1, NeedsFacts
  <2>3. job[k].at = "done"
    BY <2>2 DEF IInv, StageOrder
  <2>4. \A d \in CombosOf(k) : combo[d].at = "done"
    BY <2>3 DEF IInv, ComboPhases, CombosOf
  <2>5. job[c[1]].cond = "success" => job[k].result = "success"
    BY DEF IInv, NeedsMet
  <2>6. QED
    BY <2>4, <2>5
<1>2. QED
  BY <1>1, Invariance, PTL

-----------------------------------------------------------------------------
(* The pipeline of one job: the inductive invariant.                       *)

BeforeMain == {"start", "env", "startedHook", "prepare", "pre"}
AfterMark  == {"postContext", "post", "completedHook", "outputs", "teardown"}

\* Where the pipeline stands.
Position ==
    /\ pc \in {"pre", "main", "post"} => step >= 1
    /\ pc \in {"start", "env", "startedHook", "prepare"} => step = 1
    /\ pc \in {"pre", "post"} => step <= StepCount
    /\ phase = "body" => pc = "main" /\ step <= StepCount /\ step \in ran

\* The context steps run on is the job's until an interrupt was recorded.
Detached ==
    /\ jobCtx = "live" <=> endedAt = "never"
    /\ pc \in BeforeMain => scope = "job"
    /\ pc \in {"main", "mark"} /\ scope = "fresh" => jobCtx # "live" /\ Interrupted(jobCtx) \subseteq marks

\* An interrupt that came before the backstop is marked once it has run.
Marked ==
    (pc \in AfterMark \/ result # "none") /\ endedAt \in Working => Interrupted(jobCtx) \subseteq marks

\* Every failure has left a mark.
FaultsMarked ==
    /\ faults # {} => "failed" \in marks
    /\ \A s \in Steps : conclusion[s] = "failure" =>
          s \in stray \/ "failed" \in marks \/ "cancelled" \in marks

\* Only a cancelled context marks the job cancelled.
MarkIsGenuine == "cancelled" \in marks => jobCtx = "cancelled"

\* The result is the one the marks say, and they do not change after it.
ResultOfMarks == result # "none" => pc \in {"close", "done"} /\ result = FinalResult

Contained ==
    /\ pc = "close" => container \in {"removed", "leaked"}
    /\ CleanupAttempted

\* The main steps before the current one are decided, none runs before them.
DecidedSoFar ==
    /\ pc = "main" => \A s \in Steps : s < step => conclusion[s] # "none"
    /\ phase = "body" => conclusion[step] # "none"
    /\ pc \in BeforeMain => ran = {}

\* A step that ran is decided.
RanIsDecided == \A s \in ran : conclusion[s] # "none"

\* A failure is marked only if there was one, or an interruption.
FailedIsGenuine ==
    pc \in BeforeMain \cup {"main"} /\ "failed" \in marks => faults # {} \/ jobCtx # "live"

JobInv ==
    /\ JobTypeOK /\ Position /\ Detached /\ Marked /\ FaultsMarked
    /\ MarkIsGenuine /\ ResultOfMarks /\ Contained /\ DecidedSoFar
    /\ RanIsDecided /\ FailedIsGenuine

-----------------------------------------------------------------------------
\* The invariant holds when the executor of the job is called.
LEMMA JobInitInv == JobInit => JobInv
BY StepCountAssumption
DEF JobInit, JobInv, JobTypeOK, Position, Detached, Marked, FaultsMarked, MarkIsGenuine, ResultOfMarks,
    Contained, CleanupAttempted, DecidedSoFar, RanIsDecided, FailedIsGenuine, BeforeMain,
        AfterMark, Working, Part, Steps,
    StepConditions, Interrupted

\* Every step of the job, and every end of a context, preserves the invariant.
LEMMA JobNextInv == JobInv /\ [JobNext]_jobVars => JobInv'
<1> SUFFICES ASSUME JobInv, [JobNext]_jobVars PROVE JobInv'
  OBVIOUS
<1> USE StepCountAssumption
    DEF JobInv, JobTypeOK, Position, Detached, Marked, FaultsMarked, MarkIsGenuine, ResultOfMarks,
        Contained, CleanupAttempted, DecidedSoFar, RanIsDecided, FailedIsGenuine, BeforeMain,
        AfterMark, Working, Part, Steps,
        StepConditions, history, FinalResult, Interrupted, Here
<1>1. ASSUME NEW end \in Ends, StartContainer(end) PROVE JobInv'
  BY <1>1 DEF StartContainer, CleanupFailedStart
<1>2. ASSUME NEW end \in Ends, EvaluateJobEnv(end) PROVE JobInv'
  BY <1>2 DEF EvaluateJobEnv, Setup, Then, Faulty, ReportStepError, Ends
<1>3. ASSUME NEW end \in Ends, StartedHook(end) PROVE JobInv'
  BY <1>3 DEF StartedHook, Setup, Then, Faulty, ReportStepError, Ends
<1>4. ASSUME NEW end \in Ends, PrepareActions(end) PROVE JobInv'
  BY <1>4 DEF PrepareActions, Setup, Then, Faulty, ReportStepError, Ends
<1>5. ASSUME NEW end \in Ends, PreStep(end) PROVE JobInv'
  BY <1>5 DEF PreStep, Then, Faulty, Reported, ReportStepError, Ends
<1>6. ASSUME NEW end \in Ends, NEW continue \in BOOLEAN, MainEnds(end, continue) PROVE JobInv'
  BY <1>6 DEF MainEnds, AtMainStep, AfterContinueOnError, Reported, ReportStepError, Faulty, Ends
<1>7. ASSUME NEW end \in Ends, PostStep(end) PROVE JobInv'
  BY <1>7 DEF PostStep, Reported, ReportStepError, Faulty, Ends
<1>8. ASSUME NEW end \in Ends, CompletedHook(end) PROVE JobInv'
  BY <1>8 DEF CompletedHook, Setup, Faulty, ReportStepError, Ends
<1>9. ASSUME NEW end \in Ends, JobOutputs(end) PROVE JobInv'
  BY <1>9 DEF JobOutputs, Setup, Faulty, ReportStepError, Ends
<1>10. CASE MainInterrupted
  BY <1>10 DEF MainInterrupted, AtMainStep
<1>11. CASE MainUnevaluated
  BY <1>11 DEF MainUnevaluated, MainEnters, AtMainStep, Reported, ReportStepError
<1>12. CASE MainSkips
  BY <1>12 DEF MainSkips, MainEnters, AtMainStep, IsStepEnabled, Reported, ReportStepError
<1>13. CASE MainRuns
  BY <1>13 DEF MainRuns, MainEnters, AtMainStep
<1>14. CASE MainDone
  BY <1>14 DEF MainDone
<1>15. CASE MarkBackstop
  BY <1>15 DEF MarkBackstop
<1>16. CASE PostStepsContext
  BY <1>16 DEF PostStepsContext
<1>17. CASE Teardown
  BY <1>17 DEF Teardown
<1>18. CASE CloseContainer
  BY <1>18 DEF CloseContainer
<1>19. ASSUME NEW how \in {"cancelled", "expired"}, CtxEnds(how) PROVE JobInv'
  BY <1>19 DEF CtxEnds
<1>20. CASE FreshExpires
  BY <1>20 DEF FreshExpires
<1>21. CASE UNCHANGED jobVars
  BY <1>21 DEF jobVars
<1>22. QED
  BY <1>1, <1>2, <1>3, <1>4, <1>5, <1>6, <1>7, <1>8, <1>9, <1>10, <1>11,
     <1>12, <1>13, <1>14, <1>15, <1>16, <1>17, <1>18, <1>19, <1>20, <1>21 DEF JobNext, Terminated

\* The invariant is one of the specification.
THEOREM JobInvariance == JobSpec => []JobInv
BY JobInitInv, JobNextInv, PTL DEF JobSpec

-----------------------------------------------------------------------------
\* Every variable of a job keeps its type; no loop over the steps leaves their range.
THEOREM JobTypeCorrect == JobSpec => []JobTypeOK
<1>1. JobInv => JobTypeOK
  BY DEF JobInv
<1>2. QED
  BY <1>1, JobInvariance, PTL

\* Whatever fails, the removal of the job's container is attempted.
THEOREM CleanupTheorem == JobSpec => []CleanupAttempted
<1>1. JobInv => CleanupAttempted
  BY DEF JobInv, Contained
<1>2. QED
  BY <1>1, JobInvariance, PTL

\* A cancel before the end of the main steps makes the job cancelled.
THEOREM CancelTheorem == JobSpec => []CancelIsReported
<1>1. JobInv => CancelIsReported
  BY DEF JobInv, Marked, ResultOfMarks, FinalResult, Interrupted, CancelIsReported, JobEnded
<1>2. QED
  BY <1>1, JobInvariance, PTL

\* A job timeout before the end of the main steps makes the job failed.
THEOREM TimeoutTheorem == JobSpec => []TimeoutFails
<1>1. JobInv => TimeoutFails
  BY DEF JobInv, Marked, MarkIsGenuine, ResultOfMarks, FinalResult, Interrupted, TimeoutFails, JobEnded
<1>2. QED
  BY <1>1, JobInvariance, PTL

\* A successful job has no failure in any of its parts.
THEOREM SuccessTheorem == JobSpec => []SuccessIsEarned
<1>1. JobInv => SuccessIsEarned
  BY DEF JobInv, FaultsMarked, ResultOfMarks, FinalResult, SuccessIsEarned, JobEnded
<1>2. QED
  BY <1>1, JobInvariance, PTL

\* Only a cancel of the job's context makes the job cancelled.
THEOREM GenuineTheorem == JobSpec => []CancelledIsGenuine
<1>1. JobInv => CancelledIsGenuine
  BY DEF JobInv, JobTypeOK, MarkIsGenuine, ResultOfMarks, FinalResult, CancelledIsGenuine
<1>2. QED
  BY <1>1, JobInvariance, PTL

\* The main steps are left only when each is decided, or when the setup failed and none ran.
THEOREM DecidedTheorem == JobSpec => EveryStepDecided
<1> DEFINE Leaves ==
       pc # "mark" /\ pc' = "mark" =>
          \/ pc = "prepare" /\ ran' = {}
          \/ \A s \in Steps : conclusion'[s] # "none"
<1>1. ASSUME JobInv, [JobNext]_jobVars PROVE [Leaves]_jobVars
  <2>1. CASE MainDone
    BY <1>1, <2>1, StepCountAssumption DEF JobInv, JobTypeOK, DecidedSoFar, MainDone, history, Steps
  <2>2. CASE pc # "mark" /\ pc' = "mark" /\ ~MainDone
    <3>1. pc = "prepare" /\ ran' = ran
      BY <1>1, <2>2
      DEF JobNext, StartContainer, EvaluateJobEnv, StartedHook, PrepareActions, Setup, Then, PreStep,
          MainEnds, PostStep, CompletedHook, JobOutputs, MainInterrupted, MainUnevaluated,
          MainSkips, MainRuns, MarkBackstop, PostStepsContext, Teardown, CloseContainer,
          CtxEnds, FreshExpires, Terminated, jobVars
    <3>2. QED
      BY <1>1, <3>1 DEF JobInv, DecidedSoFar, BeforeMain
  <2>3. CASE ~(pc # "mark" /\ pc' = "mark")
    BY <2>3
  <2>4. QED
    BY <2>1, <2>2, <2>3
<1>2. QED
  BY <1>1, JobInvariance, PTL DEF JobSpec, EveryStepDecided

\* Where a main step is decided, the status its condition is evaluated with is
\* what the job has come to.
LEMMA StatusIsCourse == ASSUME JobInv, MainEnters PROVE Status = CourseSoFar
<1>1. CASE jobCtx = "live"
  BY <1>1 DEF JobInv, FaultsMarked, FailedIsGenuine, MarkIsGenuine, MainEnters, AtMainStep, Status, CourseSoFar
<1>2. CASE jobCtx = "cancelled"
  BY <1>2 DEF JobInv, Detached, MainEnters, AtMainStep, Interrupted, Status, CourseSoFar
<1>3. CASE jobCtx = "expired"
  BY <1>3 DEF JobInv, Detached, MarkIsGenuine, MainEnters, AtMainStep, Interrupted, Status, CourseSoFar
<1>4. QED
  BY <1>1, <1>2, <1>3 DEF JobInv, JobTypeOK

\* A step runs if and only if its condition fits what the job has come to.
THEOREM ConditionsTheorem == JobSpec => ConditionsRespected
<1> DEFINE Respected ==
       \A s \in Steps : conclusion[s] = "none" /\ conclusion'[s] # "none" /\ s \notin unevaluated' =>
          (s \in ran' <=> cond[s] \in {"always", CourseSoFar})
<1>1. ASSUME JobInv, [JobNext]_jobVars PROVE [Respected]_jobVars
  <2>1. CASE MainRuns
    BY <1>1, <2>1, StatusIsCourse
    DEF MainRuns, MainEnters, AtMainStep, IsStepEnabled, JobInv, JobTypeOK, Steps
  <2>2. CASE MainSkips
    <3>1. \A s \in Steps : conclusion[s] = "none" => s \notin ran
      BY <1>1 DEF JobInv, RanIsDecided
    <3>2. QED
      BY <1>1, <2>2, <3>1, StatusIsCourse
      DEF MainSkips, MainEnters, AtMainStep, IsStepEnabled, JobInv, JobTypeOK, history, Steps
  <2>3. CASE MainUnevaluated
    BY <1>1, <2>3 DEF MainUnevaluated, JobInv, JobTypeOK
  <2>4. ASSUME NEW end \in Ends, NEW continue \in BOOLEAN, MainEnds(end, continue) PROVE Respected
    BY <1>1, <2>4 DEF MainEnds, JobInv, JobTypeOK, DecidedSoFar
  <2>5. CASE /\ ~MainRuns /\ ~MainSkips /\ ~MainUnevaluated
             /\ ~\E end \in Ends : \E continue \in BOOLEAN : MainEnds(end, continue)
    <3>1. conclusion' = conclusion
      BY <1>1, <2>5
      DEF JobNext, StartContainer, EvaluateJobEnv, StartedHook, PrepareActions, Setup, PreStep,
          PostStep, CompletedHook, JobOutputs, MainInterrupted,
          MainDone, MarkBackstop, PostStepsContext, Teardown, CloseContainer,
          CtxEnds, FreshExpires, Terminated, history, jobVars
    <3>2. QED
      BY <3>1
  <2>6. QED
    BY <2>1, <2>2, <2>3, <2>4, <2>5
<1>2. QED
  BY <1>1, JobInvariance, PTL DEF JobSpec, ConditionsRespected

\* Cleanup and result of a finished job are right, for every number of steps.
THEOREM FinishedTheorem == JobSpec => []FinishedJobIsRight
BY CleanupTheorem, CancelTheorem, TimeoutTheorem, SuccessTheorem, GenuineTheorem, PTL
   DEF FinishedJobIsRight

\* Every step is decided, and runs exactly when its condition fits what the job
\* has come to, for every number of steps.
THEOREM StepsTheorem == JobSpec => StepsAsConditioned
BY DecidedTheorem, ConditionsTheorem DEF StepsAsConditioned

=============================================================================
