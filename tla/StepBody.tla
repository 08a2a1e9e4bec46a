------------------------------ MODULE StepBody ------------------------------
(***************************************************************************)
(* The body of a step: what runStepExecutor runs once the step is enabled. *)
(* The command files are emptied, the step's command is prepared and run   *)
(* in the job's environment, its output is copied line by line to the      *)
(* handler of workflow commands, and its command files are read, whatever  *)
(* became of it.                                                           *)
(*                                                                         *)
(* The command, the goroutine that copies its output and the step itself   *)
(* are processes of their own: an interrupted step goes on without them,   *)
(* and a command it left behind writes to the files of later steps.  The   *)
(* environments differ in how they end a command and its output: a         *)
(* container ("docker"), the host ("host") and a pod ("pod").  Lines are   *)
(* the workflow commands they are, or plain text.                          *)
(***************************************************************************)
EXTENDS Naturals, Sequences, FiniteSets

CONSTANTS
    Steps,          \* the steps, in order
    Jobs,           \* [backend, kind, does, acts]: the job environments, the kinds of
                    \* the steps ("script", "node", "container", docker:// too), what
                    \* their commands may do (lines to print, or "write" to a file) and
                    \* how often (a bound)
    Timed,          \* the steps with timeout-minutes
    Files,          \* the command files, in the order they are read
    Allow,          \* whether ACTIONS_ALLOW_UNSECURE_COMMANDS is set
    MaxErrors       \* bound: errors of the environment

Step == {Steps[n] : n \in DOMAIN Steps}
File == {Files[k] : k \in DOMAIN Files}

ASSUME BodyAssumption ==
    /\ Steps \in Seq(Step) /\ \A m, n \in DOMAIN Steps : Steps[m] = Steps[n] => m = n
    /\ "none" \notin Step
    /\ \A j \in Jobs :
        /\ j.backend \in {"docker", "host", "pod"}
        /\ j.kind \in [Step -> {"script", "node", "container"}]
        /\ j.does \in [Step -> SUBSET {"text", "stop", "resume", "output", "setenv", "write"}]
        /\ j.acts \in [Step -> Nat]
    /\ Files \in Seq({"env", "state", "output", "path"}) /\ Files # << >>
    /\ Allow \in BOOLEAN /\ MaxErrors \in Nat

VARIABLES
    job,        \* which of Jobs it is
    at,         \* [n, phase, k, reads]: the step, its phase, the file it reads and how
    ctx, timer, \* the step's context and its timeout
    result,     \* of each step: "none", "success", "error" or "interrupted"
    proc,       \* of each step's command: "none", "running", "held", "exited", "failed", "killed"
    reader,     \* of each step's output: "none", "copying", "stray", "gone"
    printed,    \* of each step: the lines its command printed
    unended,    \* the steps whose last line has no newline
    delivered, handled,     \* how many lines reached the line writer, and its handler
    stopped,    \* the handlers between stop-commands and the resume token
    refusal,    \* unsecureCommandErr: "none" or the step that printed the command
    file,       \* the entries of each command file: [by, no, ok, own]
    writes,     \* of each step's command: how many entries it wrote
    errors,     \* how often the environment has failed
    credited, applied, unread, truncated     \* history

outputVars == <<reader, delivered, handled, stopped, refusal, credited>>
processVars == <<proc, printed, unended, file, writes>>
bookVars == <<errors, applied, unread, truncated>>
vars == <<job, at, ctx, timer, result, bookVars, outputVars, processVars>>

Init ==
    /\ job \in Jobs
    /\ at = [n |-> 1, phase |-> "reset", k |-> 1, reads |-> "step"]
    /\ ctx = "live" /\ timer = "off" /\ errors = 0
    /\ result = [s \in Step |-> "none"] /\ proc = [s \in Step |-> "none"] /\ reader = [s \in Step |-> "none"]
    /\ printed = [s \in Step |-> << >>] /\ unended = {}
    /\ delivered = [s \in Step |-> 0] /\ handled = [s \in Step |-> 0]
    /\ stopped = {} /\ refusal = "none"
    /\ file = [f \in File |-> << >>] /\ writes = [s \in Step |-> 0]
    /\ credited = {} /\ applied = {} /\ unread = {} /\ truncated = {}

backend == job.backend
kind == job.kind
does == job.does

Cur == Steps[at.n]
At(s, phase) == at.n <= Len(Steps) /\ Cur = s /\ at.phase = phase
Goto(phase) == at' = [at EXCEPT !.phase = phase, !.k = 1]
MayErr == errors < MaxErrors
Errs == MayErr /\ errors' = errors + 1

\* The body's context: the step's, or its timeout's.
Interrupted == ctx = "ended" \/ timer = "expired"

\* The host is reached whatever became of the context.
Reached(c) == backend = "host" \/ c = "live"

CtxEnds ==
    /\ ctx = "live" /\ at.n <= Len(Steps) /\ at.phase \in {"reset", "prepare", "exec", "files"} /\ ctx' = "ended"
    /\ unread' = unread \cup IF at.phase = "files" /\ ~Reached("ended") THEN {Cur} \X File ELSE {}
    /\ UNCHANGED <<job, at, timer, result, errors, applied, truncated, outputVars, processVars>>

StepTimesOut ==
    /\ timer = "armed" /\ timer' = "expired"
    /\ UNCHANGED <<job, at, ctx, result, bookVars, outputVars, processVars>>

-----------------------------------------------------------------------------
(* The command.  A command that was left behind goes on writing.           *)

Open(s) == reader[s] = "copying"
MayAct(s) == Len(printed[s]) + writes[s] < job.acts[s]

WriteLine(s) ==
    /\ proc[s] = "running" /\ Open(s) /\ s \notin unended /\ MayAct(s)
    /\ \E l \in does[s] \ {"write"} : printed' = [printed EXCEPT ![s] = Append(@, l)]
    /\ \E last \in BOOLEAN : unended' = IF last THEN unended \cup {s} ELSE unended
    /\ UNCHANGED <<job, at, ctx, timer, result, bookVars, proc, file, writes, outputVars>>

\* An entry is the step's own as long as the step waits for its command; a
\* command that was left behind writes while a later step waits for its own.
WriteFile(s) ==
    /\ proc[s] \in {"running", "held"} /\ "write" \in does[s] /\ MayAct(s) /\ at.n <= Len(Steps) /\ at.phase = "exec"
    /\ writes' = [writes EXCEPT ![s] = @ + 1]
    /\ \E f \in File, ok \in BOOLEAN :
        /\ f = "path" => ok
        /\ file' = [file EXCEPT ![f] = Append(@, [by |-> s, no |-> writes[s] + 1, ok |-> ok, own |-> At(s, "exec")])]
    /\ UNCHANGED <<job, at, ctx, timer, result, bookVars, proc, printed, unended, outputVars>>

\* A command may leave a process behind that holds its output open.
Exit(s) ==
    /\ At(s, "exec") /\ proc[s] \in {"running", "held"}
    /\ \E p \in {"exited", "failed"} \cup IF proc[s] = "running" THEN {"held"} ELSE {} : proc' = [proc EXCEPT ![s] = p]
    /\ UNCHANGED <<job, at, ctx, timer, result, bookVars, printed, unended, file, writes, outputVars>>

-----------------------------------------------------------------------------
(* Workflow commands.                                                      *)

\* The resume token is a command only while commands are stopped.
parseActionCommand(l, s) == IF l = "resume" /\ s \notin stopped THEN "text" ELSE l

\* setOutput and saveState go to the step that is current when they come.
Credit(s, i) == IF at.n <= Len(Steps) THEN {<<s, i, Cur>>} ELSE {}

refuseUnsecureCommand(s) ==
    refusal' = IF Allow \/ refusal # "none" THEN refusal ELSE s

\* The handler of one step's output acts on its commands.
Live(s) == s \notin stopped

\* Mutant: stopping the commands of one step stops those of all.
SharedStop(s, c) == IF c = "stop" /\ stopped = {} THEN Step ELSE IF c = "resume" THEN {} ELSE stopped

StopState(s, c) == IF c = "stop" /\ Live(s) THEN stopped \cup {s} ELSE IF c = "resume" THEN stopped \ {s} ELSE stopped

commandHandler(s, i) ==
    LET c == parseActionCommand(printed[s][i], s) IN
    /\ stopped' = StopState(s, c)
    /\ credited' = credited \cup IF c = "output" /\ Live(s) THEN Credit(s, i) ELSE {}
    /\ IF c = "setenv" /\ Live(s) THEN refuseUnsecureCommand(s) ELSE UNCHANGED refusal

NoHandling == UNCHANGED <<handled, stopped, credited, refusal>>

\* lineWriter.Write: a line without its newline waits in the buffer.
Deliver(s) ==
    LET i == delivered[s] + 1 IN
    /\ reader[s] \in {"copying", "stray"} /\ i <= Len(printed[s])
    /\ delivered' = [delivered EXCEPT ![s] = i]
    /\ IF i = Len(printed[s]) /\ s \in unended THEN NoHandling
       ELSE commandHandler(s, i) /\ handled' = [handled EXCEPT ![s] = i]
    /\ UNCHANGED <<job, at, ctx, timer, result, bookVars, reader, processVars>>

\* Mutant: a last line without its end is dropped.
ForgetsTail(s) == NoHandling

\* lineWriter.Flush: the last line of the output.
Flush(s) ==
    IF delivered[s] = handled[s] THEN NoHandling
    ELSE commandHandler(s, delivered[s]) /\ handled' = [handled EXCEPT ![s] = delivered[s]]

\* copyOutput returns at the end of the stream, or once it was closed.
AtEOF(s) == proc[s] \in {"exited", "failed", "killed"} /\ delivered[s] = Len(printed[s])

copyOutput(s) ==
    /\ reader[s] = "stray" \/ (reader[s] = "copying" /\ backend # "pod" /\ AtEOF(s))
    /\ Flush(s) /\ reader' = [reader EXCEPT ![s] = "gone"]
    /\ UNCHANGED <<job, at, ctx, timer, result, bookVars, delivered, processVars>>

-----------------------------------------------------------------------------
(* Preparation.                                                            *)

\* Mutant: the files are read under the context that ended.
UnderTheSteps == "step"

\* An interrupted step reads its files under a context of its own.
ReadsUnder == IF ctx = "ended" THEN "own" ELSE "step"

\* Copying empty command files; the initial error of the body is theirs.
Emptied == file' = [f \in File |-> << >>]

ResetFiles(s) ==
    /\ At(s, "reset")
    /\ \/ /\ Reached(ctx) /\ Emptied /\ Goto("prepare") /\ UNCHANGED <<result, errors>>
          /\ timer' = IF s \in Timed THEN "armed" ELSE "off"
          /\ refusal' = "none"
       \/ /\ IF Reached(ctx) THEN Errs ELSE UNCHANGED errors
          /\ result' = [result EXCEPT ![s] = "error"] /\ at' = [at EXCEPT !.phase = "clear", !.reads = ReadsUnder]
          /\ UNCHANGED <<file, timer, refusal>>
    /\ UNCHANGED <<job, ctx, applied, unread, truncated, proc, printed, unended, writes, reader, delivered,
                   handled, stopped, credited>>

\* The body ends before its command has started.
Fails(s, e) ==
    /\ result' = [result EXCEPT ![s] = e] /\ Goto("take")
    /\ UNCHANGED <<proc, reader>>

NotStarted(s) == IF Interrupted THEN Fails(s, "interrupted") /\ UNCHANGED errors ELSE Fails(s, "error") /\ Errs

\* Stage n of the preparation of a step of kind k: an evaluation does not heed
\* the context, a call to the environment does.
Stage(s, k, n) ==
    /\ At(s, "prepare") /\ kind[s] = k /\ at.k = n
    /\ UNCHANGED <<job, ctx, timer, applied, unread, truncated, printed, unended, file, writes, delivered, handled,
                   stopped, refusal, credited>>

Passes == at' = [at EXCEPT !.k = @ + 1] /\ UNCHANGED <<result, errors, proc, reader>>
Evaluates(s) == Passes \/ (Fails(s, "error") /\ Errs)
Calls(s) == (~Interrupted /\ Passes) \/ NotStarted(s)

Started(s) ==
    /\ ~Interrupted /\ proc' = [proc EXCEPT ![s] = "running"] /\ reader' = [reader EXCEPT ![s] = "copying"]
    /\ Goto("exec") /\ UNCHANGED <<result, errors>>

\* A script: its shell, its directory, the script itself, which is copied to the
\* job's environment, and its command.
setupShell(s) == Stage(s, "script", 1) /\ Evaluates(s)
setupWorkingDirectory(s) == Stage(s, "script", 2) /\ Evaluates(s)
setupShellCommand(s) == Stage(s, "script", 3) /\ Evaluates(s)
CopyScript(s) == Stage(s, "script", 4) /\ Calls(s)
RunScript(s) == Stage(s, "script", 5) /\ (Started(s) \/ NotStarted(s))

\* A node action: its inputs, its files, copied under the lock of its tree, and
\* its command.
populateEnvsFromInput(s) == Stage(s, "node", 1) /\ Evaluates(s)
maybeCopyToActionDir(s) == Stage(s, "node", 2) /\ Calls(s)
runAction(s) == Stage(s, "node", 3) /\ (Started(s) \/ NotStarted(s))

\* A container: a pod runs none.  The image is looked for, the environment and
\* the entrypoint evaluated, the image built unless it was found, or pulled; a
\* container of that name is removed, the new one created, attached to and
\* started.
errKubernetesDocker(s) == Stage(s, "container", 1) /\ backend = "pod" /\ Fails(s, "error") /\ UNCHANGED errors
dockerActionImage(s) == Stage(s, "container", 1) /\ backend # "pod" /\ Calls(s)
evalDockerEnv(s) == Stage(s, "container", 2) /\ Evaluates(s)
dockerEntrypoint(s) == Stage(s, "container", 3) /\ Evaluates(s)
buildImage(s) == Stage(s, "container", 4) /\ Calls(s)
pullImage(s) == Stage(s, "container", 5) /\ Calls(s)
newStepContainer(s) == Stage(s, "container", 6) /\ Calls(s)
attach(s) == Stage(s, "container", 7) /\ (Started(s) \/ NotStarted(s))

Preparation(s) ==
    \/ setupShell(s) \/ setupWorkingDirectory(s) \/ setupShellCommand(s) \/ CopyScript(s) \/ RunScript(s)
    \/ populateEnvsFromInput(s) \/ maybeCopyToActionDir(s) \/ runAction(s)
    \/ errKubernetesDocker(s) \/ dockerActionImage(s) \/ evalDockerEnv(s) \/ dockerEntrypoint(s) \/ buildImage(s)
    \/ pullImage(s) \/ newStepContainer(s) \/ attach(s)

-----------------------------------------------------------------------------
(* The end of the command.                                                 *)

Own(s) == kind[s] = "container"
InJob(s, b) == At(s, "exec") /\ ~Own(s) /\ backend = b

ExitOf(s) == IF proc[s] \in {"exited", "held"} THEN "success" ELSE "error"

Returns(s, e) ==
    /\ result' = [result EXCEPT ![s] = e] /\ Goto("take")
    /\ UNCHANGED <<job, ctx, timer, applied, unread, proc, printed, unended, file, writes, delivered>>

\* The step goes on while its output is still being copied.
LeavesReader(s) ==
    /\ reader' = [reader EXCEPT ![s] = IF @ = "gone" THEN @ ELSE "stray"]
    /\ truncated' = IF reader[s] = "gone" THEN truncated ELSE truncated \cup {s}

\* Exec in a container: the output has ended; the exit code is asked for.
exec(s) ==
    /\ InJob(s, "docker") /\ reader[s] = "gone" /\ ~Interrupted
    /\ \/ Returns(s, ExitOf(s)) /\ UNCHANGED errors
       \/ Returns(s, "error") /\ Errs
    /\ UNCHANGED <<reader, truncated>> /\ NoHandling

\* Mutant: an interrupted step waits for its output to end.
OutputHasEnded(s) == reader[s] = "gone"

\* After an interruption the output is drained, for a grace period only.
DrainEnds(s) == TRUE

waitForCommand(s) ==
    /\ InJob(s, "docker") /\ Interrupted /\ DrainEnds(s)
    /\ Returns(s, "interrupted") /\ LeavesReader(s)
    /\ UNCHANGED errors /\ NoHandling

\* The container of a step: its exit, then the rest of its output, which is
\* given up only when its stream is stuck; or the interruption, which closes
\* the output and leaves the container running.
attachDone(s) == reader[s] = "gone"

wait(s) ==
    /\ At(s, "exec") /\ Own(s)
    /\ \/ proc[s] \in {"exited", "failed"} /\ attachDone(s) /\ Returns(s, ExitOf(s)) /\ UNCHANGED <<errors, reader, truncated>>
       \/ proc[s] \in {"exited", "failed"} /\ ~attachDone(s) /\ Returns(s, ExitOf(s)) /\ Errs /\ LeavesReader(s)
       \/ Interrupted /\ Returns(s, "interrupted") /\ UNCHANGED errors /\ LeavesReader(s)
    /\ NoHandling

\* A command on the host is killed with its process group.
Kill(s) ==
    /\ InJob(s, "host") /\ Interrupted /\ proc[s] \in {"running", "held"}
    /\ proc' = [proc EXCEPT ![s] = "killed"]
    /\ UNCHANGED <<job, at, ctx, timer, result, bookVars, printed, unended, file, writes, outputVars>>

\* Its output is waited for, a while only if a process it left holds it open:
\* what the command itself printed has come by then.
HostExec(s) ==
    /\ InJob(s, "host")
    /\ \/ /\ reader[s] = "gone" /\ UNCHANGED reader /\ NoHandling
          /\ Returns(s, IF Interrupted /\ proc[s] # "exited" THEN "interrupted" ELSE ExitOf(s))
       \/ /\ proc[s] = "held" /\ reader[s] = "copying" /\ ~Interrupted /\ delivered[s] = Len(printed[s])
          /\ Flush(s) /\ reader' = [reader EXCEPT ![s] = "gone"]
          /\ Returns(s, "success")
    /\ UNCHANGED <<errors, truncated>>

\* Exec in a pod reads the frames itself: up to the exit status, or the end of
\* the context or of the connection.  What was read is flushed.
PodExec(s) ==
    /\ InJob(s, "pod") /\ reader[s] = "copying"
    /\ Flush(s) /\ reader' = [reader EXCEPT ![s] = "gone"]
    /\ \/ AtEOF(s) /\ ~Interrupted /\ Returns(s, ExitOf(s)) /\ UNCHANGED <<errors, truncated>>
       \/ /\ IF Interrupted THEN UNCHANGED errors ELSE Errs
          /\ Returns(s, IF Interrupted THEN "interrupted" ELSE "error")
          /\ truncated' = truncated \cup {s}

-----------------------------------------------------------------------------
(* After the command.                                                      *)

\* runWithCommands: a refused command fails a body that has not failed.
takeUnsecureCommandError(s) ==
    /\ At(s, "take")
    /\ at' = [at EXCEPT !.phase = "files", !.reads = ReadsUnder]
    /\ result' = [result EXCEPT ![s] = IF @ = "success" /\ refusal # "none" THEN "error" ELSE @]
    /\ refusal' = "none"
    /\ UNCHANGED <<job, ctx, timer, bookVars, processVars, reader, delivered, handled, stopped, credited>>

\* The entries of a file before the first that is malformed.
Entries(f) == {i \in DOMAIN file[f] : \A j \in 1 .. i : file[f][j].ok}

Readable == at.reads = "own" \/ Reached(ctx)

Failed(s) == result' = [result EXCEPT ![s] = IF @ = "success" THEN "error" ELSE @]

\* A file of variables that cannot be fetched counts as empty, the file of
\* paths as an error; so does a file that is cut off.
ReadFile(s) ==
    LET f == Files[at.k] IN
    /\ At(s, "files")
    /\ IF at.k < Len(Files) THEN at' = [at EXCEPT !.k = @ + 1] ELSE Goto("clear")
    /\ \/ /\ Readable
          /\ applied' = applied \cup {file[f][i] : i \in Entries(f)}
          /\ IF Entries(f) = DOMAIN file[f] THEN UNCHANGED result ELSE Failed(s)
          /\ UNCHANGED <<errors, unread>>
       \/ /\ IF Readable THEN Errs ELSE UNCHANGED errors
          /\ unread' = unread \cup IF Readable THEN {<<s, f>>} ELSE {}
          /\ IF f = "path" THEN Failed(s) ELSE UNCHANGED result
          /\ UNCHANGED applied
       \/ /\ Readable /\ Errs /\ unread' = unread \cup {<<s, f>>} /\ Failed(s)
          /\ \E n \in DOMAIN file[f] : applied' = applied \cup {file[f][i] : i \in Entries(f) \cap (1 .. n - 1)}
    /\ UNCHANGED <<job, ctx, timer, truncated, processVars, outputVars>>

\* The files are emptied once more, which may fail, the writer of the job gives
\* up what it still holds, as its reader would, and the next step has a context
\* that has not ended.  What can no longer matter is forgotten: the history of
\* the step, and its output and its command unless they were left behind.
Gone(s) == reader[s] # "stray"
Left(s) == proc[s] \in {"running", "held"}

NextStep(s) ==
    /\ At(s, "clear") /\ (Own(s) \/ delivered[s] = handled[s])
    /\ \/ Readable /\ Emptied /\ UNCHANGED errors
       \/ UNCHANGED file /\ IF Readable THEN Errs ELSE UNCHANGED errors
    /\ at' = [n |-> at.n + 1, phase |-> "reset", k |-> 1, reads |-> "step"]
    /\ ctx' = "live" /\ timer' = "off"
    /\ proc' = [proc EXCEPT ![s] = IF Left(s) THEN "running" ELSE "none"]
    /\ writes' = [writes EXCEPT ![s] = IF ~Left(s) THEN 0 ELSE IF Gone(s) THEN @ + Len(printed[s]) ELSE @ + delivered[s]]
    /\ IF Gone(s) THEN printed' = [printed EXCEPT ![s] = << >>] /\ reader' = [reader EXCEPT ![s] = "none"]
       ELSE printed' = [printed EXCEPT ![s] = SubSeq(@, delivered[s] + 1, Len(@))] /\ UNCHANGED reader
    /\ unended' = IF Gone(s) \/ delivered[s] = Len(printed[s]) THEN unended \ {s} ELSE unended
    /\ stopped' = IF Gone(s) THEN stopped \ {s} ELSE stopped
    /\ delivered' = [delivered EXCEPT ![s] = 0] /\ handled' = [handled EXCEPT ![s] = 0]
    /\ result' = [result EXCEPT ![s] = "none"] /\ credited' = {} /\ applied' = {} /\ unread' = {}
    /\ UNCHANGED <<job, truncated, refusal>>

Done == at.n > Len(Steps) /\ UNCHANGED vars

Command(s) == WriteLine(s) \/ WriteFile(s) \/ Exit(s)
Copying(s) == Deliver(s) \/ copyOutput(s)
Body(s) ==
    \/ ResetFiles(s) \/ Preparation(s) \/ exec(s) \/ waitForCommand(s) \/ wait(s) \/ Kill(s) \/ HostExec(s) \/ PodExec(s)
    \/ takeUnsecureCommandError(s) \/ ReadFile(s) \/ NextStep(s)

Next ==
    \/ CtxEnds \/ StepTimesOut \/ Done
    \/ \E s \in Step : Command(s) \/ Copying(s) \/ Body(s)

\* Commands may run for ever; what copies and waits does not.
Fairness == \A s \in Step : WF_vars(Copying(s)) /\ WF_vars(Body(s))

Spec == Init /\ [][Next]_vars /\ Fairness

-----------------------------------------------------------------------------
(* Properties.                                                             *)

Over(s) == At(s, "clear")
StoppedAt(s, i) == \E j \in 1 .. i - 1 : printed[s][j] = "stop" /\ \A k \in j + 1 .. i - 1 : printed[s][k] # "resume"
Acts(s, i, c) == printed[s][i] = c /\ ~StoppedAt(s, i)

\* A step whose command ended by itself ends only when all its output has been
\* handled, its last line without newline included.  Excepted are the steps in
\* `truncated`: interrupted before their output was at its end, run in a
\* container that exited while its stream stayed stuck, or in a pod whose
\* connection broke.
OutputIsComplete ==
    \A s \in Step : (Over(s) /\ s \notin truncated) => handled[s] = Len(printed[s])

\* Workflow commands act where and when they should: an output goes to the step
\* that printed it, nothing acts between stop-commands and its token or because
\* of an earlier step's, and a refused command fails its own step and no other.
\* The lines of a truncated step may come late or not at all: what they set is
\* then not credited, or not to it, and a refusal among them may fail another.
CommandsObeyed ==
    /\ \A c \in credited : c[1] \notin truncated => c[3] = c[1] /\ Acts(c[1], c[2], "output")
    /\ \A s \in Step : (Over(s) /\ s \notin truncated) => \A i \in DOMAIN printed[s] :
        /\ Acts(s, i, "output") => <<s, i, s>> \in credited
        /\ Acts(s, i, "setenv") /\ ~Allow => result[s] # "success"
    /\ \A s \in Step : (Over(s) /\ result[s] = "error" /\ errors = 0 /\ truncated = {}) =>
        \/ proc[s] \in {"none", "failed"} \/ \E i \in DOMAIN printed[s] : printed[s][i] = "setenv"
        \/ (\E t \in Step : writes[t] > 0) \/ (\E f \in File : <<s, f>> \in unread)

\* What a step's command wrote to the command files while the step waited for
\* it is applied, to that step and no other, whatever became of the step; only
\* a file that could not be read or a malformed entry before it prevents it.
FilesAppliedOnce ==
    \A s \in Step : Over(s) =>
        /\ \A e \in applied : e.own => e.by = s
        /\ \A f \in File : \A i \in Entries(f) :
            file[f][i].own /\ file[f][i].by = s /\ <<s, f>> \notin unread => file[f][i] \in applied

\* A step that is cancelled or times out ends, even if its command does not.
InterruptedStepEnds ==
    \A n \in DOMAIN Steps : (at.n = n /\ Interrupted) ~> (at.n > n)
=============================================================================
