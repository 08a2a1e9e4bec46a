------------------------------ MODULE Reporter ------------------------------
(***************************************************************************)
(* The reporter of one task (internal/pkg/report/reporter.go): the job     *)
(* goroutine buffers log rows, state changes and outputs, a daemon         *)
(* goroutine reports them while the job runs, and Close flushes what is    *)
(* left, whatever happened to the daemon, to the context and to the        *)
(* server.  Every RPC is made under clientM, so one is in flight at most.  *)
(*                                                                         *)
(* Log rows are numbered in the order they are appended.  The server is    *)
(* external and modelled from the use reporter.go makes of its answers: it *)
(* takes rows by index, may take only some of them, may lose a tail, may   *)
(* see a request after the runner gave up on it, and ignores NoMore on a   *)
(* request without rows.  How rows and results are attributed to steps is  *)
(* not part of this module.                                                *)
(***************************************************************************)
EXTENDS Integers, Sequences, FiniteSets

CONSTANTS
    Outputs,       \* keys of job outputs
    LogBatchSize,  \* runner.log_report_batch_size
    Attempts,      \* attempts of flushFinal, 10 in the code
    MaxRecords,    \* bound: log records the job handles
    MaxRows,       \* bound: rows the job appends before Close
    MaxLate,       \* bound: requests delayed beyond their timeout at a time
    LogLoss,       \* whether the server may lose rows it acknowledged
    JobResults,    \* results the job may log
    Verdicts,      \* decisions the server may take about the task
    Endings        \* how the task context may end: "cancelled", "expired"

ASSUME OutputsAssumption == IsFiniteSet(Outputs)
ASSUME AttemptsAssumption == Attempts \in Nat \ {0}
ASSUME BatchAssumption == LogBatchSize \in Nat
ASSUME BoundsAssumption ==
    MaxRecords \in Nat /\ MaxRows \in Nat /\ MaxLate \in Nat /\ LogLoss \in BOOLEAN
ASSUME ScopeAssumption ==
    /\ JobResults \subseteq {"success", "failure", "cancelled"}
    /\ Verdicts \subseteq {"failure", "cancelled"}
    /\ Endings \subseteq {"cancelled", "expired"}

VARIABLES
    job,           \* where Runner.Run's goroutine is
    appended,      \* number of rows appended so far
    logRows, logOffset,
    ver,           \* number of records handled, the version of the task state
    stateChanged,
    outputs,
    result,        \* state.Result
    serverResult,
    ctx,           \* the task context
    heartbeats,    \* "off" once heartbeatStop is closed
    daemon,        \* where runDaemonLoop is
    logNotify, stateNotify,  \* the two channels with room for one signal
    reported,      \* whether lastReportedAtNanos is set
    holder,        \* who holds clientM, with an RPC in flight
    reply,         \* what became of that RPC
    ack, verdict,  \* AckIndex, or State.Result, of the answer
    logReq, stateReq,  \* the request in flight
    attempt,       \* attempts of the current flushFinal so far
    logFlush, stateFlush,  \* outcomes of the two flushFinal calls
    daemonAck,     \* how Close's wait for the daemon ended
    closeMark,     \* rows that existed when Close marked the reporter closed
    srvLog, srvArchived, srvLost, late,
    srvSeen, srvOuts, srvResult, srvVerdict

jobVars    == <<job, attempt, logFlush, stateFlush, daemonAck, closeMark>>
rowVars    == <<appended, logRows, logOffset>>
stateVars  == <<ver, stateChanged, outputs, result, serverResult>>
daemonVars == <<daemon, reported>>
notifyVars == <<logNotify, stateNotify>>
rpcVars    == <<holder, reply, ack, verdict, logReq, stateReq>>
srvLogVars == <<srvLog, srvArchived, srvLost, late>>
srvVars    == <<srvSeen, srvOuts, srvResult, srvVerdict>>

vars == <<jobVars, rowVars, stateVars, ctx, heartbeats, daemonVars, notifyVars, rpcVars,
          srvLogVars, srvVars>>

-----------------------------------------------------------------------------
JobPc    == {"running", "outputs", "script", "closing", "waiting", "sentinel",
             "flushLog", "flushState", "done"}
DaemonPc == {"select", "logIf", "logAlways", "state", "check", "exited"}
Final    == {"success", "failure", "cancelled"}
Result   == Final \cup {"unspecified"}
Outcome  == {"todo", "ok", "failed"}
YesNo    == {"yes", "no"}

LogRequest   == [by : {"daemon", "closer"}, index : Nat, rows : Seq(Nat)]
StateRequest == [ver : Nat, outs : SUBSET Outputs]

NoLogReq   == [by |-> "daemon", index |-> 0, rows |-> <<>>]
NoStateReq == [ver |-> 0, outs |-> {}]

TypeOK ==
    /\ job \in JobPc /\ attempt \in 0..Attempts
    /\ logFlush \in Outcome /\ stateFlush \in Outcome
    /\ daemonAck \in {"none", "acknowledged", "timeout"} /\ closeMark \in Nat
    /\ appended \in Nat /\ logRows \in Seq(Nat) /\ logOffset \in Nat
    /\ ver \in Nat /\ stateChanged \in YesNo
    /\ outputs \in [Outputs -> {"unset", "pending", "sent"}]
    /\ result \in Result /\ serverResult \in Result
    /\ ctx \in {"live", "cancelled", "expired"} /\ heartbeats \in {"on", "off"}
    /\ daemon \in DaemonPc /\ reported \in YesNo
    /\ logNotify \in {"empty", "full"} /\ stateNotify \in {"empty", "full"}
    /\ holder \in {"free", "daemon", "closer"} /\ reply \in {"waiting", "answered"}
    /\ ack \in Nat /\ verdict \in Result
    /\ logReq \in LogRequest /\ stateReq \in StateRequest
    /\ srvLog \in Seq(Nat) /\ srvArchived \in YesNo /\ srvLost \in YesNo
    /\ late \subseteq LogRequest
    /\ srvSeen \in Nat /\ srvOuts \subseteq Outputs
    /\ srvResult \in Result /\ srvVerdict \in Result

Init ==
    /\ job = "running" /\ attempt = 0 /\ logFlush = "todo" /\ stateFlush = "todo"
    /\ daemonAck = "none" /\ closeMark = 0
    /\ appended = 0 /\ logRows = <<>> /\ logOffset = 0
    /\ ver = 0 /\ stateChanged = "no" /\ outputs = [k \in Outputs |-> "unset"]
    /\ result = "unspecified" /\ serverResult = "unspecified"
    /\ ctx = "live" /\ heartbeats = "on"
    /\ daemon = "select" /\ reported = "no"
    /\ logNotify = "empty" /\ stateNotify = "empty"
    /\ holder = "free" /\ reply = "waiting" /\ ack = 0 /\ verdict = "unspecified"
    /\ logReq = NoLogReq /\ stateReq = NoStateReq
    /\ srvLog = <<>> /\ srvArchived = "no" /\ srvLost = "no" /\ late = {}
    /\ srvSeen = 0 /\ srvOuts = {} /\ srvResult = "unspecified" /\ srvVerdict = "unspecified"

\* The flag `closed`, set by Close.
Closed == job \in {"waiting", "sentinel", "flushLog", "flushState", "done"}

LogCall   == \/ holder = "daemon" /\ daemon \in {"logIf", "logAlways"}
             \/ holder = "closer" /\ job = "flushLog"
StateCall == \/ holder = "daemon" /\ daemon = "state"
             \/ holder = "closer" /\ job = "flushState"

Unsent == {k \in Outputs : outputs[k] = "pending"}

-----------------------------------------------------------------------------
(* Rows and records.                                                       *)

AppendLogRow ==
    /\ logRows' = Append(logRows, appended + 1)
    /\ appended' = appended + 1
    /\ UNCHANGED logOffset

AppendIf(row) == IF row THEN AppendLogRow ELSE UNCHANGED rowVars

\* unlockAndNotify: a full channel keeps its one signal.
UnlockAndNotify(urgent) ==
    /\ logNotify' = "full"
    /\ stateNotify' = IF urgent THEN "full" ELSE stateNotify

\* Handle, for any record but the one with the job's result.  A goroutine of
\* the job may still log while, and after, Close runs.
Handle(row, urgent) ==
    /\ job # "done" /\ ver < MaxRecords /\ (row => appended < MaxRows)
    /\ ver' = ver + 1 /\ stateChanged' = "yes"
    /\ AppendIf(row)
    /\ UnlockAndNotify(urgent)
    /\ UNCHANGED <<jobVars, outputs, result, serverResult, ctx, heartbeats, daemonVars, rpcVars,
                   srvLogVars, srvVars>>

\* Handle, for the record with the job's result.
HandleJobResult(res, row) ==
    /\ job = "running" /\ result = "unspecified"
    /\ ver < MaxRecords /\ (row => appended < MaxRows)
    /\ ver' = ver + 1 /\ stateChanged' = "yes"
    /\ result' = res
    /\ AppendIf(row)
    /\ UnlockAndNotify(TRUE)
    /\ UNCHANGED <<jobVars, outputs, serverResult, ctx, heartbeats, daemonVars, rpcVars,
                   srvLogVars, srvVars>>

\* Logf buffers a row and wakes nobody.
Logf ==
    /\ job = "running" /\ appended < MaxRows
    /\ AppendLogRow
    /\ UNCHANGED <<jobVars, stateVars, ctx, heartbeats, daemonVars, notifyVars, rpcVars,
                   srvLogVars, srvVars>>

-----------------------------------------------------------------------------
(* The task's goroutine: Runner.run up to Close.                           *)

\* The executor returned; an output that is too long or may hold a secret is
\* ignored, with a row about it when no step is running.
SetOutputs(accepted, row) ==
    /\ job = "running"
    /\ row => accepted # Outputs /\ appended < MaxRows
    /\ job' = "outputs"
    /\ outputs' = [k \in Outputs |->
                     IF k \in accepted /\ outputs[k] = "unset" THEN "pending" ELSE outputs[k]]
    /\ AppendIf(row)
    /\ UNCHANGED <<attempt, logFlush, stateFlush, daemonAck, closeMark, ver, stateChanged, result,
                   serverResult, ctx, heartbeats, daemonVars, notifyVars, rpcVars, srvLogVars, srvVars>>

\* The workspace is removed, then StopHeartbeats and the post-task script.
StopHeartbeats ==
    /\ job = "outputs"
    /\ job' = "script" /\ heartbeats' = "off"
    /\ UNCHANGED <<attempt, logFlush, stateFlush, daemonAck, closeMark, rowVars, stateVars, ctx,
                   daemonVars, notifyVars, rpcVars, srvLogVars, srvVars>>

\* The script ended or was killed; or run failed, or panicked, on its way.
RunReturns ==
    /\ job \in {"running", "script"}
    /\ job' = "closing"
    /\ UNCHANGED <<attempt, logFlush, stateFlush, daemonAck, closeMark, rowVars, stateVars, ctx,
                   heartbeats, daemonVars, notifyVars, rpcVars, srvLogVars, srvVars>>

-----------------------------------------------------------------------------
(* Close.                                                                  *)

\* The result of a task that has none of its own.
ClosingResult ==
    CASE serverResult # "unspecified" -> serverResult
      [] serverResult = "unspecified" /\ ctx = "cancelled" -> "cancelled"
      [] OTHER -> "failure"

\* Mutant: Close does not wake the daemon.
CloseMarkSilent(words) ==
    /\ job = "closing"
    /\ job' = "waiting"
    /\ result' = IF result = "unspecified" THEN ClosingResult ELSE result
    /\ AppendIf(result = "unspecified" \/ words)
    /\ closeMark' = appended'
    /\ UNCHANGED <<attempt, logFlush, stateFlush, daemonAck, ver, stateChanged, outputs,
                   serverResult, ctx, heartbeats, daemonVars, notifyVars, rpcVars, srvLogVars, srvVars>>

\* Close up to its wait; words is whether run returned an error to log.
CloseMark(words) ==
    /\ job = "closing"
    /\ job' = "waiting"
    /\ result' = IF result = "unspecified" THEN ClosingResult ELSE result
    /\ AppendIf(result = "unspecified" \/ words)
    /\ closeMark' = appended'
    /\ logNotify' = "full"
    /\ UNCHANGED <<attempt, logFlush, stateFlush, daemonAck, ver, stateChanged, outputs,
                   serverResult, ctx, heartbeats, daemonVars, stateNotify, rpcVars, srvLogVars, srvVars>>

\* The daemon acknowledged, or daemonWait ran out.
CloseWait(how) ==
    /\ job = "waiting"
    /\ how = "acknowledged" => daemon = "exited"
    /\ job' = "sentinel" /\ daemonAck' = how
    /\ UNCHANGED <<attempt, logFlush, stateFlush, closeMark, rowVars, stateVars, ctx, heartbeats,
                   daemonVars, notifyVars, rpcVars, srvLogVars, srvVars>>

\* An empty buffer gets a row for the request with NoMore.
CloseSentinel ==
    /\ job = "sentinel"
    /\ job' = "flushLog"
    /\ AppendIf(Len(logRows) = 0)
    /\ UNCHANGED <<attempt, logFlush, stateFlush, daemonAck, closeMark, stateVars, ctx, heartbeats,
                   daemonVars, notifyVars, rpcVars, srvLogVars, srvVars>>

\* What a flushFinal ends with, and where Close goes from there.
FlushEnds(outcome) ==
    /\ attempt' = 0
    /\ \/ /\ job = "flushLog"
          /\ job' = "flushState" /\ logFlush' = outcome /\ UNCHANGED stateFlush
       \/ /\ job = "flushState"
          /\ job' = "done" /\ stateFlush' = outcome /\ UNCHANGED logFlush
    /\ UNCHANGED <<daemonAck, closeMark>>

FlushRetries ==
    /\ attempt' = attempt + 1
    /\ UNCHANGED <<job, logFlush, stateFlush, daemonAck, closeMark>>

\* The last attempt failed, or the budget ran out during the backoff.
FlushGivesUp ==
    /\ holder # "closer" /\ attempt >= 1
    /\ FlushEnds("failed")
    /\ UNCHANGED <<rowVars, stateVars, ctx, heartbeats, daemonVars, notifyVars, rpcVars,
                   srvLogVars, srvVars>>

-----------------------------------------------------------------------------
(* reportLog and ReportState, called by the daemon loop or by Close.       *)

\* Who may call: the daemon at this point of its loop, Close at this one of its.
Caller(by, at, phase) ==
    \/ by = "daemon" /\ daemon = at
    \/ by = "closer" /\ job = phase /\ attempt < Attempts

\* Mutant: the request carries no offset.
SendLogFromStart(by) ==
    /\ holder = "free"
    /\ \E at \in {"logIf", "logAlways"} : Caller(by, at, "flushLog")
    /\ by = "daemon" => Len(logRows) > 0
    /\ holder' = by /\ reply' = "waiting"
    /\ logReq' = [by |-> by, index |-> 0, rows |-> logRows]
    /\ UNCHANGED <<jobVars, rowVars, stateVars, ctx, heartbeats, daemonVars, notifyVars, ack, verdict,
                   stateReq, srvLogVars, srvVars>>

\* reportLog up to its RPC, with the rows and the offset read under clientM.
SendLog(by) ==
    /\ holder = "free"
    /\ \E at \in {"logIf", "logAlways"} : Caller(by, at, "flushLog")
    /\ by = "daemon" => Len(logRows) > 0
    /\ holder' = by /\ reply' = "waiting"
    /\ logReq' = [by |-> by, index |-> logOffset, rows |-> logRows]
    /\ UNCHANGED <<jobVars, rowVars, stateVars, ctx, heartbeats, daemonVars, notifyVars, ack, verdict,
                   stateReq, srvLogVars, srvVars>>

\* The result in a state report: RunDaemon never reports it.
RequestResult(by) == IF by = "closer" THEN result ELSE "unspecified"

\* ReportState up to its RPC: the snapshot consumes stateChanged.  The outputs
\* are collected a moment earlier; one set in between goes with the next call.
SendState(by) ==
    /\ holder = "free"
    /\ Caller(by, "state", "flushState")
    /\ holder' = by /\ reply' = "waiting"
    /\ stateReq' = [ver |-> ver, outs |-> Unsent]
    /\ stateChanged' = "no"
    /\ UNCHANGED <<jobVars, rowVars, ver, outputs, result, serverResult, ctx, heartbeats, daemonVars,
                   notifyVars, ack, verdict, logReq, srvLogVars, srvVars>>

\* The RPC is over, whatever its outcome.
Unlock ==
    /\ holder' = "free" /\ reply' = "waiting" /\ ack' = 0 /\ verdict' = "unspecified"
    /\ logReq' = NoLogReq /\ stateReq' = NoStateReq

\* The daemon's next step after a log report that took rows, or did not.
AfterLog(took) == IF daemon = "logAlways" \/ took THEN "state" ELSE "check"

DaemonMoves(to) == daemon' = to /\ UNCHANGED <<reported, jobVars>>

\* An answer older than the offset: "submitted logs are lost".
LogsLost == ack < logOffset

Submitted == logOffset + Len(logReq.rows)

\* Mutant: whatever was submitted counts as acknowledged.
AckedSubmitted == Submitted

\* A server can acknowledge beyond what it was sent.
Acked == IF ack < Submitted THEN ack ELSE Submitted

\* reportLog after its answer.
LogAnswered ==
    /\ LogCall /\ reply = "answered"
    /\ IF LogsLost
       THEN UNCHANGED rowVars
       ELSE /\ logRows' = SubSeq(logRows, Acked - logOffset + 1, Len(logRows))
            /\ logOffset' = Acked
            /\ UNCHANGED appended
    /\ \/ /\ holder = "daemon"
          /\ DaemonMoves(AfterLog(~LogsLost /\ Acked > logOffset))
       \/ /\ holder = "closer"
          /\ IF LogsLost \/ Acked < Submitted THEN FlushRetries ELSE FlushEnds("ok")
          /\ UNCHANGED daemonVars
    /\ Unlock
    /\ UNCHANGED <<stateVars, ctx, heartbeats, notifyVars, srvLogVars, srvVars>>

\* The server's decision is kept and cancels the task.
AdoptVerdict ==
    IF verdict = "unspecified"
    THEN UNCHANGED <<serverResult, ctx>>
    ELSE serverResult' = verdict /\ ctx' = IF ctx = "live" THEN "cancelled" ELSE ctx

OutputsTaken == Unsent \subseteq srvOuts

\* ReportState after its answer; outputs the server did not take are an error.
StateAnswered ==
    /\ StateCall /\ reply = "answered"
    /\ outputs' = [k \in Outputs |->
                     IF k \in srvOuts /\ outputs[k] # "unset" THEN "sent" ELSE outputs[k]]
    /\ AdoptVerdict
    /\ reported' = "yes"
    /\ \/ /\ holder = "daemon"
          /\ daemon' = "check" /\ UNCHANGED jobVars
       \/ /\ holder = "closer"
          /\ IF OutputsTaken THEN FlushEnds("ok") ELSE FlushRetries
          /\ UNCHANGED daemon
    /\ Unlock
    /\ UNCHANGED <<rowVars, ver, stateChanged, result, heartbeats, notifyVars, srvLogVars,
                   srvVars>>

\* Mutant: a failed state report is forgotten.
FailedStateForgotten == UNCHANGED stateChanged

\* A failed state report leaves its changes to be reported.
FailedState == stateChanged' = IF StateCall THEN "yes" ELSE stateChanged

\* The RPC failed: its timeout, the end of its context, or any other error.
\* A log request on its way may still reach the server later.
RpcFailed ==
    /\ holder # "free"
    /\ \/ UNCHANGED late
       \/ /\ LogCall /\ reply = "waiting" /\ Cardinality(late) < MaxLate
          /\ late' = late \cup {logReq}
    /\ FailedState
    /\ \/ holder = "daemon" /\ DaemonMoves(IF LogCall THEN AfterLog(FALSE) ELSE "check")
       \/ holder = "closer" /\ FlushRetries /\ UNCHANGED daemonVars
    /\ Unlock
    /\ UNCHANGED <<rowVars, ver, outputs, result, serverResult, ctx, heartbeats, notifyVars,
                   srvLog, srvArchived, srvLost, srvVars>>

-----------------------------------------------------------------------------
(* runDaemonLoop.                                                          *)

DaemonSelects(to) ==
    /\ daemon = "select"
    /\ daemon' = to
    /\ UNCHANGED <<jobVars, rowVars, stateVars, ctx, heartbeats, reported, rpcVars, srvLogVars, srvVars>>

\* logTicker, or maxLatencyTimer, which only makes a report earlier.
LogTick   == DaemonSelects("logIf") /\ UNCHANGED notifyVars
StateTick == DaemonSelects("state") /\ UNCHANGED notifyVars

\* A full batch is reported; less than that only arms maxLatencyTimer.
LogNotified ==
    /\ logNotify = "full" /\ logNotify' = "empty"
    /\ DaemonSelects(IF Len(logRows) >= LogBatchSize THEN "logIf" ELSE "check")
    /\ UNCHANGED stateNotify

\* A step transition: both reports.
StateNotified ==
    /\ stateNotify = "full" /\ stateNotify' = "empty"
    /\ DaemonSelects("logAlways")
    /\ UNCHANGED logNotify

\* ctx.Done or heartbeatStop.
DaemonStopped ==
    /\ ctx # "live" \/ heartbeats = "off"
    /\ DaemonSelects("exited")
    /\ UNCHANGED notifyVars

\* A report that sends nothing: there are no rows ...
NoRows ==
    /\ holder = "free" /\ daemon \in {"logIf", "logAlways"} /\ Len(logRows) = 0
    /\ DaemonMoves(AfterLog(FALSE))
    /\ UNCHANGED <<rowVars, stateVars, ctx, heartbeats, notifyVars, rpcVars, srvLogVars, srvVars>>

\* ... or no change and no output, and the last report is recent.
NoChange ==
    /\ holder = "free" /\ daemon = "state"
    /\ stateChanged = "no" /\ Unsent = {} /\ reported = "yes"
    /\ DaemonMoves("check")
    /\ UNCHANGED <<rowVars, stateVars, ctx, heartbeats, notifyVars, rpcVars, srvLogVars, srvVars>>

\* The end of an iteration: does the reporter still run?
DaemonChecksClosed ==
    /\ daemon = "check"
    /\ DaemonMoves(IF Closed THEN "exited" ELSE "select")
    /\ UNCHANGED <<rowVars, stateVars, ctx, heartbeats, notifyVars, rpcVars, srvLogVars, srvVars>>

-----------------------------------------------------------------------------
(* The environment: the task context and the server (external).            *)

CtxEnds(how) ==
    /\ ctx = "live" /\ job # "done"
    /\ ctx' = how
    /\ UNCHANGED <<jobVars, rowVars, stateVars, heartbeats, daemonVars, notifyVars, rpcVars,
                   srvLogVars, srvVars>>

\* Rows of a request that the server does not have yet, none with a hole before them.
Fresh(r) ==
    IF srvArchived = "no" /\ r.index <= Len(srvLog) /\ Len(srvLog) < r.index + Len(r.rows)
    THEN 1..(r.index + Len(r.rows) - Len(srvLog))
    ELSE {0}

\* The server takes some of them; NoMore counts on a request with rows, once it has them all.
SrvTakes(r) ==
    /\ \E k \in Fresh(r) :
          srvLog' = srvLog \o SubSeq(r.rows, Len(srvLog) - r.index + 1, Len(srvLog) - r.index + k)
    /\ srvArchived' = IF r.by = "closer" /\ Len(r.rows) > 0 /\ r.index + Len(r.rows) <= Len(srvLog')
                      THEN "yes" ELSE srvArchived

\* It may acknowledge more than it was sent.
SrvAnswersLog ==
    /\ LogCall /\ reply = "waiting"
    /\ SrvTakes(logReq)
    /\ reply' = "answered"
    /\ \/ ack' = Len(srvLog')
       \/ Len(srvLog') = Submitted /\ ack' = Submitted + 1
    /\ UNCHANGED <<jobVars, rowVars, stateVars, ctx, heartbeats, daemonVars, notifyVars, holder,
                   verdict, logReq, stateReq, srvLost, late, srvVars>>

SrvGetsLate(r) ==
    /\ r \in late /\ late' = late \ {r}
    /\ SrvTakes(r)
    /\ UNCHANGED <<jobVars, rowVars, stateVars, ctx, heartbeats, daemonVars, notifyVars, rpcVars,
                   srvLost, srvVars>>

\* An open log loses a tail, while no answer about it is on its way and Close
\* has not had its last one.
SrvLosesLog(n) ==
    /\ LogLoss /\ srvArchived = "no" /\ logFlush = "todo" /\ reply = "waiting"
    /\ n < Len(srvLog)
    /\ srvLog' = SubSeq(srvLog, 1, n) /\ srvLost' = "yes"
    /\ UNCHANGED <<jobVars, rowVars, stateVars, ctx, heartbeats, daemonVars, notifyVars, rpcVars,
                   srvArchived, late, srvVars>>

\* The server takes the state, some of the outputs, and the result that only
\* Close reports; the answer carries its decision, if any, or that result.
SrvAnswersState ==
    /\ StateCall /\ reply = "waiting"
    /\ reply' = "answered"
    /\ srvSeen' = stateReq.ver
    /\ \E taken \in SUBSET stateReq.outs : srvOuts' = srvOuts \cup taken
    /\ srvResult' = IF RequestResult(holder) # "unspecified" THEN RequestResult(holder) ELSE srvResult
    /\ verdict' = IF srvVerdict # "unspecified" THEN srvVerdict ELSE srvResult'
    /\ UNCHANGED <<jobVars, rowVars, stateVars, ctx, heartbeats, daemonVars, notifyVars, holder, ack,
                   logReq, stateReq, srvLogVars, srvVerdict>>

\* A user cancels the task, or the server gives it up.
SrvDecides(res) ==
    /\ srvVerdict = "unspecified" /\ srvResult = "unspecified"
    /\ srvVerdict' = res
    /\ UNCHANGED <<jobVars, rowVars, stateVars, ctx, heartbeats, daemonVars, notifyVars, rpcVars,
                   srvLogVars, srvSeen, srvOuts, srvResult>>

-----------------------------------------------------------------------------
JobStep ==
    \/ \E accepted \in SUBSET Outputs, row \in BOOLEAN : SetOutputs(accepted, row)
    \/ StopHeartbeats \/ RunReturns

CloseStep ==
    \/ \E words \in BOOLEAN : CloseMark(words)
    \/ \E how \in {"acknowledged", "timeout"} : CloseWait(how)
    \/ CloseSentinel \/ FlushGivesUp
    \/ SendLog("closer") \/ SendState("closer")

Records ==
    \/ \E row, urgent \in BOOLEAN : Handle(row, urgent)
    \/ \E res \in JobResults, row \in BOOLEAN : HandleJobResult(res, row)
    \/ Logf

DaemonStep ==
    \/ LogNotified \/ StateNotified \/ DaemonStopped \/ NoRows \/ NoChange \/ DaemonChecksClosed
    \/ SendLog("daemon") \/ SendState("daemon")

Ticks == LogTick \/ StateTick

RpcEnds == LogAnswered \/ StateAnswered \/ RpcFailed

Server ==
    \/ SrvAnswersLog \/ SrvAnswersState
    \/ \E r \in late : SrvGetsLate(r)
    \/ \E n \in 0..(Len(srvLog) - 1) : SrvLosesLog(n)
    \/ \E res \in Verdicts : SrvDecides(res)

\* Close returned and the daemon is gone.
Terminated == job = "done" /\ daemon = "exited" /\ UNCHANGED vars

Next ==
    \/ JobStep \/ CloseStep \/ Records
    \/ DaemonStep \/ Ticks
    \/ RpcEnds \/ Server
    \/ \E how \in Endings : CtxEnds(how)
    \/ Terminated

Spec == Init /\ [][Next]_vars

\* The goroutines are scheduled, and every RPC ends with the timeout of the
\* HTTP client.  The job itself need not end.
FairSpec ==
    Spec /\ WF_vars(CloseStep) /\ WF_vars(DaemonStep) /\ WF_vars(RpcEnds)

\* The tickers tick and RPCs get through again and again: for state reports,
\* and for rows.
HeartbeatsSucceed ==
    /\ SF_vars(StateTick) /\ SF_vars(SendState("daemon"))
    /\ SF_vars(SrvAnswersState) /\ SF_vars(StateAnswered)

LogReportsSucceed ==
    SF_vars(LogTick) /\ SF_vars(SrvAnswersLog) /\ SF_vars(LogAnswered)

-----------------------------------------------------------------------------
(* Properties.                                                             *)

\* The server's log refines LogStream: it always is the rows the job produced,
\* in order and without a hole or a duplicate, though requests are resent, only
\* partly acknowledged or processed late (reporter.go:781-835).
Stream == INSTANCE LogStream WITH produced <- appended, log <- srvLog
LogStreamSpec == Stream!Spec

\* The buffer holds exactly the rows after the acknowledged ones, and no row
\* leaves it before the server had it, unless the server lost it
\* (reporter.go:816-824).
BufferIsTail ==
    /\ Len(logRows) = appended - logOffset
    /\ \A i \in 1..Len(logRows) : logRows[i] = logOffset + i
    /\ srvLost = "no" => logOffset <= Len(srvLog)

\* A handled record is on the server, in the state report in flight, or still
\* flagged as a change: a record handled during an RPC, or before one that
\* failed, is not forgotten (reporter.go:852-887).
StateNotLost ==
    stateChanged = "no" => srvSeen = ver \/ (StateCall /\ stateReq.ver = ver)

\* The result reaches the server only through Close and only after the log
\* flush, though the daemon sees it set long before (reporter.go:837-838, 422).
ResultAfterLogs ==
    srvResult # "unspecified" => logFlush # "todo"

\* If Close returns no error, the server has every row that existed when it was
\* called, the result and every output (reporter.go:710-715).
CloseIsHonest ==
    job = "done" /\ logFlush = "ok" /\ stateFlush = "ok" =>
        /\ closeMark <= Len(srvLog)
        /\ srvResult = result
        /\ \A k \in Outputs : outputs[k] # "unset" => k \in srvOuts

\* If the daemon acknowledged, a successful log flush also made the server
\* archive the log (reporter.go:694-708).
ArchivedAfterAck ==
    logFlush = "ok" /\ daemonAck = "acknowledged" => srvArchived = "yes"

\* No row is dropped between the job and the archive, and Close says so if one is.
LogIsWhole == BufferIsTail /\ ArchivedAfterAck /\ CloseIsHonest

\* No state is dropped, and the result is the last word.
StateIsReported == StateNotLost /\ ResultAfterLogs

\* Close always returns, whatever the daemon, the context and the server do.
CloseReturns == job = "closing" ~> job = "done"

\* Once Close was called the daemon goroutine ends, also if no ticker fires any
\* more: the signal Close sends wakes it (reporter.go:684-685).
DaemonEnds == Closed ~> daemon = "exited"

\* The daemon reports until the job is over or its context ends.
Reporting == job = "running" /\ ctx = "live"

\* A running task the server is done with is cancelled, by the answer to a
\* heartbeat if the job is silent, and does not hold its slot until its timeout
\* (reporter.go:854-855, 905-912).
VerdictCancels == HeartbeatsSucceed => (srvVerdict # "unspecified" ~> ~Reporting)

\* Every row, also one that Logf buffered without a signal, is delivered while
\* the job still runs, if the server loses nothing (reporter.go:518-600).
RowsDelivered ==
    LogReportsSucceed =>
        \A n \in 1..MaxRows : appended >= n ~> (Len(srvLog) >= n \/ ~Reporting)

\* The reporter's goroutines end, and until then what the job and the server
\* have to say to each other gets through.
ReporterProgress == CloseReturns /\ DaemonEnds /\ VerdictCancels /\ RowsDelivered

=============================================================================
