-------------------------- MODULE Reporter_proofs ---------------------------
(* Proofs of the safety properties of Reporter, for any number of rows,    *)
(* records, outputs, attempts and delayed requests, and of the refinement  *)
(* of LogStream; and of those of ReportedSteps, for any number of steps    *)
(* and whatever goes wrong.  The two specifications share no variable.     *)
EXTENDS Reporter, ReportedSteps, SequenceTheorems, TLAPS

-----------------------------------------------------------------------------
(* The inductive invariant.                                                *)

\* Who holds clientM is where it makes its call.
Calls ==
    /\ holder = "daemon" => daemon \in {"logIf", "logAlways", "state"}
    /\ holder = "closer" => job \in {"flushLog", "flushState"} /\ attempt < Attempts

\* Close goes through its phases once.
Phases ==
    /\ logFlush # "todo" <=> job \in {"flushState", "done"}
    /\ stateFlush = "ok" => job = "done"
    /\ Closed => result # "unspecified"

\* Rows are numbered in order; n is how many come before them.
Numbered(rows, n) == \A i \in 1 .. Len(rows) : rows[i] = n + i

Buffer == Len(logRows) = appended - logOffset /\ Numbered(logRows, logOffset)

\* A request holds rows the job appended, whenever the server gets to see it.
Genuine(r) == Numbered(r.rows, r.index) /\ r.index + Len(r.rows) <= appended
Requests == Genuine(logReq) /\ \A r \in late : Genuine(r)

\* The offset and the rows of the request in flight are still those of the
\* buffer: nothing but the answer changes them.
InFlight ==
    LogCall => /\ logReq.by = holder /\ logReq.index = logOffset
               /\ Len(logReq.rows) <= Len(logRows)

\* The server's log is a prefix of what was appended.
ServerLog ==
    /\ Len(srvLog) <= appended /\ Numbered(srvLog, 0)
    /\ srvLost = "no" => logOffset <= Len(srvLog)

\* What an answer acknowledges is on the server, and archived if it answers
\* the last request.
Answer ==
    LogCall /\ reply = "answered" =>
        /\ ack <= Len(srvLog) \/ Submitted <= Len(srvLog)
        /\ holder = "closer" /\ Len(logReq.rows) > 0 /\ ack >= Submitted => srvArchived = "yes"

\* Close flushes everything there was when it marked the reporter closed, and
\* always has a row to archive the log with.
Flushing ==
    /\ closeMark <= appended
    /\ LogCall /\ holder = "closer" => closeMark <= Submitted
    /\ daemonAck = "acknowledged" =>
        /\ daemon = "exited"
        /\ job = "flushLog" => Len(logRows) > 0
        /\ LogCall => Len(logReq.rows) > 0
    /\ logFlush = "ok" => closeMark <= Len(srvLog)

\* A state without a change is the one in flight or on the server.
StateInv ==
    /\ StateNotLost
    /\ StateCall /\ stateChanged = "no" => stateReq.ver = ver
    /\ StateCall /\ reply = "answered" => srvSeen = stateReq.ver

\* Only Close tells the result.
ResultInv ==
    /\ ResultAfterLogs
    /\ StateCall /\ holder = "closer" /\ reply = "answered" => srvResult = result
    /\ stateFlush = "ok" => srvResult = result

OutputsInv ==
    /\ \A k \in Outputs : outputs[k] = "sent" => k \in srvOuts
    /\ stateFlush = "ok" => \A k \in Outputs : outputs[k] # "unset" => k \in srvOuts

IInv ==
    /\ TypeOK /\ Calls /\ Phases /\ Buffer /\ Requests /\ InFlight /\ ServerLog /\ Answer
    /\ Flushing /\ ArchivedAfterAck /\ StateInv /\ ResultInv /\ OutputsInv

\* The groups of variables stand for their members in every proof below.
USE DEF jobVars, rowVars, stateVars, daemonVars, notifyVars, rpcVars, srvLogVars, srvVars

-----------------------------------------------------------------------------
(* Numbered rows.                                                          *)

\* A row appended to numbered rows is the next of them.
LEMMA AppendNumbered ==
    ASSUME NEW rows \in Seq(Nat), NEW n \in Nat, Numbered(rows, n)
    PROVE  LET new == Append(rows, n + Len(rows) + 1) IN
           new \in Seq(Nat) /\ Len(new) = Len(rows) + 1 /\ Numbered(new, n)
<1> DEFINE new == Append(rows, n + Len(rows) + 1)
<1>1. Len(rows) \in Nat
  BY LenProperties
<1>2. n + Len(rows) + 1 \in Nat
  BY <1>1
<1>3. /\ new \in Seq(Nat) /\ Len(new) = Len(rows) + 1
      /\ \A i \in 1 .. Len(rows) : new[i] = rows[i]
      /\ new[Len(rows) + 1] = n + Len(rows) + 1
  BY <1>2, AppendProperties
<1>4. ASSUME NEW i \in 1 .. Len(new) PROVE new[i] = n + i
  BY <1>1, <1>3 DEF Numbered
<1>5. QED
  BY <1>3, <1>4 DEF Numbered

\* Rows without the first k are the rows after those.
LEMMA DropNumbered ==
    ASSUME NEW rows \in Seq(Nat), NEW n \in Nat, Numbered(rows, n), NEW k \in 0 .. Len(rows)
    PROVE  LET new == SubSeq(rows, k + 1, Len(rows)) IN
           new \in Seq(Nat) /\ Len(new) = Len(rows) - k /\ Numbered(new, n + k)
<1> DEFINE new == SubSeq(rows, k + 1, Len(rows))
<1>1. Len(rows) \in Nat /\ k \in Nat /\ k <= Len(rows)
  BY LenProperties
<1>2. \A i \in (k + 1) .. Len(rows) : rows[i] \in Nat
  BY <1>1, ElementOfSeq
<1>3. /\ new \in Seq(Nat)
      /\ Len(new) = IF k + 1 <= Len(rows) THEN Len(rows) - (k + 1) + 1 ELSE 0
      /\ \A i \in 1 .. Len(rows) - (k + 1) + 1 : new[i] = rows[k + 1 + i - 1]
  BY <1>1, <1>2, SubSeqProperties
<1>4. Len(new) = Len(rows) - k
  BY <1>1, <1>3
<1>5. ASSUME NEW i \in 1 .. Len(new) PROVE new[i] = n + k + i
  <2>1. new[i] = rows[k + i]
    BY <1>1, <1>3, <1>4
  <2>2. k + i \in 1 .. Len(rows)
    BY <1>1, <1>4
  <2>3. QED
    BY <1>1, <2>1, <2>2 DEF Numbered
<1>6. QED
  BY <1>3, <1>4, <1>5 DEF Numbered

\* The first k of numbered rows.
LEMMA TakeNumbered ==
    ASSUME NEW rows \in Seq(Nat), Numbered(rows, 0), NEW k \in 0 .. Len(rows)
    PROVE  LET new == SubSeq(rows, 1, k) IN
           new \in Seq(Nat) /\ Len(new) = k /\ Numbered(new, 0)
<1> DEFINE new == SubSeq(rows, 1, k)
<1>1. Len(rows) \in Nat /\ k \in Nat /\ k <= Len(rows)
  BY LenProperties
<1>2. \A i \in 1 .. k : rows[i] \in Nat
  BY <1>1, ElementOfSeq
<1>3. /\ new \in Seq(Nat) /\ Len(new) = IF 1 <= k THEN k - 1 + 1 ELSE 0
      /\ \A i \in 1 .. k - 1 + 1 : new[i] = rows[1 + i - 1]
  BY <1>1, <1>2, SubSeqProperties
<1>4. Len(new) = k
  BY <1>1, <1>3
<1>5. ASSUME NEW i \in 1 .. Len(new) PROVE new[i] = 0 + i
  BY <1>1, <1>3, <1>4 DEF Numbered
<1>6. QED
  BY <1>3, <1>4, <1>5 DEF Numbered

\* Numbered rows of the same length are the same.
LEMMA NumberedEqual ==
    ASSUME NEW s \in Seq(Nat), NEW t \in Seq(Nat), NEW n \in Nat,
           Numbered(s, n), Numbered(t, n), Len(s) = Len(t)
    PROVE  s = t
BY SeqEqual DEF Numbered

\* Numbered rows that follow on numbered rows.
LEMMA ConcatNumbered ==
    ASSUME NEW log \in Seq(Nat), Numbered(log, 0), NEW rows \in Seq(Nat), NEW n \in Nat,
           Numbered(rows, n), NEW m \in Nat, n + m = Len(log),
           NEW k \in Nat, k >= 1, m + k <= Len(rows)
    PROVE  LET new == log \o SubSeq(rows, m + 1, m + k) IN
           new \in Seq(Nat) /\ Len(new) = Len(log) + k /\ Numbered(new, 0)
<1> DEFINE more == SubSeq(rows, m + 1, m + k)
           new == log \o more
<1>1. Len(log) \in Nat /\ Len(rows) \in Nat
  BY LenProperties
<1>2. ASSUME NEW i \in (m + 1) .. (m + k) PROVE rows[i] \in Nat
  <2>1. i \in 1 .. Len(rows)
    BY <1>1
  <2>2. QED
    BY <2>1, ElementOfSeq
<1>3. m + 1 \in Int /\ m + k \in Int
  OBVIOUS
<1>4. /\ more \in Seq(Nat) /\ Len(more) = IF m + 1 <= m + k THEN (m + k) - (m + 1) + 1 ELSE 0
      /\ \A i \in 1 .. (m + k) - (m + 1) + 1 : more[i] = rows[m + 1 + i - 1]
  BY <1>2, <1>3, SubSeqProperties
<1>5. Len(more) = k
  BY <1>4
<1>6. ASSUME NEW i \in 1 .. k PROVE more[i] = Len(log) + i
  <2>1. more[i] = rows[m + i]
    BY <1>4
  <2>2. m + i \in 1 .. Len(rows)
    BY <1>1
  <2>3. rows[m + i] = n + (m + i)
    BY <2>2 DEF Numbered
  <2>4. n + (m + i) = (n + m) + i
    OBVIOUS
  <2>5. QED
    BY <2>1, <2>3, <2>4
<1> HIDE DEF more
<1>6b. more \in Seq(Nat)
  BY <1>4
<1>7. /\ new \in Seq(Nat) /\ Len(new) = Len(log) + Len(more)
      /\ \A i \in 1 .. Len(log) + Len(more) :
            new[i] = IF i <= Len(log) THEN log[i] ELSE more[i - Len(log)]
  BY <1>6b, ConcatProperties
<1> HIDE DEF new
<1>8. ASSUME NEW i \in 1 .. Len(new) PROVE new[i] = 0 + i
  <2>1. CASE i <= Len(log)
    BY <1>1, <1>5, <1>7, <2>1 DEF Numbered
  <2>2. CASE ~(i <= Len(log))
    <3>1. i - Len(log) \in 1 .. k
      BY <1>1, <1>5, <1>7, <2>2
    <3>2. new[i] = more[i - Len(log)]
      BY <1>1, <1>5, <1>7, <2>2
    <3>3. more[i - Len(log)] = Len(log) + (i - Len(log))
      BY <1>6, <3>1
    <3>4. i \in Int
      BY <1>1, <1>5, <1>7
    <3>5. QED
      BY <1>1, <3>2, <3>3, <3>4
  <2>3. QED
    BY <2>1, <2>2
<1>9. QED
  BY <1>5, <1>7, <1>8 DEF Numbered, new, more

\* What the server makes of a genuine request: it has more of the rows, or the
\* same, and archives the log only when it has all of the last request.
LEMMA TakesEffect ==
    ASSUME TypeOK, ServerLog, NEW r \in LogRequest, Genuine(r), SrvTakes(r)
    PROVE  /\ srvLog' \in Seq(Nat) /\ Numbered(srvLog', 0)
           /\ Len(srvLog) <= Len(srvLog') /\ Len(srvLog') <= appended
           /\ Len(srvLog') \in Nat /\ Len(srvLog) \in Nat
           /\ srvArchived' \in YesNo /\ (srvArchived = "yes" => srvArchived' = "yes")
           /\ r.by = "closer" /\ Len(r.rows) > 0 /\ r.index + Len(r.rows) <= Len(srvLog') =>
                srvArchived' = "yes"
<1>1. PICK k \in Fresh(r) :
        srvLog' = srvLog \o SubSeq(r.rows, Len(srvLog) - r.index + 1, Len(srvLog) - r.index + k)
  BY DEF SrvTakes
<1>2. /\ srvLog \in Seq(Nat) /\ Len(srvLog) \in Nat /\ appended \in Nat /\ Len(srvLog) <= appended
      /\ r.rows \in Seq(Nat) /\ Len(r.rows) \in Nat /\ r.index \in Nat
      /\ r.index + Len(r.rows) <= appended /\ srvArchived \in YesNo
  BY LenProperties DEF TypeOK, ServerLog, LogRequest, Genuine
<1> DEFINE m == Len(srvLog) - r.index
           more == SubSeq(r.rows, m + 1, m + k)
<1>3. srvLog' \in Seq(Nat) /\ Numbered(srvLog', 0) /\ Len(srvLog') = Len(srvLog) + k /\ k \in Nat
      /\ (k = 0 \/ Len(srvLog) + k <= r.index + Len(r.rows))
  <2>1. CASE k = 0
    <3>1. m \in Int /\ m + k < m + 1
      BY <1>2, <2>1
    <3>2. more = << >>
      BY <1>2, <2>1, <3>1, SubSeqEmpty
    <3>3. srvLog' = srvLog
      BY <1>1, <1>2, <3>2, ConcatEmptySeq
    <3>4. QED
      BY <1>2, <2>1, <3>3 DEF ServerLog
  <2>2. CASE k # 0
    <3>1. /\ r.index <= Len(srvLog) /\ Len(srvLog) < r.index + Len(r.rows)
          /\ k \in 1 .. (r.index + Len(r.rows) - Len(srvLog))
      BY <2>2 DEF Fresh
    <3>2. m \in Nat /\ k \in Nat /\ k >= 1 /\ m + k <= Len(r.rows)
      BY <1>2, <3>1
    <3>3. r.index + m = Len(srvLog) /\ Numbered(srvLog, 0) /\ Numbered(r.rows, r.index)
      BY <1>2 DEF ServerLog, Genuine
    <3> HIDE DEF m
    <3>4. srvLog' \in Seq(Nat) /\ Len(srvLog') = Len(srvLog) + k /\ Numbered(srvLog', 0)
      <4>1. srvLog' = srvLog \o SubSeq(r.rows, m + 1, m + k)
        BY <1>1 DEF m
      <4>2. /\ srvLog \in Seq(Nat) /\ r.rows \in Seq(Nat) /\ r.index \in Nat
            /\ m \in Nat /\ k \in Nat /\ k >= 1 /\ m + k <= Len(r.rows)
        BY <1>2, <3>2
      <4>3. QED
        BY <3>3, <4>1, <4>2, ConcatNumbered, ZenonT(40)
    <3>5. Len(srvLog) + k <= r.index + Len(r.rows)
      BY <1>2, <3>2, <3>3
    <3>6. QED
      BY <3>2, <3>4, <3>5
  <2>3. QED
    BY <2>1, <2>2
<1>4. Len(srvLog) <= Len(srvLog') /\ Len(srvLog') <= appended /\ Len(srvLog') \in Nat
  BY <1>2, <1>3
<1>5. /\ srvArchived' \in YesNo /\ (srvArchived = "yes" => srvArchived' = "yes")
      /\ r.by = "closer" /\ Len(r.rows) > 0 /\ r.index + Len(r.rows) <= Len(srvLog') =>
                srvArchived' = "yes"
  BY <1>2 DEF SrvTakes, YesNo
<1>6. QED
  BY <1>2, <1>3, <1>4, <1>5


-----------------------------------------------------------------------------
(* What a step that makes no RPC keeps.                                    *)

\* Types of what the log is about.
LEMMA LogTypes ==
    ASSUME TypeOK
    PROVE  /\ appended \in Nat /\ logOffset \in Nat /\ closeMark \in Nat /\ ack \in Nat
           /\ logRows \in Seq(Nat) /\ Len(logRows) \in Nat
           /\ srvLog \in Seq(Nat) /\ Len(srvLog) \in Nat
           /\ logReq \in LogRequest /\ logReq.index \in Nat
           /\ logReq.rows \in Seq(Nat) /\ Len(logReq.rows) \in Nat
           /\ \A r \in late : r \in LogRequest /\ r.index \in Nat /\ r.rows \in Seq(Nat) /\ Len(r.rows) \in Nat
<1>1. /\ appended \in Nat /\ logOffset \in Nat /\ closeMark \in Nat /\ ack \in Nat
      /\ logRows \in Seq(Nat) /\ srvLog \in Seq(Nat) /\ logReq \in LogRequest /\ late \subseteq LogRequest
  BY DEF TypeOK
<1>2. \A r \in LogRequest : r.index \in Nat /\ r.rows \in Seq(Nat)
  BY DEF LogRequest
<1>3. \A rows \in Seq(Nat) : Len(rows) \in Nat
  BY LenProperties
<1>4. QED
  BY <1>1, <1>2, <1>3

\* A row goes to the end of the buffer.
LEMMA AppendEffect ==
    ASSUME TypeOK, Buffer, NEW row \in BOOLEAN, AppendIf(row)
    PROVE  /\ logRows' \in Seq(Nat) /\ appended' \in Nat /\ logOffset' = logOffset /\ Buffer'
           /\ appended <= appended' /\ Len(logRows) <= Len(logRows') /\ Len(logRows') \in Nat
           /\ row => Len(logRows') > 0
<1>1. logRows \in Seq(Nat) /\ Len(logRows) \in Nat /\ appended \in Nat /\ logOffset \in Nat
  BY LogTypes
<1>2. CASE row
  <2>1. appended = logOffset + Len(logRows)
    BY <1>1 DEF Buffer
  <2>2. /\ logRows' = Append(logRows, logOffset + Len(logRows) + 1)
        /\ appended' = appended + 1 /\ logOffset' = logOffset
    BY <1>2, <2>1 DEF AppendIf, AppendLogRow
  <2>3. logRows' \in Seq(Nat) /\ Len(logRows') = Len(logRows) + 1 /\ Numbered(logRows', logOffset)
    BY <1>1, <2>2, AppendNumbered DEF Buffer
  <2>4. Len(logRows') = appended' - logOffset'
    BY <1>1, <2>1, <2>2, <2>3
  <2>5. QED
    BY <1>1, <2>2, <2>3, <2>4 DEF Buffer
<1>3. CASE ~row
  BY <1>1, <1>3 DEF AppendIf, Buffer
<1>4. QED
  BY <1>2, <1>3

\* Appending rows, or not, keeps what is said of the log, in flight or not.
LEMMA LogFrame ==
    ASSUME IInv, NEW row \in BOOLEAN, AppendIf(row), UNCHANGED <<rpcVars, srvLogVars>>, LogCall' <=> LogCall
    PROVE  Buffer' /\ Requests' /\ InFlight' /\ ServerLog' /\ Answer' /\ Submitted' = Submitted
<1>1. TypeOK /\ Buffer
  BY DEF IInv
<1>2. /\ Buffer' /\ logOffset' = logOffset /\ appended <= appended' /\ appended' \in Nat
      /\ Len(logRows) <= Len(logRows') /\ Len(logRows') \in Nat
  BY <1>1, AppendEffect
<1>3. /\ appended \in Nat /\ logOffset \in Nat /\ Len(logRows) \in Nat /\ Len(srvLog) \in Nat
      /\ logReq.index \in Nat /\ Len(logReq.rows) \in Nat
      /\ \A r \in late : r.index \in Nat /\ Len(r.rows) \in Nat
  BY <1>1, LogTypes
<1>4. Requests'
  BY <1>2, <1>3 DEF IInv, Requests, Genuine
<1>5. InFlight'
  BY <1>2, <1>3 DEF IInv, InFlight
<1>6. ServerLog'
  BY <1>2, <1>3 DEF IInv, ServerLog
<1>7. Submitted' = Submitted
  BY <1>2 DEF Submitted
<1>8. Answer'
  BY <1>7 DEF IInv, Answer
<1>9. QED
  BY <1>2, <1>4, <1>5, <1>6, <1>7, <1>8

\* So does a step that has nothing to do with the log.
LEMMA LogStill ==
    ASSUME IInv, UNCHANGED <<rowVars, rpcVars, srvLogVars>>, LogCall' <=> LogCall
    PROVE  Buffer' /\ Requests' /\ InFlight' /\ ServerLog' /\ Answer' /\ Submitted' = Submitted
<1>1. AppendIf(FALSE)
  BY DEF AppendIf
<1>2. QED
  BY <1>1, LogFrame

\* A step that leaves the task's state alone.
LEMMA StateStill ==
    ASSUME IInv, UNCHANGED <<ver, stateChanged, outputs, result, rpcVars, srvVars, stateFlush, logFlush>>,
           StateCall' <=> StateCall
    PROVE  StateInv' /\ ResultInv' /\ OutputsInv'
<1>1. StateInv'
  BY DEF IInv, StateInv, StateNotLost
<1>2. ResultInv'
  BY DEF IInv, ResultInv, ResultAfterLogs
<1>3. OutputsInv'
  BY DEF IInv, OutputsInv
<1>4. QED
  BY <1>1, <1>2, <1>3

\* Steps of the daemon between two reports, and what happens around the task:
\* nothing that the invariant is about changes, but for where the daemon is.
LEMMA AroundInv ==
    ASSUME IInv, TypeOK', UNCHANGED <<jobVars, rowVars, ver, stateChanged, outputs, result, rpcVars, srvLogVars>>,
           UNCHANGED <<srvSeen, srvOuts, srvResult>>,
           daemon' = daemon \/ (holder # "daemon" /\ daemon # "exited")
    PROVE  IInv'
<1>1. (LogCall' <=> LogCall) /\ (StateCall' <=> StateCall)
  BY DEF LogCall, StateCall
<1>2. Buffer' /\ Requests' /\ InFlight' /\ ServerLog' /\ Answer' /\ Submitted' = Submitted
  BY <1>1, LogStill
<1>3. Calls' /\ Phases'
  BY DEF IInv, Calls, Phases, Closed
<1>4. Flushing' /\ ArchivedAfterAck'
  BY <1>1, <1>2 DEF IInv, Flushing, ArchivedAfterAck
<1>5. StateInv' /\ ResultInv' /\ OutputsInv'
  BY <1>1 DEF IInv, StateInv, StateNotLost, ResultInv, ResultAfterLogs, OutputsInv
<1>6. QED
  BY <1>2, <1>3, <1>4, <1>5 DEF IInv


\* The daemon loop between two reports.
LEMMA DaemonQuietInv ==
    ASSUME IInv, LogTick \/ StateTick \/ LogNotified \/ StateNotified \/ DaemonStopped
                 \/ NoRows \/ NoChange \/ DaemonChecksClosed
    PROVE  IInv'
<1>1. CASE LogTick \/ StateTick \/ LogNotified \/ StateNotified \/ DaemonStopped
  <2>1. PICK to \in DaemonPc : DaemonSelects(to)
    BY <1>1 DEF LogTick, StateTick, LogNotified, StateNotified, DaemonStopped, DaemonPc
  <2>2. logNotify' \in {"empty", "full"} /\ stateNotify' \in {"empty", "full"}
    BY <1>1 DEF LogTick, StateTick, LogNotified, StateNotified, DaemonStopped, IInv, TypeOK
  <2>3. TypeOK'
    BY <2>1, <2>2 DEF IInv, TypeOK, DaemonSelects
  <2>4. daemon # "exited" /\ holder # "daemon"
    BY <2>1 DEF DaemonSelects, IInv, Calls
  <2>5. QED
    BY <2>1, <2>3, <2>4, AroundInv DEF DaemonSelects
<1>2. CASE NoRows \/ NoChange \/ DaemonChecksClosed
  <2>1. PICK to \in DaemonPc : DaemonMoves(to)
    BY <1>2 DEF NoRows, NoChange, DaemonChecksClosed, DaemonPc, AfterLog
  <2>2. UNCHANGED <<rowVars, stateVars, ctx, heartbeats, notifyVars, rpcVars, srvLogVars, srvVars>>
    BY <1>2 DEF NoRows, NoChange, DaemonChecksClosed
  <2>3. TypeOK'
    BY <2>1, <2>2 DEF IInv, TypeOK, DaemonMoves
  <2>4. daemon # "exited" /\ holder # "daemon"
    BY <1>2 DEF NoRows, NoChange, DaemonChecksClosed, IInv, Calls
  <2>5. QED
    BY <2>1, <2>2, <2>3, <2>4, AroundInv DEF DaemonMoves
<1>3. QED
  BY <1>1, <1>2

\* The context ends, the server decides about the task, or nothing happens.
LEMMA EnvironmentInv ==
    ASSUME IInv, \/ \E how \in Endings : CtxEnds(how)
                 \/ \E res \in Verdicts : SrvDecides(res)
                 \/ UNCHANGED vars
    PROVE  IInv'
<1>1. CASE \E how \in Endings : CtxEnds(how)
  <2>1. ctx' \in {"live", "cancelled", "expired"}
    BY <1>1, ScopeAssumption DEF CtxEnds
  <2>2. TypeOK'
    BY <1>1, <2>1 DEF IInv, TypeOK, CtxEnds
  <2>3. QED
    BY <1>1, <2>2, AroundInv DEF CtxEnds
<1>2. CASE \E res \in Verdicts : SrvDecides(res)
  <2>1. srvVerdict' \in Result
    BY <1>2, ScopeAssumption DEF SrvDecides, Result, Final
  <2>2. TypeOK'
    BY <1>2, <2>1 DEF IInv, TypeOK, SrvDecides
  <2>3. QED
    BY <1>2, <2>2, AroundInv DEF SrvDecides
<1>3. CASE UNCHANGED vars
  <2>1. TypeOK'
    BY <1>3 DEF IInv, TypeOK, vars
  <2>2. QED
    BY <1>3, <2>1, AroundInv DEF vars
<1>4. QED
  BY <1>1, <1>2, <1>3

\* A record: rows may be appended while a request is in flight, and the state
\* counts as changed though the request may carry an older one.
LEMMA RecordsInv == ASSUME IInv, Records PROVE IInv'
<1>1. PICK row \in BOOLEAN :
        /\ AppendIf(row)
        /\ UNCHANGED <<jobVars, outputs, serverResult, ctx, heartbeats, daemonVars, rpcVars, srvLogVars, srvVars>>
        /\ logNotify' \in {"empty", "full"} /\ stateNotify' \in {"empty", "full"}
        /\ \/ ver' = ver + 1 /\ stateChanged' = "yes"
           \/ UNCHANGED <<ver, stateChanged>>
        /\ \/ result' = result
           \/ job = "running" /\ result' \in Final
  <2>1. CASE \E row, urgent \in BOOLEAN : Handle(row, urgent)
    BY <2>1 DEF Handle, UnlockAndNotify, IInv, TypeOK
  <2>2. CASE \E res \in JobResults, row \in BOOLEAN : HandleJobResult(res, row)
    BY <2>2, ScopeAssumption DEF HandleJobResult, UnlockAndNotify, Final
  <2>3. CASE Logf
    <3>1. AppendIf(TRUE)
      BY <2>3 DEF Logf, AppendIf
    <3>2. QED
      BY <2>3, <3>1 DEF Logf, IInv, TypeOK
  <2>4. QED
    BY <2>1, <2>2, <2>3 DEF Records
<1>2. /\ logRows' \in Seq(Nat) /\ appended' \in Nat /\ logOffset' = logOffset
      /\ appended <= appended' /\ Len(logRows) <= Len(logRows') /\ Len(logRows') \in Nat
  BY <1>1, AppendEffect DEF IInv
<1>3. (LogCall' <=> LogCall) /\ (StateCall' <=> StateCall)
  BY <1>1 DEF LogCall, StateCall
<1>4. Buffer' /\ Requests' /\ InFlight' /\ ServerLog' /\ Answer' /\ Submitted' = Submitted
  BY <1>1, <1>3, LogFrame
<1>5. TypeOK'
  <2>1. ver' \in Nat /\ stateChanged' \in YesNo /\ result' \in Result
    BY <1>1 DEF IInv, TypeOK, YesNo, Result
  <2>2. QED
    BY <1>1, <1>2, <2>1 DEF IInv, TypeOK
<1>6. Calls' /\ Phases'
  BY <1>1 DEF IInv, Calls, Phases, Closed, Final
<1>7. Flushing' /\ ArchivedAfterAck'
  <2>1. appended \in Nat /\ closeMark \in Nat /\ Len(logRows) \in Nat
    BY LogTypes DEF IInv
  <2>2. QED
    BY <1>1, <1>2, <1>3, <1>4, <2>1 DEF IInv, Flushing, ArchivedAfterAck
<1>8. StateInv'
  BY <1>1, <1>3 DEF IInv, StateInv, StateNotLost
<1>9. ResultInv' /\ OutputsInv'
  BY <1>1, <1>3 DEF IInv, ResultInv, ResultAfterLogs, OutputsInv, Calls, Phases
<1>10. QED
  BY <1>4, <1>5, <1>6, <1>7, <1>8, <1>9 DEF IInv


\* The task's goroutine moves on, outside of its own calls: calls in flight
\* are the daemon's.
LEMMA GoroutineMoves ==
    ASSUME IInv, TypeOK', NEW row \in BOOLEAN, AppendIf(row),
           job \notin {"flushLog", "flushState", "done"}, job' \notin {"flushState", "done"},
           UNCHANGED <<attempt, logFlush, stateFlush, ver, stateChanged, rpcVars, srvLogVars, srvVars, daemon>>,
           outputs' = outputs \/ \A k \in Outputs : outputs'[k] = "sent" => outputs[k] = "sent",
           Closed' => result' # "unspecified",
           closeMark' = closeMark \/ closeMark' = appended',
           daemonAck' = "acknowledged" =>
                /\ daemonAck = "acknowledged" \/ daemon = "exited"
                /\ job' = "flushLog" => Len(logRows') > 0
    PROVE  IInv'
<1>1. holder # "closer" /\ logFlush = "todo" /\ stateFlush # "ok"
  BY DEF IInv, Calls, Phases
<1>2. (LogCall' <=> LogCall) /\ (StateCall' <=> StateCall)
  BY <1>1 DEF LogCall, StateCall
<1>3. Buffer' /\ Requests' /\ InFlight' /\ ServerLog' /\ Answer' /\ Submitted' = Submitted
  BY <1>2, LogFrame
<1>4. Calls' /\ Phases'
  BY <1>1 DEF IInv, Calls, Phases
<1>5. Flushing' /\ ArchivedAfterAck'
  <2>1. /\ appended \in Nat /\ closeMark \in Nat /\ appended' \in Nat /\ appended <= appended'
    BY LogTypes, AppendEffect DEF IInv
  <2>2. closeMark' <= appended'
    BY <2>1 DEF IInv, Flushing
  <2>3. daemonAck' = "acknowledged" =>
          /\ daemon = "exited" /\ ~LogCall
    BY <1>1 DEF IInv, Flushing, LogCall, Calls
  <2>4. QED
    BY <1>1, <1>2, <2>2, <2>3 DEF Flushing, ArchivedAfterAck
<1>6. StateInv'
  BY <1>2 DEF IInv, StateInv, StateNotLost
<1>7. ResultInv' /\ OutputsInv'
  BY <1>1, <1>2 DEF IInv, ResultInv, ResultAfterLogs, OutputsInv
<1>8. QED
  BY <1>3, <1>4, <1>5, <1>6, <1>7 DEF IInv

\* The outputs are set while the job runs: none counts as sent.
LEMMA SetOutputsInv ==
    ASSUME IInv, NEW accepted \in SUBSET Outputs, NEW row \in BOOLEAN, SetOutputs(accepted, row)
    PROVE  IInv'
<1>1. outputs' \in [Outputs -> {"unset", "pending", "sent"}]
      /\ \A k \in Outputs : outputs'[k] = "sent" => outputs[k] = "sent"
  BY DEF SetOutputs, IInv, TypeOK
<1>2. logRows' \in Seq(Nat) /\ appended' \in Nat /\ logOffset' = logOffset
  BY AppendEffect DEF SetOutputs, IInv
<1>3. TypeOK'
  BY <1>1, <1>2 DEF SetOutputs, IInv, TypeOK, JobPc
<1>4. QED
  BY <1>1, <1>3, GoroutineMoves DEF SetOutputs, IInv, Flushing, Phases, Closed

\* The run ends before Close begins.
LEMMA RunEndsInv == ASSUME IInv, StopHeartbeats \/ RunReturns PROVE IInv'
<1>1. AppendIf(FALSE)
  BY DEF AppendIf, StopHeartbeats, RunReturns
<1>2. TypeOK'
  BY DEF StopHeartbeats, RunReturns, IInv, TypeOK, JobPc
<1>3. QED
  BY <1>1, <1>2, GoroutineMoves DEF StopHeartbeats, RunReturns, Closed

\* Close gives the task a result and marks the rows it has to flush.
LEMMA CloseMarkInv == ASSUME IInv, NEW words \in BOOLEAN, CloseMark(words) PROVE IInv'
<1>1. PICK row \in BOOLEAN : AppendIf(row)
  BY DEF CloseMark
<1>2. logRows' \in Seq(Nat) /\ appended' \in Nat /\ logOffset' = logOffset
  BY <1>1, AppendEffect DEF IInv
<1>3. result' \in Result /\ result' # "unspecified"
  BY DEF CloseMark, IInv, TypeOK, ClosingResult, Result, Final
<1>4. TypeOK'
  BY <1>2, <1>3 DEF CloseMark, IInv, TypeOK, JobPc
<1>5. QED
  BY <1>1, <1>3, <1>4, GoroutineMoves DEF CloseMark

\* An acknowledgement means that the daemon has exited, so no call is its own.
LEMMA CloseWaitInv ==
    ASSUME IInv, NEW how \in {"acknowledged", "timeout"}, CloseWait(how) PROVE IInv'
<1>1. AppendIf(FALSE)
  BY DEF AppendIf, CloseWait
<1>2. TypeOK'
  BY DEF CloseWait, IInv, TypeOK, JobPc
<1>3. Closed' => result' # "unspecified"
  BY DEF CloseWait, IInv, Phases, Closed
<1>4. QED
  BY <1>1, <1>2, <1>3, GoroutineMoves DEF CloseWait

\* After the sentinel there is a row to flush.
LEMMA CloseSentinelInv == ASSUME IInv, CloseSentinel PROVE IInv'
<1>1. PICK row \in BOOLEAN : AppendIf(row) /\ (row <=> Len(logRows) = 0)
  BY DEF CloseSentinel
<1>2. /\ logRows' \in Seq(Nat) /\ appended' \in Nat /\ logOffset' = logOffset
      /\ Len(logRows) <= Len(logRows') /\ Len(logRows') \in Nat /\ Len(logRows) \in Nat
      /\ row => Len(logRows') > 0
  BY <1>1, AppendEffect, LogTypes DEF IInv
<1>3. Len(logRows') > 0
  BY <1>1, <1>2
<1>4. TypeOK'
  BY <1>2 DEF CloseSentinel, IInv, TypeOK, JobPc
<1>5. Closed' => result' # "unspecified"
  BY DEF CloseSentinel, IInv, Phases, Closed
<1>6. QED
  BY <1>1, <1>3, <1>4, <1>5, GoroutineMoves DEF CloseSentinel

\* A flush that gives up promises nothing.
LEMMA FlushGivesUpInv == ASSUME IInv, FlushGivesUp PROVE IInv'
<1>1. /\ holder # "closer" /\ attempt' = 0
      /\ \/ job = "flushLog" /\ job' = "flushState" /\ logFlush' = "failed" /\ stateFlush' = stateFlush
         \/ job = "flushState" /\ job' = "done" /\ stateFlush' = "failed" /\ logFlush' = logFlush
      /\ UNCHANGED <<daemonAck, closeMark>>
      /\ UNCHANGED <<rowVars, stateVars, ctx, heartbeats, daemonVars, notifyVars, rpcVars, srvLogVars, srvVars>>
  BY DEF FlushGivesUp, FlushEnds
<1>2. (LogCall' <=> LogCall) /\ (StateCall' <=> StateCall)
  BY <1>1 DEF LogCall, StateCall
<1>3. Buffer' /\ Requests' /\ InFlight' /\ ServerLog' /\ Answer' /\ Submitted' = Submitted
  BY <1>1, <1>2, LogStill
<1>4. TypeOK'
  BY <1>1, AttemptsAssumption DEF IInv, TypeOK, JobPc, Outcome
<1>5. Calls' /\ Phases'
  BY <1>1 DEF IInv, Calls, Phases, Closed
<1>6. Flushing' /\ ArchivedAfterAck'
  BY <1>1, <1>2 DEF IInv, Flushing, ArchivedAfterAck
<1>7. StateInv'
  BY <1>1, <1>2 DEF IInv, StateInv, StateNotLost
<1>8. ResultInv' /\ OutputsInv'
  BY <1>1, <1>2 DEF IInv, ResultInv, ResultAfterLogs, OutputsInv
<1>9. QED
  BY <1>3, <1>4, <1>5, <1>6, <1>7, <1>8 DEF IInv

-----------------------------------------------------------------------------
(* The two RPCs.                                                           *)

\* reportLog takes its rows and its offset from the buffer.
LEMMA SendLogInv == ASSUME IInv, NEW by \in {"daemon", "closer"}, SendLog(by) PROVE IInv'
<1>1. /\ holder = "free" /\ holder' = by /\ reply' = "waiting"
      /\ logReq' = [by |-> by, index |-> logOffset, rows |-> logRows]
      /\ by = "daemon" => daemon \in {"logIf", "logAlways"} /\ Len(logRows) > 0
      /\ by = "closer" => job = "flushLog" /\ attempt < Attempts
      /\ UNCHANGED <<jobVars, rowVars, stateVars, ctx, heartbeats, daemonVars, notifyVars, ack, verdict,
                     stateReq, srvLogVars, srvVars>>
  BY DEF SendLog, Caller
<1>2. /\ appended \in Nat /\ logOffset \in Nat /\ Len(logRows) \in Nat /\ logRows \in Seq(Nat)
      /\ closeMark \in Nat
  BY LogTypes DEF IInv
<1>3. /\ logReq' \in LogRequest /\ logReq'.by = by /\ logReq'.index = logOffset
      /\ logReq'.rows = logRows
  BY <1>1, <1>2 DEF LogRequest
<1>4. ~LogCall /\ ~StateCall /\ LogCall' /\ ~StateCall'
  BY <1>1 DEF LogCall, StateCall
<1>5. TypeOK'
  BY <1>1, <1>3 DEF IInv, TypeOK
<1>6. Calls' /\ Phases'
  BY <1>1 DEF IInv, Calls, Phases, Closed
<1>7. Buffer' /\ ServerLog'
  BY <1>1 DEF IInv, Buffer, ServerLog
<1>8. Requests'
  <2>1. Genuine(logReq)'
    BY <1>1, <1>2, <1>3 DEF IInv, Buffer, Genuine
  <2>2. QED
    BY <1>1, <2>1 DEF IInv, Requests, Genuine
<1>9. InFlight' /\ Answer'
  BY <1>1, <1>2, <1>3 DEF InFlight, Answer
<1>10. Flushing' /\ ArchivedAfterAck'
  <2>1. Submitted' = appended
    BY <1>1, <1>2, <1>3 DEF IInv, Buffer, Submitted
  <2>2. daemonAck = "acknowledged" => by = "closer" /\ Len(logRows) > 0
    BY <1>1 DEF IInv, Flushing
  <2>3. QED
    BY <1>1, <1>3, <2>1, <2>2 DEF IInv, Flushing, ArchivedAfterAck
<1>11. StateInv' /\ ResultInv' /\ OutputsInv'
  BY <1>1, <1>4 DEF IInv, StateInv, StateNotLost, ResultInv, ResultAfterLogs, OutputsInv
<1>12. QED
  BY <1>5, <1>6, <1>7, <1>8, <1>9, <1>10, <1>11 DEF IInv

\* ReportState takes a snapshot and consumes the flag.
LEMMA SendStateInv == ASSUME IInv, NEW by \in {"daemon", "closer"}, SendState(by) PROVE IInv'
<1>1. /\ holder = "free" /\ holder' = by /\ reply' = "waiting"
      /\ stateReq' = [ver |-> ver, outs |-> Unsent] /\ stateChanged' = "no"
      /\ by = "daemon" => daemon = "state"
      /\ by = "closer" => job = "flushState" /\ attempt < Attempts
      /\ UNCHANGED <<jobVars, rowVars, ver, outputs, result, serverResult, ctx, heartbeats, daemonVars,
                     notifyVars, ack, verdict, logReq, srvLogVars, srvVars>>
  BY DEF SendState, Caller
<1>2. stateReq' \in StateRequest /\ stateReq'.ver = ver
  BY <1>1 DEF IInv, TypeOK, StateRequest, Unsent
<1>3. ~LogCall /\ ~StateCall /\ ~LogCall' /\ StateCall'
  BY <1>1 DEF LogCall, StateCall
<1>4. TypeOK'
  BY <1>1, <1>2 DEF IInv, TypeOK, YesNo
<1>5. Calls' /\ Phases'
  BY <1>1 DEF IInv, Calls, Phases, Closed
<1>6. Buffer' /\ ServerLog' /\ Requests'
  BY <1>1 DEF IInv, Buffer, ServerLog, Requests, Genuine
<1>7. InFlight' /\ Answer'
  BY <1>3 DEF InFlight, Answer
<1>8. Flushing' /\ ArchivedAfterAck'
  BY <1>1, <1>3 DEF IInv, Flushing, ArchivedAfterAck
<1>9. StateInv'
  BY <1>1, <1>2, <1>3 DEF StateInv, StateNotLost
<1>10. ResultInv' /\ OutputsInv'
  BY <1>1, <1>3 DEF IInv, ResultInv, ResultAfterLogs, OutputsInv
<1>11. QED
  BY <1>4, <1>5, <1>6, <1>7, <1>8, <1>9, <1>10 DEF IInv


\* The server answers a log request.
LEMMA SrvAnswersLogInv == ASSUME IInv, SrvAnswersLog PROVE IInv'
<1>1. /\ LogCall /\ reply = "waiting" /\ SrvTakes(logReq) /\ reply' = "answered"
      /\ ack' = Len(srvLog') \/ (Len(srvLog') = Submitted /\ ack' = Submitted + 1)
      /\ UNCHANGED <<jobVars, rowVars, stateVars, ctx, heartbeats, daemonVars, notifyVars, holder,
                     verdict, logReq, stateReq, srvLost, late, srvVars>>
  BY DEF SrvAnswersLog
<1>2. /\ appended \in Nat /\ logOffset \in Nat /\ Len(logReq.rows) \in Nat /\ logReq \in LogRequest
      /\ closeMark \in Nat
  BY LogTypes DEF IInv
<1>3. TypeOK /\ ServerLog /\ Genuine(logReq)
  BY DEF IInv, Requests
<1>4. /\ srvLog' \in Seq(Nat) /\ Numbered(srvLog', 0)
      /\ Len(srvLog) <= Len(srvLog') /\ Len(srvLog') <= appended
      /\ Len(srvLog') \in Nat /\ Len(srvLog) \in Nat
      /\ srvArchived' \in YesNo /\ (srvArchived = "yes" => srvArchived' = "yes")
      /\ logReq.by = "closer" /\ Len(logReq.rows) > 0 /\ logReq.index + Len(logReq.rows) <= Len(srvLog') =>
           srvArchived' = "yes"
  BY <1>1, <1>2, <1>3, TakesEffect
<1>5. /\ Submitted \in Nat /\ Submitted' = Submitted /\ logReq.by = holder
      /\ Submitted = logReq.index + Len(logReq.rows)
  BY <1>1, <1>2 DEF Submitted, IInv, InFlight
<1>6. (LogCall' <=> LogCall) /\ ~StateCall /\ ~StateCall'
  BY <1>1 DEF LogCall, StateCall
<1>7. TypeOK'
  <2>1. ack' \in Nat
    BY <1>1, <1>4, <1>5
  <2>2. QED
    BY <1>1, <1>4, <2>1 DEF IInv, TypeOK
<1>8. Calls' /\ Phases' /\ Buffer' /\ Requests' /\ InFlight'
  BY <1>1, <1>6 DEF IInv, Calls, Phases, Closed, Buffer, Requests, Genuine, InFlight
<1>9. ServerLog'
  BY <1>1, <1>2, <1>4 DEF IInv, ServerLog
<1>10. Answer'
  BY <1>1, <1>4, <1>5 DEF Answer
<1>11. Flushing' /\ ArchivedAfterAck'
  BY <1>1, <1>2, <1>4, <1>5, <1>6 DEF IInv, Flushing, ArchivedAfterAck
<1>12. StateInv' /\ ResultInv' /\ OutputsInv'
  BY <1>1, <1>6 DEF IInv, StateInv, StateNotLost, ResultInv, ResultAfterLogs, OutputsInv
<1>13. QED
  BY <1>7, <1>8, <1>9, <1>10, <1>11, <1>12 DEF IInv

\* A delayed request reaches the server: its rows are the job's all the same.
LEMMA SrvGetsLateInv == ASSUME IInv, NEW r \in late, SrvGetsLate(r) PROVE IInv'
<1>1. /\ SrvTakes(r) /\ late' = late \ {r}
      /\ UNCHANGED <<jobVars, rowVars, stateVars, ctx, heartbeats, daemonVars, notifyVars, rpcVars,
                     srvLost, srvVars>>
  BY DEF SrvGetsLate
<1>2. /\ appended \in Nat /\ logOffset \in Nat /\ r \in LogRequest /\ closeMark \in Nat /\ ack \in Nat
      /\ Len(logReq.rows) \in Nat
  BY LogTypes DEF IInv
<1>3. TypeOK /\ ServerLog /\ Genuine(r)
  BY DEF IInv, Requests
<1>4. /\ srvLog' \in Seq(Nat) /\ Numbered(srvLog', 0)
      /\ Len(srvLog) <= Len(srvLog') /\ Len(srvLog') <= appended
      /\ Len(srvLog') \in Nat /\ Len(srvLog) \in Nat
      /\ srvArchived' \in YesNo /\ (srvArchived = "yes" => srvArchived' = "yes")
  BY <1>1, <1>2, <1>3, TakesEffect
<1>5. Submitted \in Nat /\ Submitted' = Submitted
  BY <1>1, <1>2 DEF Submitted
<1>6. (LogCall' <=> LogCall) /\ (StateCall' <=> StateCall)
  BY <1>1 DEF LogCall, StateCall
<1>7. TypeOK'
  BY <1>1, <1>4 DEF IInv, TypeOK
<1>8. Calls' /\ Phases' /\ Buffer' /\ Requests' /\ InFlight'
  BY <1>1, <1>6 DEF IInv, Calls, Phases, Closed, Buffer, Requests, Genuine, InFlight
<1>9. ServerLog'
  BY <1>1, <1>2, <1>4 DEF IInv, ServerLog
<1>10. Answer'
  BY <1>1, <1>2, <1>4, <1>5, <1>6 DEF IInv, Answer
<1>11. Flushing' /\ ArchivedAfterAck'
  BY <1>1, <1>2, <1>4, <1>5, <1>6 DEF IInv, Flushing, ArchivedAfterAck
<1>12. StateInv' /\ ResultInv' /\ OutputsInv'
  BY <1>1, <1>6 DEF IInv, StateInv, StateNotLost, ResultInv, ResultAfterLogs, OutputsInv
<1>13. QED
  BY <1>7, <1>8, <1>9, <1>10, <1>11, <1>12 DEF IInv

\* The server loses a tail.
LEMMA SrvLosesLogInv == ASSUME IInv, NEW n \in 0 .. (Len(srvLog) - 1), SrvLosesLog(n) PROVE IInv'
<1>1. /\ logFlush = "todo" /\ reply = "waiting" /\ srvLog' = SubSeq(srvLog, 1, n) /\ srvLost' = "yes"
      /\ UNCHANGED <<jobVars, rowVars, stateVars, ctx, heartbeats, daemonVars, notifyVars, rpcVars,
                     srvArchived, late, srvVars>>
  BY DEF SrvLosesLog
<1>2. /\ appended \in Nat /\ logOffset \in Nat /\ srvLog \in Seq(Nat) /\ Len(srvLog) \in Nat
  BY LogTypes DEF IInv
<1>3. n \in 0 .. Len(srvLog) /\ n < Len(srvLog)
  BY <1>2
<1>4. srvLog' \in Seq(Nat) /\ Len(srvLog') = n /\ Numbered(srvLog', 0)
  BY <1>1, <1>2, <1>3, TakeNumbered DEF IInv, ServerLog
<1>5. (LogCall' <=> LogCall) /\ (StateCall' <=> StateCall) /\ Submitted' = Submitted
  BY <1>1 DEF LogCall, StateCall, Submitted
<1>6. TypeOK'
  BY <1>1, <1>4 DEF IInv, TypeOK, YesNo
<1>7. Calls' /\ Phases' /\ Buffer' /\ Requests' /\ InFlight'
  BY <1>1, <1>5 DEF IInv, Calls, Phases, Closed, Buffer, Requests, Genuine, InFlight
<1>8. ServerLog'
  BY <1>1, <1>2, <1>3, <1>4 DEF IInv, ServerLog
<1>9. Answer' /\ Flushing' /\ ArchivedAfterAck'
  BY <1>1, <1>5 DEF IInv, Answer, Flushing, ArchivedAfterAck
<1>10. StateInv' /\ ResultInv' /\ OutputsInv'
  BY <1>1, <1>5 DEF IInv, StateInv, StateNotLost, ResultInv, ResultAfterLogs, OutputsInv
<1>11. QED
  BY <1>6, <1>7, <1>8, <1>9, <1>10 DEF IInv

\* The server answers a state report; only Close's carries a result.
LEMMA SrvAnswersStateInv == ASSUME IInv, SrvAnswersState PROVE IInv'
<1>1. /\ StateCall /\ reply = "waiting" /\ reply' = "answered" /\ srvSeen' = stateReq.ver
      /\ srvResult' = IF RequestResult(holder) # "unspecified" THEN RequestResult(holder) ELSE srvResult
      /\ verdict' = IF srvVerdict # "unspecified" THEN srvVerdict ELSE srvResult'
      /\ UNCHANGED <<jobVars, rowVars, stateVars, ctx, heartbeats, daemonVars, notifyVars, holder, ack,
                     logReq, stateReq, srvLogVars, srvVerdict>>
  BY DEF SrvAnswersState
<1>2. srvOuts \subseteq srvOuts' /\ srvOuts' \subseteq Outputs
  <2>1. PICK taken \in SUBSET stateReq.outs : srvOuts' = srvOuts \cup taken
    BY DEF SrvAnswersState
  <2>2. stateReq.outs \subseteq Outputs /\ srvOuts \subseteq Outputs
    BY DEF IInv, TypeOK, StateRequest
  <2>3. QED
    BY <2>1, <2>2
<1>3. ~LogCall /\ ~LogCall' /\ (StateCall' <=> StateCall)
  BY <1>1 DEF LogCall, StateCall
<1>4. TypeOK'
  <2>1. srvResult' \in Result /\ verdict' \in Result
    BY <1>1 DEF IInv, TypeOK, RequestResult
  <2>2. srvSeen' \in Nat
    BY <1>1 DEF IInv, TypeOK, StateRequest
  <2>3. QED
    BY <1>1, <1>2, <2>1, <2>2 DEF IInv, TypeOK
<1>5. Calls' /\ Phases' /\ Buffer' /\ Requests' /\ ServerLog'
  BY <1>1 DEF IInv, Calls, Phases, Closed, Buffer, Requests, Genuine, ServerLog
<1>6. InFlight' /\ Answer'
  BY <1>3 DEF InFlight, Answer
<1>7. Flushing' /\ ArchivedAfterAck'
  BY <1>1, <1>3 DEF IInv, Flushing, ArchivedAfterAck
<1>8. StateInv'
  BY <1>1, <1>3 DEF IInv, StateInv, StateNotLost
<1>9. ResultInv'
  <2>1. CASE holder = "closer"
    <3>1. job = "flushState"
      BY <1>1, <2>1 DEF StateCall
    <3>2. logFlush # "todo" /\ stateFlush # "ok" /\ result # "unspecified"
      BY <3>1 DEF IInv, Phases, Closed
    <3>3. srvResult' = result
      BY <1>1, <2>1, <3>2 DEF RequestResult
    <3>4. QED
      BY <1>1, <3>2, <3>3 DEF ResultInv, ResultAfterLogs
  <2>2. CASE holder # "closer"
    <3>1. srvResult' = srvResult
      BY <1>1, <2>2 DEF RequestResult
    <3>2. QED
      BY <1>1, <2>2, <3>1 DEF IInv, ResultInv, ResultAfterLogs
  <2>3. QED
    BY <2>1, <2>2
<1>10. OutputsInv'
  BY <1>1, <1>2 DEF IInv, OutputsInv
<1>11. QED
  BY <1>4, <1>5, <1>6, <1>7, <1>8, <1>9, <1>10 DEF IInv

\* The call is over: the request is gone.
LEMMA UnlockEffect ==
    ASSUME IInv, Unlock
    PROVE  /\ holder' = "free" /\ reply' = "waiting" /\ ack' = 0 /\ verdict' = "unspecified"
           /\ logReq' \in LogRequest /\ stateReq' \in StateRequest
           /\ logReq'.rows = << >> /\ logReq'.index = 0
           /\ ~LogCall' /\ ~StateCall'
<1>1. << >> \in Seq(Nat)
  BY EmptySeq
<1>2. logReq' \in LogRequest /\ logReq'.rows = << >> /\ logReq'.index = 0
  BY <1>1 DEF Unlock, NoLogReq, LogRequest
<1>3. stateReq' \in StateRequest
  BY DEF Unlock, NoStateReq, StateRequest
<1>4. QED
  BY <1>2, <1>3 DEF Unlock, LogCall, StateCall

\* Requests made before stay genuine, and an empty one is.
LEMMA UnlockRequests ==
    ASSUME IInv, Unlock, appended' = appended, late' = late \/ late' = late \cup {logReq}
    PROVE  Requests'
<1>1. logReq'.rows = << >> /\ logReq'.index = 0 /\ appended \in Nat
  BY UnlockEffect, LogTypes DEF IInv
<1>2. Len(<< >>) = 0
  BY EmptySeq
<1>3. Genuine(logReq)'
  BY <1>1, <1>2 DEF Genuine, Numbered
<1>4. \A r \in late' : Genuine(r)'
  BY DEF IInv, Requests, Genuine
<1>5. QED
  BY <1>3, <1>4 DEF Requests


\* What reportLog does to the buffer with an answer: it drops the rows the
\* server has, and no other.
LEMMA AckEffect ==
    ASSUME IInv, LogAnswered
    PROVE  /\ logRows' \in Seq(Nat) /\ Len(logRows') \in Nat /\ logOffset' \in Nat /\ appended' = appended
           /\ Buffer' /\ (srvLost = "no" => logOffset' <= Len(srvLog))
           /\ (Acked < Submitted \/ LogsLost) /\ Len(logReq.rows) > 0 => Len(logRows') > 0
           /\ ~(LogsLost \/ Acked < Submitted) => Submitted <= Len(srvLog) /\ ack >= Submitted
<1>1. LogCall /\ reply = "answered"
  BY DEF LogAnswered
<1>2. /\ appended \in Nat /\ logOffset \in Nat /\ ack \in Nat
      /\ logRows \in Seq(Nat) /\ Len(logRows) \in Nat /\ Len(srvLog) \in Nat
      /\ Len(logReq.rows) \in Nat
  BY LogTypes DEF IInv
<1>3. /\ Len(logReq.rows) <= Len(logRows) /\ Len(logRows) = appended - logOffset
      /\ Numbered(logRows, logOffset)
      /\ ack <= Len(srvLog) \/ Submitted <= Len(srvLog)
  BY <1>1 DEF IInv, InFlight, Buffer, Answer
<1>4. Submitted = logOffset + Len(logReq.rows) /\ Submitted \in Nat
  BY <1>2 DEF Submitted
<1>5. Acked \in Nat /\ Acked <= ack /\ Acked <= Submitted /\ (Acked = ack \/ Acked = Submitted)
  BY <1>2, <1>4 DEF Acked
<1>6. CASE LogsLost
  <2>1. UNCHANGED rowVars
    BY <1>6 DEF LogAnswered
  <2>2. QED
    BY <1>2, <1>3, <1>6, <2>1 DEF IInv, Buffer, ServerLog
<1>7. CASE ~LogsLost
  <2>1. PICK k \in Nat : k = Acked - logOffset
    BY <1>2, <1>4, <1>5, <1>7 DEF LogsLost
  <2>2. k \in 0 .. Len(logRows) /\ Acked = logOffset + k
    BY <1>2, <1>3, <1>4, <1>5, <2>1
  <2>3. logRows' = SubSeq(logRows, k + 1, Len(logRows)) /\ logOffset' = Acked /\ appended' = appended
    BY <1>7, <2>1 DEF LogAnswered
  <2>4. logRows' \in Seq(Nat) /\ Len(logRows') = Len(logRows) - k /\ Numbered(logRows', logOffset + k)
    BY <1>2, <1>3, <2>2, <2>3, DropNumbered
  <2>5. Buffer'
    <3>1. Len(logRows') = appended' - logOffset'
      BY <1>2, <1>3, <2>2, <2>3, <2>4
    <3>2. QED
      BY <2>2, <2>3, <2>4, <3>1 DEF Buffer
  <2>6. logOffset' <= Len(srvLog)
    BY <1>2, <1>3, <1>4, <1>5, <2>3
  <2>7. Acked < Submitted => Len(logRows') > 0
    BY <1>2, <1>3, <1>4, <2>2, <2>4
  <2>8. ~(Acked < Submitted) => Submitted <= Len(srvLog) /\ ack >= Submitted
    BY <1>2, <1>3, <1>4, <1>5
  <2>9. QED
    BY <1>2, <1>5, <1>7, <2>2, <2>3, <2>4, <2>5, <2>6, <2>7, <2>8
<1>8. QED
  BY <1>6, <1>7

\* The answer to a log report: the daemon goes on, Close retries or has flushed all.
LEMMA LogAnsweredInv == ASSUME IInv, LogAnswered PROVE IInv'
<1>1. /\ LogCall /\ reply = "answered" /\ Unlock
      /\ UNCHANGED <<stateVars, ctx, heartbeats, notifyVars, srvLogVars, srvVars>>
  BY DEF LogAnswered
<1>2. /\ logRows' \in Seq(Nat) /\ Len(logRows') \in Nat /\ logOffset' \in Nat /\ appended' = appended
      /\ Buffer' /\ (srvLost = "no" => logOffset' <= Len(srvLog))
      /\ (Acked < Submitted \/ LogsLost) /\ Len(logReq.rows) > 0 => Len(logRows') > 0
      /\ ~(LogsLost \/ Acked < Submitted) => Submitted <= Len(srvLog) /\ ack >= Submitted
  BY AckEffect
<1>3. /\ holder' = "free" /\ reply' = "waiting" /\ ack' = 0 /\ verdict' = "unspecified"
      /\ logReq' \in LogRequest /\ stateReq' \in StateRequest /\ ~LogCall' /\ ~StateCall'
  BY <1>1, UnlockEffect
<1>4. ~StateCall
  BY <1>1 DEF LogCall, StateCall
<1>5. Requests' /\ InFlight' /\ ServerLog' /\ Answer'
  <2>1. Requests'
    BY <1>1, <1>2, UnlockRequests
  <2>2. InFlight' /\ Answer'
    BY <1>3 DEF InFlight, Answer
  <2>3. ServerLog'
    BY <1>1, <1>2 DEF IInv, ServerLog
  <2>4. QED
    BY <2>1, <2>2, <2>3
<1>6. StateInv' /\ OutputsInv' /\ ResultAfterLogs /\ stateFlush \in Outcome
      /\ (stateFlush = "ok" => srvResult = result)
  <2>1. StateInv'
    BY <1>1, <1>3, <1>4 DEF IInv, StateInv, StateNotLost
  <2>2. stateFlush' = stateFlush
    BY <1>1 DEF LogAnswered, DaemonMoves, FlushRetries, FlushEnds, LogCall
  <2>3. OutputsInv'
    BY <1>1, <2>2 DEF IInv, OutputsInv
  <2>4. QED
    BY <2>1, <2>3 DEF IInv, ResultInv, TypeOK
<1>7. CASE holder = "daemon"
  <2>1. PICK to \in DaemonPc : DaemonMoves(to)
    BY <1>7 DEF LogAnswered, AfterLog, DaemonPc
  <2>2. daemonAck # "acknowledged"
    BY <1>7 DEF IInv, Calls, Flushing
  <2>3. TypeOK'
    BY <1>1, <1>2, <1>3, <2>1 DEF IInv, TypeOK, DaemonMoves, Result
  <2>4. Calls' /\ Phases'
    BY <1>1, <1>3, <2>1 DEF IInv, Calls, Phases, Closed, DaemonMoves
  <2>5. Flushing' /\ ArchivedAfterAck' /\ ResultInv'
    BY <1>1, <1>2, <1>3, <1>6, <2>1, <2>2
       DEF IInv, Flushing, ArchivedAfterAck, ResultInv, ResultAfterLogs, DaemonMoves
  <2>6. QED
    BY <1>2, <1>5, <1>6, <2>3, <2>4, <2>5 DEF IInv
<1>8. CASE holder = "closer" /\ (LogsLost \/ Acked < Submitted)
  <2>1. FlushRetries /\ UNCHANGED daemonVars /\ job = "flushLog" /\ attempt < Attempts
    BY <1>1, <1>8 DEF LogAnswered, LogCall, IInv, Calls
  <2>2. attempt' \in 0 .. Attempts
    BY <2>1, AttemptsAssumption DEF FlushRetries, IInv, TypeOK
  <2>3. TypeOK'
    BY <1>1, <1>2, <1>3, <2>1, <2>2 DEF IInv, TypeOK, FlushRetries, Result
  <2>4. Calls' /\ Phases'
    BY <1>1, <1>3, <2>1 DEF IInv, Calls, Phases, Closed, FlushRetries
  <2>5. daemonAck = "acknowledged" => Len(logRows') > 0
    BY <1>1, <1>2, <1>8 DEF IInv, Flushing
  <2>6. Flushing' /\ ArchivedAfterAck' /\ ResultInv'
    BY <1>1, <1>2, <1>3, <1>6, <2>1, <2>5
       DEF IInv, Flushing, ArchivedAfterAck, ResultInv, ResultAfterLogs, FlushRetries
  <2>7. QED
    BY <1>2, <1>5, <1>6, <2>3, <2>4, <2>6 DEF IInv
<1>9. CASE holder = "closer" /\ ~(LogsLost \/ Acked < Submitted)
  <2>1. FlushEnds("ok") /\ UNCHANGED daemonVars /\ job = "flushLog"
    BY <1>1, <1>9 DEF LogAnswered, LogCall
  <2>2. /\ job' = "flushState" /\ logFlush' = "ok" /\ attempt' = 0
        /\ UNCHANGED <<stateFlush, daemonAck, closeMark>>
    BY <2>1 DEF FlushEnds
  <2>3. TypeOK'
    BY <1>1, <1>2, <1>3, <2>1, <2>2, AttemptsAssumption DEF IInv, TypeOK, Result, JobPc, Outcome
  <2>4. Calls' /\ Phases'
    BY <1>1, <1>3, <2>1, <2>2 DEF IInv, Calls, Phases, Closed
  <2>5. closeMark <= Len(srvLog)
    <3>1. closeMark <= Submitted /\ Submitted <= Len(srvLog)
      BY <1>1, <1>2, <1>9 DEF IInv, Flushing
    <3>2. closeMark \in Nat /\ Len(srvLog) \in Nat /\ Submitted \in Nat
      BY LogTypes DEF IInv, Submitted
    <3>3. QED
      BY <3>1, <3>2
  <2>6. Flushing'
    BY <1>1, <1>2, <1>3, <2>1, <2>2, <2>5 DEF IInv, Flushing
  <2>7. ArchivedAfterAck'
    <3>1. daemonAck = "acknowledged" => Len(logReq.rows) > 0
      BY <1>1 DEF IInv, Flushing
    <3>2. daemonAck = "acknowledged" => srvArchived = "yes"
      BY <1>1, <1>2, <1>9, <3>1 DEF IInv, Answer
    <3>3. QED
      BY <1>1, <2>2, <3>2 DEF ArchivedAfterAck
  <2>8. ResultInv'
    BY <1>1, <1>3, <1>6, <2>2 DEF ResultInv, ResultAfterLogs
  <2>9. QED
    BY <1>2, <1>5, <1>6, <2>3, <2>4, <2>6, <2>7, <2>8 DEF IInv
<1>10. QED
  BY <1>1, <1>7, <1>8, <1>9 DEF LogCall

\* The answer to a state report, likewise for the result and the outputs.
LEMMA StateAnsweredInv == ASSUME IInv, StateAnswered PROVE IInv'
<1>1. /\ StateCall /\ reply = "answered" /\ Unlock /\ AdoptVerdict /\ reported' = "yes"
      /\ outputs' = [k \in Outputs |->
                     IF k \in srvOuts /\ outputs[k] # "unset" THEN "sent" ELSE outputs[k]]
      /\ UNCHANGED <<rowVars, ver, stateChanged, result, heartbeats, notifyVars, srvLogVars, srvVars>>
  BY DEF StateAnswered
<1>2. /\ holder' = "free" /\ reply' = "waiting" /\ ack' = 0 /\ verdict' = "unspecified"
      /\ logReq' \in LogRequest /\ stateReq' \in StateRequest /\ ~LogCall' /\ ~StateCall'
  BY <1>1, UnlockEffect
<1>3. ~LogCall
  BY <1>1 DEF LogCall, StateCall
<1>4. Buffer' /\ Requests' /\ InFlight' /\ ServerLog' /\ Answer'
  <2>1. Requests'
    BY <1>1, UnlockRequests
  <2>2. QED
    BY <1>1, <1>2, <2>1 DEF IInv, Buffer, InFlight, ServerLog, Answer
<1>5. StateInv'
  BY <1>1, <1>2 DEF IInv, StateInv, StateNotLost
<1>6. serverResult' \in Result /\ ctx' \in {"live", "cancelled", "expired"}
  BY <1>1 DEF IInv, TypeOK, AdoptVerdict
<1>7. /\ outputs' \in [Outputs -> {"unset", "pending", "sent"}]
      /\ \A k \in Outputs : outputs'[k] = "sent" => k \in srvOuts
      /\ \A k \in Outputs : outputs'[k] # "unset" <=> outputs[k] # "unset"
  BY <1>1 DEF IInv, TypeOK, OutputsInv
<1>8. CASE holder = "daemon"
  <2>1. daemon' = "check" /\ UNCHANGED jobVars
    BY <1>8 DEF StateAnswered
  <2>2. TypeOK'
    BY <1>1, <1>2, <1>6, <1>7, <2>1 DEF IInv, TypeOK, DaemonPc, YesNo, Result
  <2>3. Calls' /\ Phases'
    BY <1>1, <1>2, <2>1 DEF IInv, Calls, Phases, Closed
  <2>4. daemonAck # "acknowledged"
    BY <1>8 DEF IInv, Calls, Flushing
  <2>5. Flushing' /\ ArchivedAfterAck' /\ ResultInv' /\ OutputsInv'
    BY <1>1, <1>2, <1>7, <2>1, <2>4
       DEF IInv, Flushing, ArchivedAfterAck, ResultInv, ResultAfterLogs, OutputsInv
  <2>6. QED
    BY <1>4, <1>5, <2>2, <2>3, <2>5 DEF IInv
<1>9. CASE holder = "closer" /\ ~OutputsTaken
  <2>1. FlushRetries /\ UNCHANGED daemon /\ job = "flushState" /\ attempt < Attempts
    BY <1>1, <1>9 DEF StateAnswered, StateCall, IInv, Calls
  <2>2. attempt' \in 0 .. Attempts
    BY <2>1, AttemptsAssumption DEF FlushRetries, IInv, TypeOK
  <2>3. TypeOK'
    BY <1>1, <1>2, <1>6, <1>7, <2>1, <2>2 DEF IInv, TypeOK, FlushRetries, YesNo, Result
  <2>4. Calls' /\ Phases'
    BY <1>1, <1>2, <2>1 DEF IInv, Calls, Phases, Closed, FlushRetries
  <2>5. Flushing' /\ ArchivedAfterAck' /\ ResultInv' /\ OutputsInv'
    BY <1>1, <1>2, <1>7, <2>1
       DEF IInv, Flushing, ArchivedAfterAck, ResultInv, ResultAfterLogs, OutputsInv, FlushRetries
  <2>6. QED
    BY <1>4, <1>5, <2>3, <2>4, <2>5 DEF IInv
<1>10. CASE holder = "closer" /\ OutputsTaken
  <2>1. FlushEnds("ok") /\ UNCHANGED daemon /\ job = "flushState"
    BY <1>1, <1>10 DEF StateAnswered, StateCall
  <2>2. /\ job' = "done" /\ stateFlush' = "ok" /\ attempt' = 0
        /\ UNCHANGED <<logFlush, daemonAck, closeMark>>
    BY <2>1 DEF FlushEnds
  <2>3. TypeOK'
    BY <1>1, <1>2, <1>6, <1>7, <2>1, <2>2, AttemptsAssumption
       DEF IInv, TypeOK, YesNo, Result, JobPc, Outcome
  <2>4. Calls' /\ Phases'
    BY <1>1, <1>2, <2>1, <2>2 DEF IInv, Calls, Phases, Closed
  <2>5. Flushing' /\ ArchivedAfterAck'
    BY <1>1, <1>2, <2>1, <2>2 DEF IInv, Flushing, ArchivedAfterAck
  <2>6. ResultInv'
    BY <1>1, <1>2, <1>10, <2>2 DEF IInv, ResultInv, ResultAfterLogs
  <2>7. OutputsInv'
    <3>1. \A k \in Outputs : outputs[k] \in {"unset", "pending", "sent"}
      BY DEF IInv, TypeOK
    <3>2. \A k \in Outputs : outputs[k] # "unset" => k \in srvOuts
      BY <1>10, <3>1 DEF IInv, OutputsInv, OutputsTaken, Unsent
    <3>3. QED
      BY <1>1, <1>7, <3>2 DEF OutputsInv
  <2>8. QED
    BY <1>4, <1>5, <2>3, <2>4, <2>5, <2>6, <2>7 DEF IInv
<1>11. QED
  BY <1>1, <1>8, <1>9, <1>10 DEF StateCall

\* A failed call leaves everything to be reported again.
LEMMA RpcFailedInv == ASSUME IInv, RpcFailed PROVE IInv'
<1>1. /\ holder # "free" /\ Unlock /\ FailedState
      /\ late' = late \/ late' = late \cup {logReq}
      /\ UNCHANGED <<rowVars, ver, outputs, result, serverResult, ctx, heartbeats, notifyVars,
                     srvLog, srvArchived, srvLost, srvVars>>
  BY DEF RpcFailed
<1>2. /\ holder' = "free" /\ reply' = "waiting" /\ ack' = 0 /\ verdict' = "unspecified"
      /\ logReq' \in LogRequest /\ stateReq' \in StateRequest /\ ~LogCall' /\ ~StateCall'
  BY <1>1, UnlockEffect
<1>3. late' \subseteq LogRequest /\ stateChanged' \in YesNo
  BY <1>1 DEF IInv, TypeOK, FailedState, YesNo
<1>4. Buffer' /\ Requests' /\ InFlight' /\ ServerLog' /\ Answer'
  <2>1. Requests'
    BY <1>1, UnlockRequests
  <2>2. QED
    BY <1>1, <1>2, <2>1 DEF IInv, Buffer, InFlight, ServerLog, Answer
<1>5. StateInv'
  BY <1>1, <1>2 DEF IInv, StateInv, StateNotLost, FailedState
<1>6. CASE holder = "daemon"
  <2>1. PICK to \in DaemonPc : DaemonMoves(to)
    BY <1>6 DEF RpcFailed, AfterLog, DaemonPc
  <2>2. TypeOK'
    BY <1>1, <1>2, <1>3, <2>1 DEF IInv, TypeOK, DaemonMoves, Result
  <2>3. Calls' /\ Phases'
    BY <1>1, <1>2, <2>1 DEF IInv, Calls, Phases, Closed, DaemonMoves
  <2>4. daemonAck # "acknowledged"
    BY <1>6 DEF IInv, Calls, Flushing
  <2>5. Flushing' /\ ArchivedAfterAck' /\ ResultInv' /\ OutputsInv'
    BY <1>1, <1>2, <2>1, <2>4
       DEF IInv, Flushing, ArchivedAfterAck, ResultInv, ResultAfterLogs, OutputsInv, DaemonMoves
  <2>6. QED
    BY <1>4, <1>5, <2>2, <2>3, <2>5 DEF IInv
<1>7. CASE holder = "closer"
  <2>1. FlushRetries /\ UNCHANGED daemonVars /\ attempt < Attempts
    BY <1>7 DEF RpcFailed, IInv, Calls
  <2>2. attempt' \in 0 .. Attempts
    BY <2>1, AttemptsAssumption DEF FlushRetries, IInv, TypeOK
  <2>3. TypeOK'
    BY <1>1, <1>2, <1>3, <2>1, <2>2 DEF IInv, TypeOK, FlushRetries, Result
  <2>4. Calls' /\ Phases'
    BY <1>1, <1>2, <2>1 DEF IInv, Calls, Phases, Closed, FlushRetries
  <2>5. Flushing' /\ ArchivedAfterAck' /\ ResultInv' /\ OutputsInv'
    BY <1>1, <1>2, <2>1
       DEF IInv, Flushing, ArchivedAfterAck, ResultInv, ResultAfterLogs, OutputsInv, FlushRetries
  <2>6. QED
    BY <1>4, <1>5, <2>3, <2>4, <2>5 DEF IInv
<1>8. QED
  BY <1>1, <1>6, <1>7 DEF IInv, TypeOK


-----------------------------------------------------------------------------
(* The theorems.                                                           *)

\* A task starts with nothing to report.
LEMMA InitInv == Init => IInv
<1> SUFFICES ASSUME Init PROVE IInv
  OBVIOUS
<1>1. << >> \in Seq(Nat) /\ Len(<< >>) = 0
  BY EmptySeq
<1>2. NoLogReq \in LogRequest /\ NoStateReq \in StateRequest /\ NoLogReq.rows = << >> /\ NoLogReq.index = 0
  BY <1>1 DEF NoLogReq, LogRequest, NoStateReq, StateRequest
<1>3. TypeOK
  BY <1>1, <1>2, AttemptsAssumption
     DEF Init, TypeOK, JobPc, DaemonPc, Outcome, YesNo, Result, Final
<1>4. ~LogCall /\ ~StateCall
  BY DEF Init, LogCall, StateCall
<1>5. Calls /\ Phases
  BY DEF Init, Calls, Phases, Closed
<1>6. Buffer /\ Requests /\ ServerLog
  BY <1>1, <1>2 DEF Init, Buffer, Requests, ServerLog, Genuine, Numbered
<1>7. InFlight /\ Answer /\ Flushing /\ ArchivedAfterAck
  BY <1>4 DEF Init, InFlight, Answer, Flushing, ArchivedAfterAck
<1>8. StateInv /\ ResultInv /\ OutputsInv
  BY <1>4 DEF Init, StateInv, StateNotLost, ResultInv, ResultAfterLogs, OutputsInv
<1>9. QED
  BY <1>3, <1>5, <1>6, <1>7, <1>8 DEF IInv

\* Every step keeps the invariant.
LEMMA StepInv == IInv /\ [Next]_vars => IInv'
<1> SUFFICES ASSUME IInv, [Next]_vars PROVE IInv'
  OBVIOUS
<1>1. CASE JobStep
  BY <1>1, SetOutputsInv, RunEndsInv DEF JobStep
<1>2. CASE CloseStep
  BY <1>2, CloseMarkInv, CloseWaitInv, CloseSentinelInv, FlushGivesUpInv, SendLogInv, SendStateInv
     DEF CloseStep
<1>3. CASE Records
  BY <1>3, RecordsInv
<1>4. CASE DaemonStep \/ Ticks
  BY <1>4, DaemonQuietInv, SendLogInv, SendStateInv DEF DaemonStep, Ticks
<1>5. CASE RpcEnds
  BY <1>5, LogAnsweredInv, StateAnsweredInv, RpcFailedInv DEF RpcEnds
<1>6. CASE Server
  BY <1>6, SrvAnswersLogInv, SrvAnswersStateInv, SrvGetsLateInv, SrvLosesLogInv, EnvironmentInv
     DEF Server
<1>7. CASE (\E how \in Endings : CtxEnds(how)) \/ Terminated \/ UNCHANGED vars
  BY <1>7, EnvironmentInv DEF Terminated
<1>8. QED
  BY <1>1, <1>2, <1>3, <1>4, <1>5, <1>6, <1>7 DEF Next

\* So it always holds.
LEMMA Invariance == Spec => []IInv
<1>1. QED
  BY InitInv, StepInv, PTL DEF Spec

\* The reporter's record and the server's stay well-formed; in particular
\* flushFinal never makes more than Attempts attempts.
THEOREM TypeCorrect == Spec => []TypeOK
<1>1. IInv => TypeOK
  BY DEF IInv
<1>2. QED
  BY <1>1, Invariance, PTL

\* No row is dropped between the job and the archive, and Close says so if one
\* is: the buffer holds exactly the rows after the acknowledged ones, a flush
\* the daemon made way for archives the log, and a Close without an error
\* leaves every row, the result and every output on the server.
THEOREM LogTheorem == Spec => []LogIsWhole
<1>1. IInv => LogIsWhole
  <2> SUFFICES ASSUME IInv PROVE LogIsWhole
    OBVIOUS
  <2>1. BufferIsTail
    BY DEF IInv, Buffer, ServerLog, Numbered, BufferIsTail
  <2>2. CloseIsHonest
    BY DEF IInv, Flushing, ResultInv, OutputsInv, CloseIsHonest
  <2>3. QED
    BY <2>1, <2>2 DEF IInv, LogIsWhole
<1>2. QED
  BY <1>1, Invariance, PTL

\* No change of the task's state is forgotten, whatever RPC fails, and the
\* result is told only after the log.
THEOREM StateTheorem == Spec => []StateIsReported
<1>1. IInv => StateIsReported
  BY DEF IInv, StateInv, ResultInv, StateIsReported
<1>2. QED
  BY <1>1, Invariance, PTL

-----------------------------------------------------------------------------
(* The refinement of LogStream.                                            *)

\* What a step may do to the rows and to the server's log.
StreamStep ==
    \/ UNCHANGED <<appended, srvLog>>
    \/ appended' > appended /\ UNCHANGED srvLog
    \/ UNCHANGED appended /\ Len(srvLog) <= Len(srvLog')
    \/ UNCHANGED appended /\ \E n \in 0 .. (Len(srvLog) - 1) : srvLog' = SubSeq(srvLog, 1, n)

\* Rows are produced one at a time.
LEMMA AppendStreams == ASSUME IInv, NEW row \in BOOLEAN, AppendIf(row), UNCHANGED srvLog PROVE StreamStep
<1>1. appended \in Nat
  BY LogTypes DEF IInv
<1>2. QED
  BY <1>1 DEF AppendIf, AppendLogRow, StreamStep

\* Every step does one of these.
LEMMA NextStreams == ASSUME IInv, [Next]_vars PROVE StreamStep
<1>1. CASE JobStep
  <2>1. CASE \E accepted \in SUBSET Outputs, row \in BOOLEAN : SetOutputs(accepted, row)
    BY <2>1, AppendStreams DEF SetOutputs
  <2>2. CASE StopHeartbeats \/ RunReturns
    BY <2>2 DEF StopHeartbeats, RunReturns, StreamStep
  <2>3. QED
    BY <1>1, <2>1, <2>2 DEF JobStep
<1>2. CASE CloseStep
  <2>1. CASE \E words \in BOOLEAN : CloseMark(words)
    BY <2>1, AppendStreams DEF CloseMark
  <2>2. CASE CloseSentinel
    BY <2>2, AppendStreams DEF CloseSentinel
  <2>3. CASE (\E how \in {"acknowledged", "timeout"} : CloseWait(how)) \/ FlushGivesUp
    BY <2>3 DEF CloseWait, FlushGivesUp, StreamStep
  <2>4. CASE SendLog("closer") \/ SendState("closer")
    BY <2>4 DEF SendLog, SendState, StreamStep
  <2>5. QED
    BY <1>2, <2>1, <2>2, <2>3, <2>4 DEF CloseStep
<1>3. CASE Records
  <2>1. CASE \E row, urgent \in BOOLEAN : Handle(row, urgent)
    BY <2>1, AppendStreams DEF Handle
  <2>2. CASE \E res \in JobResults, row \in BOOLEAN : HandleJobResult(res, row)
    BY <2>2, AppendStreams DEF HandleJobResult
  <2>3. CASE Logf
    <3>1. AppendIf(TRUE)
      BY <2>3 DEF Logf, AppendIf
    <3>2. QED
      BY <2>3, <3>1, AppendStreams DEF Logf
  <2>4. QED
    BY <1>3, <2>1, <2>2, <2>3 DEF Records
<1>4. CASE DaemonStep \/ Ticks
  <2>1. UNCHANGED <<appended, srvLog>>
    BY <1>4 DEF DaemonStep, Ticks, LogTick, StateTick, LogNotified, StateNotified, DaemonStopped,
                DaemonSelects, NoRows, NoChange, DaemonChecksClosed, SendLog, SendState
  <2>2. QED
    BY <2>1 DEF StreamStep
<1>5. CASE RpcEnds
  <2>1. UNCHANGED <<appended, srvLog>>
    BY <1>5 DEF RpcEnds, LogAnswered, StateAnswered, RpcFailed
  <2>2. QED
    BY <2>1 DEF StreamStep
<1>6. CASE Server
  <2>1. CASE SrvAnswersLog
    <3>1. Len(srvLog) <= Len(srvLog')
      BY <2>1, LogTypes, TakesEffect DEF SrvAnswersLog, IInv, Requests
    <3>2. QED
      BY <2>1, <3>1 DEF SrvAnswersLog, StreamStep
  <2>2. CASE \E r \in late : SrvGetsLate(r)
    <3>1. Len(srvLog) <= Len(srvLog')
      BY <2>2, LogTypes, TakesEffect DEF SrvGetsLate, IInv, Requests
    <3>2. QED
      BY <2>2, <3>1 DEF SrvGetsLate, StreamStep
  <2>3. CASE \E n \in 0 .. (Len(srvLog) - 1) : SrvLosesLog(n)
    BY <2>3 DEF SrvLosesLog, StreamStep
  <2>4. CASE SrvAnswersState \/ \E res \in Verdicts : SrvDecides(res)
    BY <2>4 DEF SrvAnswersState, SrvDecides, StreamStep
  <2>5. QED
    BY <1>6, <2>1, <2>2, <2>3, <2>4 DEF Server
<1>7. CASE (\E how \in Endings : CtxEnds(how)) \/ Terminated \/ UNCHANGED vars
  BY <1>7 DEF CtxEnds, Terminated, vars, StreamStep
<1>8. QED
  BY <1>1, <1>2, <1>3, <1>4, <1>5, <1>6, <1>7 DEF Next

\* A step of the reporter and the server is a step of the stream, or none.
LEMMA StreamRefined ==
    ASSUME IInv, IInv', [Next]_vars
    PROVE  [Stream!Next]_(Stream!vars)
<1>1. StreamStep
  BY NextStreams
<1>2. /\ srvLog \in Seq(Nat) /\ Len(srvLog) \in Nat /\ Numbered(srvLog, 0) /\ appended \in Nat
      /\ Len(srvLog) <= appended
  BY LogTypes DEF IInv, ServerLog
<1>3. /\ srvLog' \in Seq(Nat) /\ Len(srvLog') \in Nat /\ Numbered(srvLog', 0) /\ Len(srvLog') <= appended'
  <2>1. TypeOK' /\ ServerLog'
    BY DEF IInv
  <2>2. srvLog' \in Seq(Nat) /\ Numbered(srvLog', 0) /\ Len(srvLog') <= appended'
    BY <2>1 DEF TypeOK, ServerLog
  <2>3. QED
    BY <2>2, LenProperties
<1>4. CASE UNCHANGED <<appended, srvLog>>
  BY <1>4 DEF Stream!vars
<1>5. CASE appended' > appended /\ UNCHANGED srvLog
  BY <1>5 DEF Stream!Next, Stream!Produce
<1>6. CASE UNCHANGED appended /\ \E n \in 0 .. (Len(srvLog) - 1) : srvLog' = SubSeq(srvLog, 1, n)
  BY <1>6 DEF Stream!Next, Stream!Lose
<1>7. CASE UNCHANGED appended /\ Len(srvLog) <= Len(srvLog')
  <2>1. CASE Len(srvLog') = Len(srvLog)
    <3>1. srvLog' = srvLog
      BY <1>2, <1>3, <2>1, NumberedEqual
    <3>2. QED
      BY <1>7, <3>1 DEF Stream!vars
  <2>2. CASE Len(srvLog') # Len(srvLog)
    <3>1. PICK k \in Nat : k = Len(srvLog') - Len(srvLog)
      <4>1. \A m, n \in Nat : m <= n => n - m \in Nat
        OBVIOUS
      <4>2. Len(srvLog') - Len(srvLog) \in Nat
        BY <1>2, <1>3, <1>7, <4>1
      <4>3. QED
        BY <4>2
    <3>2. k \in 1 .. (appended - Len(srvLog)) /\ Len(srvLog') = Len(srvLog) + k
      BY <1>2, <1>3, <1>7, <2>2, <3>1
    <3>3. srvLog' = [i \in 1 .. Len(srvLog) + k |-> srvLog'[i]]
      BY <1>3, <3>2, LenProperties
    <3>4. \A i \in 1 .. Len(srvLog) + k : srvLog'[i] = IF i <= Len(srvLog) THEN srvLog[i] ELSE i
      BY <1>2, <1>3, <3>1, <3>2 DEF Numbered
    <3>5. srvLog' = [i \in 1 .. (Len(srvLog) + k) |-> IF i <= Len(srvLog) THEN srvLog[i] ELSE i]
      BY <3>3, <3>4
    <3>6. Stream!Deliver(k)
      BY <1>7, <3>5 DEF Stream!Deliver
    <3>7. QED
      BY <3>2, <3>6 DEF Stream!Next
  <2>3. QED
    BY <2>1, <2>2
<1>8. QED
  BY <1>1, <1>4, <1>5, <1>6, <1>7 DEF StreamStep

\* The reporter with its server implements LogStream: the server's log is, at
\* any time, the rows the job produced, in order, each once and without a hole.
THEOREM StreamTheorem == Spec => LogStreamSpec
<1>1. Init => Stream!Init
  BY DEF Init, Stream!Init
<1>2. Spec => []IInv
  BY Invariance
<1>3. IInv /\ IInv' /\ [Next]_vars => [Stream!Next]_(Stream!vars)
  BY StreamRefined
<1>4. QED
  BY <1>1, <1>2, <1>3, PTL DEF Spec, LogStreamSpec, Stream!Spec

-----------------------------------------------------------------------------
(* Reported steps: the inductive invariant.                                *)

StepStages == {"pre", "main", "post"}
StepResults == {"none", "success", "failure", "cancelled", "skipped"}
JobParts == {"setup", "pre", "main", "post", "complete", "closing", "over", "closed"}

ShownEntry ==
    [stage : StepStages \cup {"setup", "cleanup"}, n : 0 .. StepCount, res : StepResults,
     st : {"new", "running", "stopped"}, idx : Nat, len : Nat]
RecordType ==
    [stage : StepStages \cup {"none", "complete"}, n : 0 .. StepCount, started : BOOLEAN, res : StepResults,
     error : BOOLEAN, level : {"info", "debug"}, raw : BOOLEAN, nested : BOOLEAN,
     job : {"none", "success", "failure", "cancelled"}]

\* The place of a step in the order in which a job goes through them.
Rank(stage, n) ==
    IF stage = "setup" THEN 0
    ELSE IF stage = "pre" THEN n
    ELSE IF stage = "main" THEN StepCount + n
    ELSE IF stage = "post" THEN 3 * StepCount + 1 - n
    ELSE 3 * StepCount + 1

RankOf(v) == Rank(v.stage, v.n)
AtRank == Rank(at.part, at.n)
CurRank == Rank(cur[1], cur[2])

AtOK ==
    /\ at \in [part : JobParts, n : 0 .. StepCount,
               ph : {"enter", "logged", "body", "output", "nested", "continued", "failing", "failed"}]
    /\ at.part \in StepStages <=> at.n # 0
    /\ at.ph \in {"body", "output", "nested", "continued", "failing"} => at.part \in StepStages

ShownTypeOK ==
    /\ shown \in Seq(ShownEntry)
    /\ cur \in (StepStages \cup {"setup", "cleanup"}) \X (0 .. StepCount)
    /\ steps \in [Steps -> ShownEntry]
    /\ jobLog \in Seq((StepStages \cup {"none", "complete"}) \X (0 .. StepCount))
    /\ stateResult \in {"none", "success", "failure", "cancelled"}
    /\ AtOK
    /\ ended \in {"no", "failed", "cancelled"}
    /\ lateRow \in BOOLEAN

-----------------------------------------------------------------------------
(* What a record does to an entry.                                         *)

Entered(v, key) ==
    IF KeyOf(v) = key THEN [v EXCEPT !.st = IF @ = "new" THEN "running" ELSE @]
    ELSE IF KeyOf(v) = Setup /\ cur = Setup /\ v.st # "stopped"
         THEN [v EXCEPT !.st = "stopped", !.res = IF @ = "none" THEN "success" ELSE @]
    ELSE v

Settled(v, key, rec) == IF KeyOf(v) = key THEN Judged(v, rec) ELSE v

Finished(u, jobResult, closing) ==
    LET v == IF closing /\ u.st = "running" THEN [u EXCEPT !.st = "stopped"] ELSE u
    IN IF v.res # "none" \/ (~closing /\ v.st # "new" /\ v.stage = "cleanup") THEN v
       ELSE [v EXCEPT !.res = ResultAtEnd(v, jobResult), !.st = IF @ = "new" THEN @ ELSE "stopped"]

Concluded(v, rec) == IF rec.job = "none" THEN v ELSE Finished(v, rec.job, FALSE)

Rowed(v, key, logged) == IF logged /\ KeyOf(v) = key THEN Counts(v) ELSE v

Given(v, rec) ==
    Rowed(Concluded(Settled(Entered(v, reportedStepOf(rec)), reportedStepOf(rec), rec), rec),
          reportedStepOf(rec), Logged(rec))

\* Whether the record gives its own step a result.
Rules(rec) == Own(rec) /\ rec.res # "none" /\ ~rec.nested

\* Entering a step.
LEMMA EnteredEffect ==
    ASSUME NEW v \in ShownEntry, NEW key
    PROVE  /\ Entered(v, key) \in ShownEntry
           /\ Entered(v, key).stage = v.stage /\ Entered(v, key).n = v.n
           /\ Entered(v, key).idx = v.idx /\ Entered(v, key).len = v.len
           /\ v.res # "none" => Entered(v, key).res = v.res
           /\ v.res = "none" /\ KeyOf(v) # Setup => Entered(v, key).res = "none"
           /\ KeyOf(v) = key => Entered(v, key).st # "new" /\ Entered(v, key).res = v.res
           /\ Entered(v, key).st = "new" => v.st = "new" /\ Entered(v, key).res = v.res
BY DEF Entered, ShownEntry, StepResults, KeyOf

\* The result a record gives.
LEMMA SettledEffect ==
    ASSUME NEW v \in ShownEntry, NEW key, NEW rec \in RecordType
    PROVE  /\ Settled(v, key, rec) \in ShownEntry
           /\ Settled(v, key, rec).stage = v.stage /\ Settled(v, key, rec).n = v.n
           /\ Settled(v, key, rec).idx = v.idx /\ Settled(v, key, rec).len = v.len
           /\ KeyOf(v) # key => Settled(v, key, rec) = v
           /\ KeyOf(v) = key /\ Rules(rec) => Settled(v, key, rec).res = rec.res
           /\ v.res # "none" /\ ~Rules(rec) => Settled(v, key, rec).res = v.res
           /\ v.res = "none" /\ ~Rules(rec) /\ (Own(rec) \/ ~rec.error) => Settled(v, key, rec).res = "none"
           /\ v.st # "new" => Settled(v, key, rec).st # "new"
<1>1. CASE KeyOf(v) # key
  BY <1>1 DEF Settled
<1>2. CASE KeyOf(v) = key
  <2>1. Settled(v, key, rec) = Judged(v, rec)
    BY <1>2 DEF Settled
  <2>2. rec.res \in StepResults
    BY DEF RecordType
  <2>3. CASE Rules(rec)
    <3>1. Judged(v, rec) = [v EXCEPT !.res = rec.res, !.st = "stopped"]
      BY <2>3 DEF Judged, Rules
    <3>2. QED
      BY <1>2, <2>1, <2>2, <2>3, <3>1, ZenonT(40) DEF ShownEntry
  <2>4. CASE ~Rules(rec)
    <3>1. Judged(v, rec) = IF ~Own(rec) /\ rec.error /\ v.res = "none" THEN [v EXCEPT !.res = "failure"] ELSE v
      BY <2>4 DEF Judged, Rules, MayFail
    <3>2. QED
      BY <1>2, <2>1, <2>4, <3>1 DEF ShownEntry, StepResults
  <2>5. QED
    BY <2>3, <2>4
<1>3. QED
  BY <1>1, <1>2

\* The end of the job.
LEMMA FinishedEffect ==
    ASSUME NEW v \in ShownEntry, NEW r \in StepResults \ {"none"}, NEW closing \in BOOLEAN
    PROVE  /\ Finished(v, r, closing) \in ShownEntry
           /\ Finished(v, r, closing).stage = v.stage /\ Finished(v, r, closing).n = v.n
           /\ Finished(v, r, closing).idx = v.idx /\ Finished(v, r, closing).len = v.len
           /\ v.res # "none" => Finished(v, r, closing).res = v.res
           /\ Finished(v, r, closing).st = "new" =>
                v.st = "new" /\ (v.res = "none" => Finished(v, r, closing).res \in {"skipped", "cancelled"})
           /\ closing => Finished(v, r, closing).res # "none" /\ Finished(v, r, closing).st # "running"
BY ZenonT(40) DEF Finished, ShownEntry, StepResults, ResultAtEnd

\* Counting a row.
LEMMA RowedEffect ==
    ASSUME NEW v \in ShownEntry, NEW key, NEW logged \in BOOLEAN, Len(jobLog) \in Nat
    PROVE  /\ Rowed(v, key, logged) \in ShownEntry
           /\ Rowed(v, key, logged).stage = v.stage /\ Rowed(v, key, logged).n = v.n
           /\ Rowed(v, key, logged).res = v.res /\ Rowed(v, key, logged).st = v.st
           /\ ~(logged /\ KeyOf(v) = key) => Rowed(v, key, logged).idx = v.idx /\ Rowed(v, key, logged).len = v.len
           /\ logged /\ KeyOf(v) = key =>
                /\ Rowed(v, key, logged).len = v.len + 1
                /\ Rowed(v, key, logged).idx = IF v.len = 0 THEN Len(jobLog) ELSE v.idx
<1>1. CASE ~(logged /\ KeyOf(v) = key)
  BY <1>1 DEF Rowed
<1>2. CASE logged /\ KeyOf(v) = key
  <2>1. Rowed(v, key, logged) = [v EXCEPT !.idx = IF v.len = 0 THEN Len(jobLog) ELSE v.idx, !.len = v.len + 1]
    BY <1>2 DEF Rowed, Counts, ShownEntry
  <2>2. v.len + 1 \in Nat /\ (IF v.len = 0 THEN Len(jobLog) ELSE v.idx) \in Nat
    BY DEF ShownEntry
  <2>3. Rowed(v, key, logged) \in ShownEntry
    BY <2>1, <2>2 DEF ShownEntry
  <2>4. /\ Rowed(v, key, logged).stage = v.stage /\ Rowed(v, key, logged).n = v.n
        /\ Rowed(v, key, logged).res = v.res /\ Rowed(v, key, logged).st = v.st
        /\ Rowed(v, key, logged).len = v.len + 1
        /\ Rowed(v, key, logged).idx = IF v.len = 0 THEN Len(jobLog) ELSE v.idx
    BY <2>1 DEF ShownEntry
  <2>5. QED
    BY <1>2, <2>3, <2>4
<1>3. QED
  BY <1>1, <1>2

\* What a record does to an entry, all in all.
LEMMA GivenEffect ==
    ASSUME NEW v \in ShownEntry, NEW rec \in RecordType, Len(jobLog) \in Nat,
           Own(rec) \in BOOLEAN, Logged(rec) \in BOOLEAN
    PROVE  /\ Given(v, rec) \in ShownEntry
           /\ Given(v, rec).stage = v.stage /\ Given(v, rec).n = v.n
           /\ v.res # "none" /\ ~(Rules(rec) /\ KeyOf(v) = reportedStepOf(rec)) => Given(v, rec).res = v.res
           /\ Rules(rec) /\ KeyOf(v) = reportedStepOf(rec) => Given(v, rec).res = rec.res
           /\ rec.job = "none" /\ v.res = "none" /\ KeyOf(v) # Setup
                   /\ ~(Rules(rec) /\ KeyOf(v) = reportedStepOf(rec))
                   /\ ~(~Own(rec) /\ rec.error /\ KeyOf(v) = reportedStepOf(rec)) => Given(v, rec).res = "none"
           /\ (v.st = "new" => v.res \in {"none", "skipped", "cancelled"})
                => (Given(v, rec).st = "new" => Given(v, rec).res \in {"none", "skipped", "cancelled"})
           /\ ~(Logged(rec) /\ KeyOf(v) = reportedStepOf(rec)) =>
                Given(v, rec).idx = v.idx /\ Given(v, rec).len = v.len
           /\ Logged(rec) /\ KeyOf(v) = reportedStepOf(rec) =>
                /\ Given(v, rec).len = v.len + 1
                /\ Given(v, rec).idx = IF v.len = 0 THEN Len(jobLog) ELSE v.idx
<1> DEFINE key == reportedStepOf(rec)
           a == Entered(v, key)
           b == Settled(a, key, rec)
           c == Concluded(b, rec)
           d == Rowed(c, key, Logged(rec))
<1>1. Given(v, rec) = d
  BY DEF Given
<1>2. /\ a \in ShownEntry /\ a.stage = v.stage /\ a.n = v.n /\ a.idx = v.idx /\ a.len = v.len
      /\ v.res # "none" => a.res = v.res
      /\ v.res = "none" /\ KeyOf(v) # Setup => a.res = "none"
      /\ KeyOf(v) = key => a.st # "new" /\ a.res = v.res
      /\ a.st = "new" => v.st = "new" /\ a.res = v.res
  BY EnteredEffect
<1>3. KeyOf(a) = KeyOf(v)
  BY <1>2 DEF KeyOf
<1>4. /\ b \in ShownEntry /\ b.stage = v.stage /\ b.n = v.n /\ b.idx = v.idx /\ b.len = v.len
      /\ KeyOf(v) # key => b = a
      /\ KeyOf(v) = key /\ Rules(rec) => b.res = rec.res
      /\ a.res # "none" /\ ~Rules(rec) => b.res = a.res
      /\ a.res = "none" /\ ~Rules(rec) /\ (Own(rec) \/ ~rec.error) => b.res = "none"
      /\ a.st # "new" => b.st # "new"
  <2> HIDE DEF a
  <2> QED
    BY <1>2, <1>3, SettledEffect
<1>5. /\ c \in ShownEntry /\ c.stage = v.stage /\ c.n = v.n /\ c.idx = v.idx /\ c.len = v.len
      /\ rec.job = "none" => c = b
      /\ b.res # "none" => c.res = b.res
      /\ c.st = "new" => b.st = "new" /\ (b.res = "none" => c.res \in {"none", "skipped", "cancelled"})
  <2> HIDE DEF b
  <2>1. CASE rec.job = "none"
    BY <1>4, <2>1 DEF Concluded
  <2>2. CASE rec.job # "none"
    <3>1. rec.job \in StepResults \ {"none"}
      BY <2>2 DEF RecordType, StepResults
    <3>2. c = Finished(b, rec.job, FALSE)
      BY <2>2 DEF Concluded
    <3>3. /\ Finished(b, rec.job, FALSE) \in ShownEntry
          /\ Finished(b, rec.job, FALSE).stage = b.stage /\ Finished(b, rec.job, FALSE).n = b.n
          /\ Finished(b, rec.job, FALSE).idx = b.idx /\ Finished(b, rec.job, FALSE).len = b.len
          /\ b.res # "none" => Finished(b, rec.job, FALSE).res = b.res
          /\ Finished(b, rec.job, FALSE).st = "new" =>
               b.st = "new" /\ (b.res = "none" => Finished(b, rec.job, FALSE).res \in {"skipped", "cancelled"})
      <4>1. b \in ShownEntry
        BY <1>4
      <4> QED
        BY <3>1, <4>1, FinishedEffect
    <3> HIDE DEF c
    <3>4. QED
      BY <1>4, <2>2, <3>2, <3>3
  <2>3. QED
    BY <2>1, <2>2
<1>6. /\ d \in ShownEntry /\ d.stage = v.stage /\ d.n = v.n /\ d.res = c.res /\ d.st = c.st
      /\ ~(Logged(rec) /\ KeyOf(v) = key) => d.idx = v.idx /\ d.len = v.len
      /\ Logged(rec) /\ KeyOf(v) = key => /\ d.len = v.len + 1
                                         /\ d.idx = IF v.len = 0 THEN Len(jobLog) ELSE v.idx
  <2> HIDE DEF c
  <2>1. KeyOf(c) = KeyOf(v)
    BY <1>5 DEF KeyOf
  <2>2. QED
    BY <1>5, <2>1, RowedEffect
<1>7. rec.res # "none" \/ ~Rules(rec)
  BY DEF Rules
<1> HIDE DEF a, b, c, d, key
<1>8. /\ v.res # "none" /\ ~(Rules(rec) /\ KeyOf(v) = key) => d.res = v.res
      /\ Rules(rec) /\ KeyOf(v) = key => d.res = rec.res
  BY <1>2, <1>4, <1>5, <1>6, <1>7
<1>9. rec.job = "none" /\ v.res = "none" /\ KeyOf(v) # Setup /\ ~(Rules(rec) /\ KeyOf(v) = key)
         /\ ~(~Own(rec) /\ rec.error /\ KeyOf(v) = key) => d.res = "none"
  BY <1>2, <1>4, <1>5, <1>6
<1>10. (v.st = "new" => v.res \in {"none", "skipped", "cancelled"})
         => (d.st = "new" => d.res \in {"none", "skipped", "cancelled"})
  BY <1>2, <1>4, <1>5, <1>6
<1>11. QED
  BY <1>1, <1>6, <1>8, <1>9, <1>10 DEF key

-----------------------------------------------------------------------------
(* The list of the steps that are shown.                                   *)

Sorted(list) == \A i, j \in DOMAIN list : i < j => RankOf(list[i]) < RankOf(list[j])

\* The list is in the order of the job, and up to date.
ListInv ==
    /\ \A i \in DOMAIN shown : shown[i].stage \in StepStages <=> shown[i].n # 0
    /\ Sorted(shown)
    /\ Has(shown, Setup) /\ Has(shown, Cleanup) /\ \A n \in Steps : Has(shown, <<"main", n>>)
    /\ Has(shown, cur) /\ CurRank <= AtRank
    /\ \A i \in DOMAIN shown : shown[i].stage \in {"pre", "post"} => RankOf(shown[i]) <= AtRank

\* Ranks are numbers, and those of steps and of the ends differ.
LEMMA Ranks ==
    ASSUME NEW stage, NEW n \in 0 .. StepCount
    PROVE  /\ Rank(stage, n) \in Int
           /\ stage = "pre" /\ n # 0 => Rank(stage, n) \in 1 .. StepCount
           /\ stage = "main" /\ n # 0 => Rank(stage, n) \in StepCount + 1 .. 2 * StepCount
           /\ stage = "post" /\ n # 0 => Rank(stage, n) \in 2 * StepCount + 1 .. 3 * StepCount
           /\ stage = "setup" => Rank(stage, n) = 0
           /\ stage \notin StepStages \cup {"setup"} => Rank(stage, n) = 3 * StepCount + 1
BY ReportedStepsAssumption DEF Rank, StepStages

\* Steps with the same rank are the same.
LEMMA RankIsOwn ==
    ASSUME NEW a \in StepStages, NEW m \in Steps,
           NEW b \in StepStages \cup {"setup", "cleanup"}, NEW n \in 0 .. StepCount,
           b \in StepStages <=> n # 0, Rank(a, m) = Rank(b, n)
    PROVE  a = b /\ m = n
BY ReportedStepsAssumption DEF Rank, StepStages, Steps

\* A list stays sorted when an entry is put where it belongs.
LEMMA Inserted ==
    ASSUME NEW s \in Seq(ShownEntry), Sorted(s), NEW e \in ShownEntry, NEW p \in 2 .. Len(s),
           RankOf(s[p - 1]) < RankOf(e), RankOf(e) < RankOf(s[p])
    PROVE  LET l == InsertAt(s, p, e) IN
           /\ l \in Seq(ShownEntry) /\ Sorted(l)
           /\ \A i \in DOMAIN l : l[i] = e \/ \E j \in DOMAIN s : l[i] = s[j]
           /\ \A j \in DOMAIN s : \E i \in DOMAIN l : l[i] = s[j]
           /\ \E i \in DOMAIN l : l[i] = e
<1> DEFINE l == InsertAt(s, p, e)
           a == SubSeq(s, 1, p - 1)
           b == SubSeq(s, p, Len(s))
<1>1. Len(s) \in Nat /\ DOMAIN s = 1 .. Len(s) /\ p \in Nat /\ p <= Len(s) /\ 2 <= p
  OBVIOUS
<1>2. a \in Seq(ShownEntry) /\ Len(a) = p - 1 /\ \A i \in 1 .. p - 1 : a[i] = s[i]
  BY <1>1
<1>3. b \in Seq(ShownEntry) /\ Len(b) = Len(s) - p + 1 /\ \A i \in 1 .. Len(s) - p + 1 : b[i] = s[p + i - 1]
  BY <1>1
<1>4. l = a \o <<e>> \o b
  BY DEF InsertAt
<1> HIDE DEF l, a, b
<1>5. l \in Seq(ShownEntry) /\ Len(l) = Len(s) + 1
  <2>1. a \o <<e>> \in Seq(ShownEntry) /\ Len(a \o <<e>>) = p
    BY <1>1, <1>2
  <2>2. (a \o <<e>>) \o b \in Seq(ShownEntry) /\ Len((a \o <<e>>) \o b) = Len(a \o <<e>>) + Len(b)
    BY <1>3, <2>1, ConcatProperties
  <2>3. l \in Seq(ShownEntry) /\ Len(l) = Len(a \o <<e>>) + Len(b)
    BY <1>4, <2>2, Zenon
  <2>4. Len(l) = p + (Len(s) - p + 1)
    BY <1>3, <2>1, <2>3, Zenon
  <2>5. QED
    BY <1>1, <2>3, <2>4
<1>6. DOMAIN l = 1 .. Len(s) + 1
  BY <1>5
<1>7. /\ \A i \in 1 .. p - 1 : l[i] = s[i]
      /\ l[p] = e
      /\ \A i \in p + 1 .. Len(s) + 1 : l[i] = s[i - 1]
  <2>1. a \o <<e>> \in Seq(ShownEntry) /\ Len(a \o <<e>>) = p
    BY <1>1, <1>2
  <2>2. (\A i \in 1 .. p - 1 : (a \o <<e>>)[i] = s[i]) /\ (a \o <<e>>)[p] = e
    BY <1>1, <1>2
  <2>3. \A i \in 1 .. p : l[i] = (a \o <<e>>)[i]
    BY <1>1, <1>3, <1>4, <2>1
  <2>4. \A i \in p + 1 .. Len(s) + 1 : l[i] = b[i - p]
    BY <1>1, <1>3, <1>4, <2>1
  <2>5. \A i \in p + 1 .. Len(s) + 1 : i - p \in 1 .. Len(s) - p + 1 /\ p + (i - p) - 1 = i - 1
    BY <1>1
  <2>6. \A i \in p + 1 .. Len(s) + 1 : l[i] = s[i - 1]
    BY <1>3, <2>4, <2>5
  <2>7. p \in 1 .. p /\ \A i \in 1 .. p - 1 : i \in 1 .. p
    BY <1>1
  <2>8. QED
    BY <2>2, <2>3, <2>6, <2>7
<1>8. \A i \in DOMAIN s : RankOf(s[i]) \in Int
  <2>1. \A i \in DOMAIN s : s[i] \in ShownEntry
    OBVIOUS
  <2>2. \A v \in ShownEntry : RankOf(v) \in Int
    BY Ranks DEF RankOf, ShownEntry
  <2>3. QED
    BY <2>1, <2>2
<1>9. RankOf(e) \in Int
  BY Ranks DEF RankOf, ShownEntry
<1>10. Sorted(l)
  <2> SUFFICES ASSUME NEW i \in DOMAIN l, NEW j \in DOMAIN l, i < j PROVE RankOf(l[i]) < RankOf(l[j])
    BY DEF Sorted
  <2>1. CASE i < p /\ j < p
    BY <1>1, <1>6, <1>7, <2>1 DEF Sorted
  <2>2. CASE i > p /\ j > p
    <3>1. l[i] = s[i - 1] /\ l[j] = s[j - 1] /\ i - 1 \in DOMAIN s /\ j - 1 \in DOMAIN s /\ i - 1 < j - 1
      BY <1>1, <1>6, <1>7, <2>2
    <3>2. QED
      BY <3>1 DEF Sorted
  <2>3. CASE i < p /\ j > p
    <3>1. l[i] = s[i] /\ l[j] = s[j - 1] /\ i \in DOMAIN s /\ j - 1 \in DOMAIN s /\ i < j - 1
      BY <1>1, <1>6, <1>7, <2>3
    <3>2. QED
      BY <3>1 DEF Sorted
  <2>4. CASE i < p /\ j = p
    <3>1. l[i] = s[i] /\ l[j] = e /\ i \in DOMAIN s /\ p - 1 \in DOMAIN s /\ (i = p - 1 \/ i < p - 1)
      BY <1>1, <1>6, <1>7, <2>4
    <3>2. RankOf(s[i]) <= RankOf(s[p - 1])
      BY <1>8, <3>1 DEF Sorted
    <3>3. QED
      BY <1>8, <1>9, <3>1, <3>2
  <2>5. CASE i = p /\ j > p
    <3>1. l[j] = s[j - 1] /\ l[i] = e /\ j - 1 \in DOMAIN s /\ p \in DOMAIN s /\ (j - 1 = p \/ p < j - 1)
      BY <1>1, <1>6, <1>7, <2>5
    <3>2. RankOf(s[p]) <= RankOf(s[j - 1])
      BY <1>8, <3>1 DEF Sorted
    <3>3. QED
      BY <1>8, <1>9, <3>1, <3>2
  <2>6. QED
    BY <1>1, <1>6, <2>1, <2>2, <2>3, <2>4, <2>5
<1>11. \A i \in DOMAIN l : l[i] = e \/ \E j \in DOMAIN s : l[i] = s[j]
  <2> SUFFICES ASSUME NEW i \in DOMAIN l PROVE l[i] = e \/ \E j \in DOMAIN s : l[i] = s[j]
    OBVIOUS
  <2>1. i \in 1 .. p - 1 \/ i = p \/ (i \in p + 1 .. Len(s) + 1 /\ i - 1 \in DOMAIN s)
    BY <1>1, <1>6
  <2>2. i \in 1 .. p - 1 => i \in DOMAIN s
    BY <1>1
  <2>3. QED
    BY <1>7, <2>1, <2>2
<1>12. \A j \in DOMAIN s : \E i \in DOMAIN l : l[i] = s[j]
  <2> SUFFICES ASSUME NEW j \in DOMAIN s PROVE \E i \in DOMAIN l : l[i] = s[j]
    OBVIOUS
  <2>1. CASE j < p
    <3>1. j \in DOMAIN l /\ j \in 1 .. p - 1
      BY <1>1, <1>6, <2>1
    <3>2. QED
      BY <1>7, <3>1
  <2>2. CASE ~(j < p)
    <3>1. j + 1 \in DOMAIN l /\ j + 1 \in p + 1 .. Len(s) + 1 /\ j + 1 - 1 = j
      BY <1>1, <1>6, <2>2
    <3>2. l[j + 1] = s[j]
      BY <1>7, <3>1
    <3>3. QED
      BY <3>1, <3>2
  <2>3. QED
    BY <2>1, <2>2
<1>13. p \in DOMAIN l
  BY <1>1, <1>6
<1>14. QED
  BY <1>5, <1>7, <1>10, <1>11, <1>12, <1>13 DEF l

\* No step is shown twice.
LEMMA KeysDiffer ==
    ASSUME NEW s \in Seq(ShownEntry), Sorted(s), NEW i \in DOMAIN s, NEW j \in DOMAIN s, KeyOf(s[i]) = KeyOf(s[j])
    PROVE  i = j
<1>1. RankOf(s[i]) = RankOf(s[j])
  BY DEF KeyOf, RankOf
<1>2. RankOf(s[i]) \in Int
  <2>1. s[i] \in ShownEntry
    OBVIOUS
  <2>2. QED
    BY <2>1, Ranks DEF RankOf, ShownEntry
<1>3. ~(i < j) /\ ~(j < i)
  BY <1>1, <1>2 DEF Sorted
<1>4. i \in Int /\ j \in Int
  OBVIOUS
<1>5. QED
  BY <1>3, <1>4

\* Entries are of their type and have ranks.
LEMMA EntryFacts ==
    ASSUME ShownTypeOK
    PROVE  /\ DOMAIN shown = 1 .. Len(shown) /\ Len(shown) \in Nat
           /\ \A i \in DOMAIN shown : shown[i] \in ShownEntry /\ RankOf(shown[i]) \in Int
<1>1. shown \in Seq(ShownEntry)
  BY DEF ShownTypeOK
<1>2. \A i \in DOMAIN shown : shown[i] \in ShownEntry
  BY <1>1
<1>3. \A v \in ShownEntry : RankOf(v) \in Int
  BY Ranks DEF RankOf, ShownEntry
<1>4. QED
  BY <1>1, <1>2, <1>3

\* A new pre or post step belongs where it is put.
LEMMA PlaceOfNew ==
    ASSUME ShownTypeOK, ListInv, NEW rec \in RecordType, rec.stage = at.part, rec.n = at.n,
           rec.stage \in StepStages, ~Has(shown, <<rec.stage, rec.n>>)
    PROVE  /\ addReportedStep(rec) \in 2 .. Len(shown)
           /\ RankOf(shown[addReportedStep(rec) - 1]) < Rank(rec.stage, rec.n)
           /\ Rank(rec.stage, rec.n) < RankOf(shown[addReportedStep(rec)])
<1> DEFINE p == addReportedStep(rec)
<1>1. rec.n \in Steps /\ rec.stage \in {"pre", "post"} /\ AtRank = Rank(rec.stage, rec.n)
  <2>1. rec.n \in Steps
    BY DEF ShownTypeOK, AtOK, RecordType, Steps
  <2>2. QED
    BY <2>1 DEF ListInv, StepStages, AtRank
<1>2. \A i \in DOMAIN shown : shown[i].stage \in {"pre", "post"} => RankOf(shown[i]) < AtRank
  <2> SUFFICES ASSUME NEW i \in DOMAIN shown, shown[i].stage \in {"pre", "post"} PROVE RankOf(shown[i]) < AtRank
    OBVIOUS
  <2>1. RankOf(shown[i]) <= AtRank
    BY DEF ListInv
  <2>2. shown[i] \in ShownEntry /\ (shown[i].stage \in StepStages <=> shown[i].n # 0) /\ RankOf(shown[i]) \in Int
    BY EntryFacts DEF ListInv
  <2>3. RankOf(shown[i]) # AtRank
    <3> SUFFICES ASSUME RankOf(shown[i]) = AtRank PROVE FALSE
      OBVIOUS
    <3>1. rec.stage = shown[i].stage /\ rec.n = shown[i].n
      BY <1>1, <2>2, RankIsOwn DEF RankOf, ShownEntry
    <3>2. QED
      BY <3>1 DEF Has, KeyOf
  <2>4. AtRank \in Int
    BY <1>1, Ranks DEF Steps
  <2>5. QED
    BY <2>1, <2>2, <2>3, <2>4
<1>3. /\ \A i \in DOMAIN shown : shown[i] \in ShownEntry /\ RankOf(shown[i]) \in Int
      /\ \A i \in DOMAIN shown : shown[i].stage \in StepStages <=> shown[i].n # 0
      /\ DOMAIN shown = 1 .. Len(shown) /\ Len(shown) \in Nat
  BY EntryFacts DEF ListInv
<1>4. PICK z \in DOMAIN shown : KeyOf(shown[z]) = Setup
  BY DEF ListInv, Has
<1>5. RankOf(shown[z]) = 0
  BY <1>4 DEF KeyOf, Setup, RankOf, Rank
<1>6. \A i \in DOMAIN shown : /\ shown[i].stage = "main" => RankOf(shown[i]) \in StepCount + 1 .. 2 * StepCount
                              /\ shown[i].stage = "post" => RankOf(shown[i]) \in 2 * StepCount + 1 .. 3 * StepCount
                              /\ shown[i].stage = "cleanup" => RankOf(shown[i]) = 3 * StepCount + 1
                              /\ shown[i].stage = "setup" => RankOf(shown[i]) = 0
                              /\ shown[i].stage \in {"pre", "main", "post", "setup", "cleanup"}
  <2> SUFFICES ASSUME NEW v \in ShownEntry, v.stage \in StepStages <=> v.n # 0
               PROVE  /\ v.stage = "main" => RankOf(v) \in StepCount + 1 .. 2 * StepCount
                      /\ v.stage = "post" => RankOf(v) \in 2 * StepCount + 1 .. 3 * StepCount
                      /\ v.stage = "cleanup" => RankOf(v) = 3 * StepCount + 1
                      /\ v.stage = "setup" => RankOf(v) = 0
                      /\ v.stage \in {"pre", "main", "post", "setup", "cleanup"}
    BY <1>3
  <2>1. v.n \in 0 .. StepCount /\ v.stage \in {"pre", "main", "post", "setup", "cleanup"}
    BY DEF ShownEntry, StepStages
  <2>2. QED
    BY <2>1, Ranks DEF RankOf, StepStages
<1>7. CASE rec.stage = "pre"
  <2>1. AtRank \in 1 .. StepCount
    BY <1>1, <1>7, Ranks, ReportedStepsAssumption DEF Steps
  <2>2. PICK f \in DOMAIN shown : KeyOf(shown[f]) = <<"main", 1>>
    BY ReportedStepsAssumption DEF ListInv, Has, Steps
  <2>3. RankOf(shown[f]) = StepCount + 1 /\ shown[f].stage = "main"
    BY <2>2 DEF KeyOf, RankOf, Rank
  <2>4. f - 1 \in DOMAIN shown /\ f - 1 < f
    <3>1. z < f
      BY <1>3, <1>4, <1>5, <2>3, ReportedStepsAssumption DEF ListInv, Sorted
    <3>2. QED
      BY <1>3, <3>1
  <2>5. RankOf(shown[f - 1]) < StepCount + 1
    BY <2>3, <2>4 DEF ListInv, Sorted
  <2>6. shown[f - 1].stage # "main"
    BY <1>3, <1>6, <2>4, <2>5, ReportedStepsAssumption
  <2>7. p \in DOMAIN shown /\ shown[p].stage = "main" /\ shown[p - 1].stage # "main"
    BY <1>7, <2>3, <2>6 DEF addReportedStep
  <2> HIDE DEF p
  <2>8. z < p
    <3>1. RankOf(shown[p]) > 0
      BY <1>6, <2>7, ReportedStepsAssumption
    <3>2. z # p /\ ~(p < z)
      BY <1>3, <1>4, <1>5, <2>7, <3>1 DEF ListInv, Sorted
    <3>3. QED
      BY <1>3, <2>7, <3>2
  <2>9. p - 1 \in DOMAIN shown /\ p \in 2 .. Len(shown) /\ p - 1 < p
    BY <1>3, <2>7, <2>8
  <2>10. RankOf(shown[p - 1]) < RankOf(shown[p])
    BY <2>7, <2>9 DEF ListInv, Sorted
  <2>11. RankOf(shown[p - 1]) < AtRank
    <3>1. shown[p - 1].stage \in {"pre", "setup"}
      BY <1>3, <1>6, <2>7, <2>9, <2>10, ReportedStepsAssumption
    <3>2. QED
      BY <1>2, <1>6, <2>1, <2>9, <3>1
  <2>12. AtRank < RankOf(shown[p])
    BY <1>6, <2>1, <2>7, ReportedStepsAssumption
  <2>13. QED
    BY <1>1, <2>9, <2>11, <2>12 DEF p
<1>8. CASE rec.stage = "post"
  <2>1. AtRank \in 2 * StepCount + 1 .. 3 * StepCount
    BY <1>1, <1>8, Ranks, ReportedStepsAssumption DEF Steps
  <2>2. p = Len(shown)
    BY <1>8 DEF addReportedStep
  <2>3. PICK f \in DOMAIN shown : KeyOf(shown[f]) = Cleanup
    BY DEF ListInv, Has
  <2>4. RankOf(shown[f]) = 3 * StepCount + 1
    BY <2>3 DEF KeyOf, RankOf, Rank, Cleanup
  <2>5. \A i \in DOMAIN shown : RankOf(shown[i]) <= 3 * StepCount + 1
    <3> SUFFICES ASSUME NEW v \in ShownEntry, v.stage \in StepStages <=> v.n # 0
                 PROVE  RankOf(v) <= 3 * StepCount + 1
      BY <1>3
    <3>1. v.n \in 0 .. StepCount /\ v.stage \in {"pre", "main", "post", "setup", "cleanup"}
      BY DEF ShownEntry, StepStages
    <3>2. QED
      BY <3>1, ReportedStepsAssumption DEF RankOf, Rank
  <2>6. f = Len(shown)
    <3>1. Len(shown) \in DOMAIN shown
      BY <1>3
    <3>2. ~(f < Len(shown))
      BY <1>3, <2>4, <2>5, <3>1, ReportedStepsAssumption DEF ListInv, Sorted
    <3>3. QED
      BY <1>3, <3>2
  <2>7. z < f
    <3>1. z # f /\ ~(f < z)
      BY <1>3, <1>4, <1>5, <2>4, ReportedStepsAssumption DEF ListInv, Sorted
    <3>2. QED
      BY <1>3, <3>1
  <2>8. p - 1 \in DOMAIN shown /\ p \in 2 .. Len(shown) /\ p - 1 < p
    BY <1>3, <2>2, <2>6, <2>7
  <2>9. RankOf(shown[p - 1]) < RankOf(shown[f])
    BY <2>2, <2>6, <2>8 DEF ListInv, Sorted
  <2>10. RankOf(shown[p - 1]) < AtRank
    <3>1. shown[p - 1].stage \in {"pre", "post", "setup", "main"}
      BY <1>3, <1>6, <2>4, <2>8, <2>9, ReportedStepsAssumption
    <3>2. QED
      BY <1>2, <1>3, <1>6, <2>1, <2>8, <3>1, ReportedStepsAssumption
  <2>11. QED
    BY <1>1, <2>1, <2>2, <2>4, <2>6, <2>8, <2>10, ReportedStepsAssumption
<1>9. QED
  BY <1>1, <1>7, <1>8

\* A record may begin the step the job is at, no other.
BeginsHere(rec) == rec.started => rec.stage = at.part /\ rec.n = at.n

\* The list with the step of a record: what was there, and that step.
LEMMA WithStepEffect ==
    ASSUME ShownTypeOK, ListInv, NEW rec \in RecordType, BeginsHere(rec)
    PROVE  LET l == WithStep(rec) IN
           /\ l \in Seq(ShownEntry) /\ Sorted(l)
           /\ \A i \in DOMAIN l : \/ \E j \in DOMAIN shown : l[i] = shown[j]
                                  \/ /\ l[i] = Entry(rec.stage, rec.n) /\ OfStep(rec) /\ rec.started
                                     /\ ~Has(shown, <<rec.stage, rec.n>>)
           /\ \A j \in DOMAIN shown : \E i \in DOMAIN l : l[i] = shown[j]
           /\ Own(rec) => \E i \in DOMAIN l : KeyOf(l[i]) = <<rec.stage, rec.n>>
<1> DEFINE l == WithStep(rec)
<1>1. CASE Own(rec) /\ ~Has(shown, <<rec.stage, rec.n>>)
  <2>1. rec.started /\ OfStep(rec)
    BY <1>1 DEF Own
  <2>2. rec.stage = at.part /\ rec.n = at.n /\ rec.stage \in StepStages
    BY <2>1 DEF BeginsHere, OfStep, StepStages
  <2>3. l = InsertAt(shown, addReportedStep(rec), Entry(rec.stage, rec.n))
    BY <1>1 DEF WithStep
  <2>4. /\ addReportedStep(rec) \in 2 .. Len(shown)
        /\ RankOf(shown[addReportedStep(rec) - 1]) < Rank(rec.stage, rec.n)
        /\ Rank(rec.stage, rec.n) < RankOf(shown[addReportedStep(rec)])
    BY <1>1, <2>2, PlaceOfNew
  <2>5. Entry(rec.stage, rec.n) \in ShownEntry /\ RankOf(Entry(rec.stage, rec.n)) = Rank(rec.stage, rec.n)
    BY <2>2 DEF Entry, ShownEntry, RecordType, RankOf, StepResults
  <2>6. shown \in Seq(ShownEntry) /\ Sorted(shown)
    BY DEF ShownTypeOK, ListInv
  <2> DEFINE m == InsertAt(shown, addReportedStep(rec), Entry(rec.stage, rec.n))
             e == Entry(rec.stage, rec.n)
  <2>7. /\ m \in Seq(ShownEntry) /\ Sorted(m)
        /\ \A i \in DOMAIN m : m[i] = e \/ \E j \in DOMAIN shown : m[i] = shown[j]
        /\ \A j \in DOMAIN shown : \E i \in DOMAIN m : m[i] = shown[j]
        /\ \E i \in DOMAIN m : m[i] = e
    BY <2>4, <2>5, <2>6, Inserted
  <2>8. KeyOf(e) = <<rec.stage, rec.n>>
    BY DEF KeyOf, Entry
  <2> HIDE DEF m, e
  <2>9. l = m
    BY <2>3 DEF m
  <2> HIDE DEF l
  <2>10. QED
    BY <1>1, <2>1, <2>7, <2>8, <2>9 DEF l, e
<1>2. CASE ~(Own(rec) /\ ~Has(shown, <<rec.stage, rec.n>>))
  <2>1. l = shown
    BY <1>2 DEF WithStep
  <2>2. Own(rec) => \E i \in DOMAIN shown : KeyOf(shown[i]) = <<rec.stage, rec.n>>
    BY <1>2 DEF Has
  <2> HIDE DEF l
  <2>3. QED
    BY <2>1, <2>2 DEF ShownTypeOK, ListInv, l
<1>3. QED
  BY <1>1, <1>2

\* The list after a record.
LEMMA HandledList ==
    ASSUME NEW rec, HandleRecord(rec)
    PROVE  shown' = [i \in DOMAIN WithStep(rec) |-> Given(WithStep(rec)[i], rec)]
<1> DEFINE key == reportedStepOf(rec)
           l == WithStep(rec)
           list == enterReportedStep(l, key)
           judged == [i \in DOMAIN list |-> IF KeyOf(list[i]) = key THEN Judged(list[i], rec) ELSE list[i]]
           final == IF rec.job = "none" THEN judged ELSE finishReportedSteps(judged, rec.job, FALSE)
<1>1. list = [i \in DOMAIN l |-> Entered(l[i], key)]
  BY DEF enterReportedStep, Entered
<1>2. judged = [i \in DOMAIN l |-> Settled(Entered(l[i], key), key, rec)]
  <2>1. DOMAIN list = DOMAIN l /\ \A i \in DOMAIN l : list[i] = Entered(l[i], key)
    BY <1>1
  <2> HIDE DEF list, l, key
  <2>2. QED
    BY <2>1 DEF Settled
<1>3. final = [i \in DOMAIN l |-> Concluded(Settled(Entered(l[i], key), key, rec), rec)]
  <2> HIDE DEF judged, l, key
  <2>1. DOMAIN judged = DOMAIN l /\ \A i \in DOMAIN l : judged[i] = Settled(Entered(l[i], key), key, rec)
    BY <1>2
  <2>2. CASE rec.job = "none"
    BY <1>2, <2>2 DEF Concluded
  <2>3. CASE rec.job # "none"
    <3>1. final = [i \in DOMAIN judged |-> Finished(judged[i], rec.job, FALSE)]
      BY <2>3 DEF finishReportedSteps, Finished
    <3>2. QED
      BY <2>1, <2>3, <3>1 DEF Concluded
  <2>4. QED
    BY <2>2, <2>3
<1>4. shown' = IF Logged(rec) THEN appendLogRow(final, key) ELSE final
  BY DEF HandleRecord
<1> HIDE DEF final, l, key
<1>5. DOMAIN final = DOMAIN l /\ \A i \in DOMAIN l : final[i] = Concluded(Settled(Entered(l[i], key), key, rec), rec)
  BY <1>3
<1>6. shown' = [i \in DOMAIN l |-> Rowed(final[i], key, Logged(rec))]
  <2>1. CASE Logged(rec)
    BY <1>4, <1>5, <2>1 DEF appendLogRow, Rowed
  <2>2. CASE ~Logged(rec)
    <3>1. final = [i \in DOMAIN l |-> final[i]]
      BY <1>3, <1>5
    <3>2. QED
      BY <1>4, <2>2, <3>1 DEF Rowed
  <2>3. QED
    BY <2>1, <2>2
<1>7. QED
  BY <1>5, <1>6 DEF Given, key, l

\* Whose a record is and whether it is logged are questions with an answer.
LEMMA Truths == ASSUME NEW rec PROVE Own(rec) \in BOOLEAN /\ Logged(rec) \in BOOLEAN
<1>1. Own(rec) \in BOOLEAN
  BY Zenon DEF Own
<1>2. Logged(rec) \in BOOLEAN
  BY DEF Logged, shouldAppendLogRow
<1>3. QED
  BY <1>1, <1>2

\* What a record makes of the list: every entry comes from one that was there, or
\* is the one of the step that begins; none is lost and the order stays.
LEMMA HandledEntries ==
    ASSUME ShownTypeOK, ListInv, NEW rec \in RecordType, BeginsHere(rec), HandleRecord(rec)
    PROVE  /\ shown' \in Seq(ShownEntry) /\ Sorted(shown')
           /\ \A i \in DOMAIN shown' :
                \E v \in ShownEntry :
                    /\ shown'[i] = Given(v, rec)
                    /\ \/ \E j \in DOMAIN shown : v = shown[j]
                       \/ /\ v = Entry(rec.stage, rec.n) /\ OfStep(rec) /\ rec.started
                          /\ ~Has(shown, <<rec.stage, rec.n>>) /\ KeyOf(v) = <<rec.stage, rec.n>>
           /\ \A j \in DOMAIN shown : \E i \in DOMAIN shown' : shown'[i] = Given(shown[j], rec)
           /\ \E i \in DOMAIN shown' : KeyOf(shown'[i]) = reportedStepOf(rec)
<1> DEFINE l == WithStep(rec)
           key == reportedStepOf(rec)
<1>1. /\ l \in Seq(ShownEntry) /\ Sorted(l)
      /\ \A i \in DOMAIN l : \/ \E j \in DOMAIN shown : l[i] = shown[j]
                             \/ /\ l[i] = Entry(rec.stage, rec.n) /\ OfStep(rec) /\ rec.started
                                /\ ~Has(shown, <<rec.stage, rec.n>>)
      /\ \A j \in DOMAIN shown : \E i \in DOMAIN l : l[i] = shown[j]
      /\ Own(rec) => \E i \in DOMAIN l : KeyOf(l[i]) = <<rec.stage, rec.n>>
  BY WithStepEffect
<1>2. shown' = [i \in DOMAIN l |-> Given(l[i], rec)]
  BY HandledList
<1> HIDE DEF l
<1>3. \A i \in DOMAIN l : l[i] \in ShownEntry
  BY <1>1
<1>4. Len(jobLog) \in Nat /\ Own(rec) \in BOOLEAN /\ Logged(rec) \in BOOLEAN
  <2>1. Len(jobLog) \in Nat
    BY DEF ShownTypeOK
  <2>2. QED
    BY <2>1, Truths
<1>5. \A i \in DOMAIN l : /\ Given(l[i], rec) \in ShownEntry /\ KeyOf(Given(l[i], rec)) = KeyOf(l[i])
                          /\ RankOf(Given(l[i], rec)) = RankOf(l[i])
  BY <1>3, <1>4, GivenEffect DEF KeyOf, RankOf
<1>6. DOMAIN shown' = DOMAIN l /\ \A i \in DOMAIN l : shown'[i] = Given(l[i], rec)
  BY <1>2
<1>7. shown' \in Seq(ShownEntry)
  <2>1. DOMAIN l = 1 .. Len(l) /\ Len(l) \in Nat
    BY <1>1
  <2>2. \A i \in 1 .. Len(l) : Given(l[i], rec) \in ShownEntry
    BY <1>5, <2>1
  <2>3. shown' = [i \in 1 .. Len(l) |-> Given(l[i], rec)]
    BY <1>2, <2>1
  <2>4. shown' \in [1 .. Len(l) -> ShownEntry]
    BY <2>2, <2>3
  <2>5. QED
    BY <2>1, <2>4, SeqDef
<1>8. Sorted(shown')
  BY <1>1, <1>5, <1>6 DEF Sorted
<1>9. \A i \in DOMAIN shown' :
        \E v \in ShownEntry :
            /\ shown'[i] = Given(v, rec)
            /\ \/ \E j \in DOMAIN shown : v = shown[j]
               \/ /\ v = Entry(rec.stage, rec.n) /\ OfStep(rec) /\ rec.started
                  /\ ~Has(shown, <<rec.stage, rec.n>>) /\ KeyOf(v) = <<rec.stage, rec.n>>
  <2> SUFFICES ASSUME NEW i \in DOMAIN l
               PROVE  \/ \E j \in DOMAIN shown : l[i] = shown[j]
                      \/ /\ l[i] = Entry(rec.stage, rec.n) /\ OfStep(rec) /\ rec.started
                         /\ ~Has(shown, <<rec.stage, rec.n>>) /\ KeyOf(l[i]) = <<rec.stage, rec.n>>
    BY <1>3, <1>6
  <2>1. KeyOf(Entry(rec.stage, rec.n)) = <<rec.stage, rec.n>>
    BY DEF KeyOf, Entry
  <2>2. QED
    BY <1>1, <2>1
<1>10. \A j \in DOMAIN shown : \E i \in DOMAIN shown' : shown'[i] = Given(shown[j], rec)
  BY <1>1, <1>6
<1>11. \E i \in DOMAIN l : KeyOf(l[i]) = key
  <2>1. Has(shown, cur) /\ Has(shown, Cleanup)
    BY DEF ListInv
  <2>2. \A k : Has(shown, k) => \E i \in DOMAIN l : KeyOf(l[i]) = k
    BY <1>1 DEF Has
  <2>3. QED
    BY <1>1, <2>1, <2>2 DEF reportedStepOf
<1>12. \E i \in DOMAIN shown' : KeyOf(shown'[i]) = key
  BY <1>5, <1>6, <1>11
<1>13. QED
  BY <1>7, <1>8, <1>9, <1>10, <1>12

-----------------------------------------------------------------------------
(* Results.                                                                *)

\* Steps the job has not reached, or is at without having failed.
Open(stage, n) == Rank(stage, n) > AtRank \/ (Rank(stage, n) = AtRank /\ at.ph # "failing")

\* A step that is open has no result.
OpenInv ==
    AtRank <= 3 * StepCount =>
        /\ \A i \in DOMAIN shown :
            shown[i].stage \in StepStages /\ Open(shown[i].stage, shown[i].n) => shown[i].res = "none"
        /\ \A n \in Steps : Open("main", n) => steps[n].res = "none"

\* A step that was not entered did not run, and a main step that ended has the
\* same result in both lists.
AgreeInv ==
    /\ \A i \in DOMAIN shown : shown[i].st = "new" => shown[i].res \in {"none", "skipped", "cancelled"}
    /\ \A i \in DOMAIN shown : shown[i].stage = "main" /\ steps[shown[i].n].st = "stopped" =>
        shown[i].res = steps[shown[i].n].res /\ shown[i].res # "none"

\* Close has given every step a result and ended it.
ClosedInv ==
    at.part = "closed" => \A i \in DOMAIN shown : shown[i].res # "none" /\ shown[i].st # "running"

\* What is known of a record when it is emitted, and of the way the job goes on.
Fits(rec) ==
    /\ rec \in RecordType /\ BeginsHere(rec)
    /\ OfStep(rec) => rec.n \in Steps /\ Rank(rec.stage, rec.n) <= AtRank
    /\ rec.stage = "complete" => AtRank = 3 * StepCount + 1
    /\ rec.stage = "none" => at.part \notin StepStages
    /\ OfStep(rec) /\ (rec.res # "none" \/ rec.error) => rec.stage = at.part /\ rec.n = at.n
    /\ rec.res # "none" => OfStep(rec) /\ at.ph # "failing"
    /\ rec.job # "none" => rec.stage = "complete"

GoesOn ==
    /\ AtRank' \in Int
    /\ AtRank' > AtRank \/ (AtRank' = AtRank /\ (at.ph = "failing" => at'.ph = "failing"))

GoesOnAfter(rec) == rec.res # "none" /\ ~rec.nested => AtRank' > AtRank \/ at'.ph = "failing"

\* The entry of a main step by its index.
LEMMA LegacyEffect ==
    ASSUME NEW v \in ShownEntry, NEW rec \in RecordType, Len(jobLog) \in Nat
    PROVE  /\ LegacyStep(v, rec) \in ShownEntry
           /\ rec.res # "none" /\ ~rec.nested => LegacyStep(v, rec).res = rec.res
           /\ ~(rec.res # "none" /\ ~rec.nested) =>
                /\ LegacyStep(v, rec).res = v.res
                /\ LegacyStep(v, rec).st = "stopped" <=> v.st = "stopped"
           /\ LegacyStep(v, rec).len = IF rec.error \/ rec.raw THEN v.len + 1 ELSE v.len
           /\ v.len > 0 => LegacyStep(v, rec).idx = v.idx
           /\ v.len = 0 /\ (rec.error \/ rec.raw) => LegacyStep(v, rec).idx = Len(jobLog)
<1> DEFINE w == IF rec.error \/ rec.raw THEN Counts(v) ELSE v
<1>1. /\ w \in ShownEntry /\ w.res = v.res /\ w.st = v.st
      /\ w.len = IF rec.error \/ rec.raw THEN v.len + 1 ELSE v.len
      /\ v.len > 0 => w.idx = v.idx
      /\ v.len = 0 /\ (rec.error \/ rec.raw) => w.idx = Len(jobLog)
  <2>1. CASE rec.error \/ rec.raw
    <3>1. w = [v EXCEPT !.idx = IF v.len = 0 THEN Len(jobLog) ELSE v.idx, !.len = v.len + 1]
      BY <2>1 DEF Counts, ShownEntry
    <3>2. v.len + 1 \in Nat /\ (IF v.len = 0 THEN Len(jobLog) ELSE v.idx) \in Nat
      BY DEF ShownEntry
    <3>3. w \in ShownEntry
      BY <3>1, <3>2 DEF ShownEntry
    <3>4. w.res = v.res /\ w.st = v.st /\ w.len = v.len + 1 /\ w.idx = IF v.len = 0 THEN Len(jobLog) ELSE v.idx
      BY <3>1 DEF ShownEntry
    <3> HIDE DEF w
    <3>5. QED
      BY <2>1, <3>3, <3>4 DEF ShownEntry
  <2>2. CASE ~(rec.error \/ rec.raw)
    BY <2>2
  <2>3. QED
    BY <2>1, <2>2
<1>2. LegacyStep(v, rec) =
        IF rec.res # "none" /\ ~rec.nested
        THEN [w EXCEPT !.res = rec.res, !.st = "stopped",
                       !.idx = IF w.len = 0 THEN Len(jobLog) + (IF Logged(rec) THEN 1 ELSE 0) ELSE @]
        ELSE [w EXCEPT !.st = IF @ = "new" THEN "running" ELSE @]
  BY DEF LegacyStep
<1> HIDE DEF w
<1>3. rec.res \in StepResults /\ w.len \in Nat /\ v.len \in Nat /\ v.len <= w.len
  BY <1>1 DEF RecordType, ShownEntry
<1>4. CASE rec.res # "none" /\ ~rec.nested
  <2> DEFINE k == IF w.len = 0 THEN Len(jobLog) + (IF Logged(rec) THEN 1 ELSE 0) ELSE w.idx
  <2>1. LegacyStep(v, rec) = [w EXCEPT !.res = rec.res, !.st = "stopped", !.idx = k]
    BY <1>1, <1>2, <1>4 DEF ShownEntry
  <2>2. k \in Nat /\ (w.len > 0 => k = w.idx)
    BY <1>1, <1>3 DEF ShownEntry
  <2> HIDE DEF k
  <2>3. /\ LegacyStep(v, rec) \in ShownEntry /\ LegacyStep(v, rec).res = rec.res
        /\ LegacyStep(v, rec).len = w.len /\ LegacyStep(v, rec).idx = k
    BY <1>1, <1>3, <2>1, <2>2 DEF ShownEntry
  <2>4. QED
    BY <1>1, <1>3, <1>4, <2>2, <2>3
<1>5. CASE ~(rec.res # "none" /\ ~rec.nested)
  <2>1. LegacyStep(v, rec) = [w EXCEPT !.st = IF w.st = "new" THEN "running" ELSE w.st]
    BY <1>1, <1>2, <1>5 DEF ShownEntry
  <2>2. QED
    BY <1>1, <1>3, <1>5, <2>1 DEF ShownEntry
<1>6. QED
  BY <1>4, <1>5

\* What a record does to the steps by their index.
LEMMA HandledSteps ==
    ASSUME ShownTypeOK, NEW rec, Fits(rec), HandleRecord(rec)
    PROVE  /\ steps' \in [Steps -> ShownEntry]
           /\ \A n \in Steps : rec.stage = "main" /\ rec.n = n => steps'[n] = LegacyStep(steps[n], rec)
           /\ \A n \in Steps : ~(rec.stage = "main" /\ rec.n = n) =>
                /\ steps'[n].st = steps[n].st /\ steps'[n].idx = steps[n].idx /\ steps'[n].len = steps[n].len
                /\ steps[n].res # "none" \/ rec.job = "none" => steps'[n].res = steps[n].res
                /\ steps'[n].res # "none" \/ steps[n].res = "none"
<1>1. /\ steps \in [Steps -> ShownEntry] /\ Len(jobLog) \in Nat /\ rec \in RecordType
      /\ \A n \in Steps : steps[n] \in ShownEntry
  BY DEF ShownTypeOK, Fits
<1>2. steps' = IF rec.stage = "main" THEN [steps EXCEPT ![rec.n] = LegacyStep(@, rec)]
               ELSE IF rec.job = "none" THEN steps
               ELSE [n \in Steps |-> [steps[n] EXCEPT !.res = IF @ = "none" THEN "cancelled" ELSE @]]
  BY DEF HandleRecord
<1>3. CASE rec.stage = "main"
  <2>1. rec.n \in Steps /\ rec.job = "none"
    BY <1>3 DEF Fits, OfStep
  <2>2. steps' = [steps EXCEPT ![rec.n] = LegacyStep(steps[rec.n], rec)]
    BY <1>1, <1>2, <1>3, <2>1
  <2>3. LegacyStep(steps[rec.n], rec) \in ShownEntry
    BY <1>1, <2>1, LegacyEffect
  <2>4. QED
    BY <1>1, <1>3, <2>1, <2>2, <2>3
<1>4. CASE rec.stage # "main" /\ rec.job = "none"
  BY <1>1, <1>2, <1>4
<1>5. CASE rec.stage # "main" /\ rec.job # "none"
  <2> DEFINE w(n) == [steps[n] EXCEPT !.res = IF steps[n].res = "none" THEN "cancelled" ELSE steps[n].res]
  <2>1. \A n \in Steps : /\ w(n) \in ShownEntry /\ w(n).st = steps[n].st
                         /\ w(n).idx = steps[n].idx /\ w(n).len = steps[n].len
                         /\ w(n).res = IF steps[n].res = "none" THEN "cancelled" ELSE steps[n].res
    BY <1>1 DEF ShownEntry, StepResults
  <2>2. steps' = [n \in Steps |-> w(n)]
    BY <1>1, <1>2, <1>5 DEF ShownEntry
  <2> HIDE DEF w
  <2>3. steps' \in [Steps -> ShownEntry] /\ \A n \in Steps : steps'[n] = w(n)
    BY <2>1, <2>2
  <2>4. QED
    BY <1>1, <1>5, <2>1, <2>3
<1>6. QED
  BY <1>3, <1>4, <1>5

\* A record leaves the reporter well typed.
LEMMA RecordTypes ==
    ASSUME ShownTypeOK, ListInv, NEW rec, Fits(rec), HandleRecord(rec)
    PROVE  /\ shown' \in Seq(ShownEntry)
           /\ cur' \in (StepStages \cup {"setup", "cleanup"}) \X (0 .. StepCount)
           /\ steps' \in [Steps -> ShownEntry]
           /\ jobLog' \in Seq((StepStages \cup {"none", "complete"}) \X (0 .. StepCount))
           /\ stateResult' \in {"none", "success", "failure", "cancelled"}
           /\ cur' = reportedStepOf(rec)
           /\ jobLog' = IF Logged(rec) THEN Append(jobLog, <<rec.stage, rec.n>>) ELSE jobLog
<1>1. rec \in RecordType /\ BeginsHere(rec)
  BY DEF Fits
<1>2. shown' \in Seq(ShownEntry)
  BY <1>1, HandledEntries
<1>3. cur' = reportedStepOf(rec)
  BY DEF HandleRecord
<1>4. cur' \in (StepStages \cup {"setup", "cleanup"}) \X (0 .. StepCount)
  <2>1. rec.n \in 0 .. StepCount /\ 0 \in 0 .. StepCount
    BY <1>1, ReportedStepsAssumption DEF RecordType
  <2>2. Own(rec) => rec.stage \in StepStages
    BY DEF Own, OfStep, StepStages
  <2>3. QED
    BY <1>3, <2>1, <2>2 DEF reportedStepOf, Cleanup, ShownTypeOK
<1>5. jobLog' = IF Logged(rec) THEN Append(jobLog, <<rec.stage, rec.n>>) ELSE jobLog
  BY DEF HandleRecord
<1>6. jobLog' \in Seq((StepStages \cup {"none", "complete"}) \X (0 .. StepCount))
  <2>1. <<rec.stage, rec.n>> \in (StepStages \cup {"none", "complete"}) \X (0 .. StepCount)
    BY <1>1 DEF RecordType
  <2>2. QED
    BY <1>5, <2>1 DEF ShownTypeOK
<1>7. stateResult' \in {"none", "success", "failure", "cancelled"}
  BY <1>1 DEF HandleRecord, ShownTypeOK, RecordType
<1>8. steps' \in [Steps -> ShownEntry]
  BY HandledSteps
<1>9. QED
  BY <1>2, <1>3, <1>4, <1>5, <1>6, <1>7, <1>8

\* The rank of the step a record is shown in.
LEMMA KeyRank ==
    ASSUME ShownTypeOK, ListInv, NEW rec, Fits(rec)
    PROVE  /\ AtRank \in Int /\ CurRank \in Int
           /\ Rank(reportedStepOf(rec)[1], reportedStepOf(rec)[2]) \in Int
           /\ Rank(reportedStepOf(rec)[1], reportedStepOf(rec)[2]) <= AtRank
<1>1. AtRank \in Int /\ CurRank \in Int
  BY Ranks DEF ShownTypeOK, AtOK, AtRank, CurRank
<1>2. CASE rec.stage = "complete"
  <2>1. reportedStepOf(rec) = Cleanup
    BY <1>2 DEF reportedStepOf
  <2>2. Rank(reportedStepOf(rec)[1], reportedStepOf(rec)[2]) = 3 * StepCount + 1
    BY <2>1 DEF Rank, Cleanup
  <2>3. QED
    BY <1>1, <1>2, <2>2, ReportedStepsAssumption DEF Fits
<1>3. CASE rec.stage # "complete" /\ Own(rec)
  <2>1. reportedStepOf(rec) = <<rec.stage, rec.n>> /\ OfStep(rec) /\ rec.n \in 0 .. StepCount
    BY <1>3 DEF reportedStepOf, Own, Fits, RecordType
  <2>2. QED
    BY <1>1, <2>1, Ranks DEF Fits
<1>4. CASE rec.stage # "complete" /\ ~Own(rec)
  <2>1. reportedStepOf(rec) = cur
    BY <1>4 DEF reportedStepOf
  <2>2. QED
    BY <1>1, <2>1 DEF ListInv, CurRank
<1>5. QED
  BY <1>2, <1>3, <1>4

\* A record leaves the list in the order of the job.
LEMMA RecordList ==
    ASSUME ShownTypeOK, ListInv, NEW rec, Fits(rec), HandleRecord(rec), GoesOn
    PROVE  ListInv'
<1>1. rec \in RecordType /\ BeginsHere(rec)
  BY DEF Fits
<1>2. /\ shown' \in Seq(ShownEntry) /\ Sorted(shown')
      /\ \A i \in DOMAIN shown' :
           \E v \in ShownEntry :
               /\ shown'[i] = Given(v, rec)
               /\ \/ \E j \in DOMAIN shown : v = shown[j]
                  \/ /\ v = Entry(rec.stage, rec.n) /\ OfStep(rec) /\ rec.started
                     /\ ~Has(shown, <<rec.stage, rec.n>>) /\ KeyOf(v) = <<rec.stage, rec.n>>
      /\ \A j \in DOMAIN shown : \E i \in DOMAIN shown' : shown'[i] = Given(shown[j], rec)
      /\ \E i \in DOMAIN shown' : KeyOf(shown'[i]) = reportedStepOf(rec)
  BY <1>1, HandledEntries
<1>3. \A v \in ShownEntry : /\ Given(v, rec).stage = v.stage /\ Given(v, rec).n = v.n
                            /\ KeyOf(Given(v, rec)) = KeyOf(v) /\ RankOf(Given(v, rec)) = RankOf(v)
  <2>1. Len(jobLog) \in Nat /\ Own(rec) \in BOOLEAN /\ Logged(rec) \in BOOLEAN
    BY Truths DEF ShownTypeOK
  <2>2. QED
    BY <1>1, <2>1, GivenEffect DEF KeyOf, RankOf
<1>4. \A i \in DOMAIN shown : shown[i] \in ShownEntry
  BY EntryFacts
<1>5. AtRank \in Int /\ AtRank' \in Int /\ AtRank <= AtRank'
  BY KeyRank DEF GoesOn
<1>6. \A k : Has(shown, k) => Has(shown', k)
  BY <1>2, <1>3, <1>4 DEF Has
<1>7. \A i \in DOMAIN shown' : shown'[i].stage \in StepStages <=> shown'[i].n # 0
  <2> SUFFICES ASSUME NEW i \in DOMAIN shown' PROVE shown'[i].stage \in StepStages <=> shown'[i].n # 0
    OBVIOUS
  <2>1. PICK v \in ShownEntry :
          /\ shown'[i] = Given(v, rec)
          /\ (\E j \in DOMAIN shown : v = shown[j]) \/ (v = Entry(rec.stage, rec.n) /\ OfStep(rec))
    BY <1>2
  <2>2. v.stage \in StepStages <=> v.n # 0
    <3>1. CASE \E j \in DOMAIN shown : v = shown[j]
      BY <3>1 DEF ListInv
    <3>2. CASE v = Entry(rec.stage, rec.n) /\ OfStep(rec)
      BY <3>2 DEF Entry, OfStep, StepStages, Fits, Steps
    <3>3. QED
      BY <2>1, <3>1, <3>2
  <2>3. QED
    BY <1>3, <2>1, <2>2
<1>8. \A i \in DOMAIN shown' : shown'[i].stage \in {"pre", "post"} => RankOf(shown'[i]) <= AtRank'
  <2> SUFFICES ASSUME NEW i \in DOMAIN shown', shown'[i].stage \in {"pre", "post"} PROVE RankOf(shown'[i]) <= AtRank'
    OBVIOUS
  <2>1. PICK v \in ShownEntry :
          /\ shown'[i] = Given(v, rec)
          /\ (\E j \in DOMAIN shown : v = shown[j]) \/ (v = Entry(rec.stage, rec.n) /\ OfStep(rec))
    BY <1>2
  <2>2. RankOf(v) <= AtRank
    <3>1. CASE \E j \in DOMAIN shown : v = shown[j]
      BY <1>3, <2>1, <3>1 DEF ListInv
    <3>2. CASE v = Entry(rec.stage, rec.n) /\ OfStep(rec)
      BY <3>2 DEF Entry, RankOf, Fits
    <3>3. QED
      BY <2>1, <3>1, <3>2
  <2>3. RankOf(v) \in Int
    BY Ranks DEF RankOf, ShownEntry
  <2>4. QED
    BY <1>3, <1>5, <2>1, <2>2, <2>3
<1>9. Has(shown', cur') /\ CurRank' <= AtRank'
  <2>1. cur' = reportedStepOf(rec)
    BY RecordTypes
  <2>2. CurRank' = Rank(reportedStepOf(rec)[1], reportedStepOf(rec)[2])
    BY <2>1 DEF CurRank
  <2>3. QED
    BY <1>2, <1>5, <2>1, <2>2, KeyRank DEF Has
<1>10. QED
  BY <1>2, <1>6, <1>7, <1>8, <1>9 DEF ListInv

\* A record leaves open steps without a result.
LEMMA RecordOpen ==
    ASSUME ShownTypeOK, ListInv, OpenInv, NEW rec, Fits(rec), HandleRecord(rec), GoesOn, GoesOnAfter(rec)
    PROVE  OpenInv'
<1> DEFINE StillOpen(stage, n) == Rank(stage, n) > AtRank' \/ (Rank(stage, n) = AtRank' /\ at'.ph # "failing")
<1> SUFFICES ASSUME AtRank' <= 3 * StepCount
             PROVE  /\ \A i \in DOMAIN shown' :
                        shown'[i].stage \in StepStages /\ StillOpen(shown'[i].stage, shown'[i].n) => shown'[i].res = "none"
                    /\ \A n \in Steps : StillOpen("main", n) => steps'[n].res = "none"
  BY DEF OpenInv, Open
<1>1. rec \in RecordType /\ BeginsHere(rec) /\ Len(jobLog) \in Nat /\ Own(rec) \in BOOLEAN /\ Logged(rec) \in BOOLEAN
  BY Truths DEF Fits, ShownTypeOK
<1>2. AtRank \in Int /\ AtRank' \in Int /\ AtRank <= AtRank' /\ AtRank <= 3 * StepCount
  BY KeyRank, ReportedStepsAssumption DEF GoesOn
<1>3. rec.job = "none" /\ rec.stage # "complete"
  BY <1>2, ReportedStepsAssumption DEF Fits
<1>4. ASSUME NEW stage \in StepStages, NEW n \in Steps, StillOpen(stage, n)
      PROVE  /\ Open(stage, n) /\ Rank(stage, n) \in Int /\ Rank(stage, n) >= AtRank /\ Rank(stage, n) >= AtRank'
             /\ ~(Rules(rec) /\ rec.stage = stage /\ rec.n = n)
  <2>1. Rank(stage, n) \in Int
    BY Ranks DEF Steps
  <2>2. Rank(stage, n) > AtRank' \/ (Rank(stage, n) = AtRank' /\ at'.ph # "failing")
    BY <1>4
  <2>3. Open(stage, n) /\ Rank(stage, n) >= AtRank /\ Rank(stage, n) >= AtRank'
    BY <1>2, <2>1, <2>2 DEF Open, GoesOn
  <2>4. ASSUME Rules(rec), rec.stage = stage, rec.n = n PROVE FALSE
    <3>1. Rank(stage, n) <= AtRank
      BY <2>4 DEF Fits, Rules, OfStep, StepStages
    <3>2. AtRank' > AtRank \/ at'.ph = "failing"
      BY <2>4 DEF GoesOnAfter, Rules
    <3>3. QED
      BY <1>2, <2>1, <2>2, <3>1, <3>2
  <2>5. QED
    BY <2>1, <2>3, <2>4
<1>5. ASSUME NEW i \in DOMAIN shown', shown'[i].stage \in StepStages, StillOpen(shown'[i].stage, shown'[i].n)
      PROVE  shown'[i].res = "none"
  <2>1. PICK v \in ShownEntry :
          /\ shown'[i] = Given(v, rec)
          /\ (\E j \in DOMAIN shown : v = shown[j]) \/ (v = Entry(rec.stage, rec.n) /\ OfStep(rec))
    <3>1. \A k \in DOMAIN shown' :
            \E v \in ShownEntry :
                /\ shown'[k] = Given(v, rec)
                /\ \/ \E j \in DOMAIN shown : v = shown[j]
                   \/ /\ v = Entry(rec.stage, rec.n) /\ OfStep(rec) /\ rec.started
                      /\ ~Has(shown, <<rec.stage, rec.n>>) /\ KeyOf(v) = <<rec.stage, rec.n>>
      BY <1>1, HandledEntries
    <3>2. QED
      BY <1>5, <3>1
  <2>2. shown'[i].stage = v.stage /\ shown'[i].n = v.n
    BY <1>1, <2>1, GivenEffect
  <2>3. v.stage \in StepStages /\ v.n \in Steps
    <3>1. CASE \E j \in DOMAIN shown : v = shown[j]
      BY <1>5, <2>2, <3>1 DEF ListInv, ShownEntry, Steps
    <3>2. CASE v = Entry(rec.stage, rec.n) /\ OfStep(rec)
      BY <3>2 DEF Entry, OfStep, StepStages, Fits
    <3>3. QED
      BY <2>1, <3>1, <3>2
  <2>4. StillOpen(v.stage, v.n)
    BY <1>5, <2>2
  <2>5. /\ Open(v.stage, v.n) /\ Rank(v.stage, v.n) \in Int
        /\ Rank(v.stage, v.n) >= AtRank /\ Rank(v.stage, v.n) >= AtRank'
        /\ ~(Rules(rec) /\ rec.stage = v.stage /\ rec.n = v.n)
    BY <1>4, <2>3, <2>4
  <2>6. v.res = "none"
    BY <1>2, <2>1, <2>3, <2>5 DEF OpenInv, Entry
  <2>7. KeyOf(v) # Setup
    BY <2>3 DEF KeyOf, Setup, StepStages
  <2>8. ~(Rules(rec) /\ KeyOf(v) = reportedStepOf(rec))
    BY <1>3, <2>5 DEF Rules, reportedStepOf, KeyOf
  <2>9. ASSUME ~Own(rec), rec.error, KeyOf(v) = reportedStepOf(rec) PROVE FALSE
    <3>1. KeyOf(v) = cur
      BY <1>3, <2>9 DEF reportedStepOf
    <3>2. Rank(v.stage, v.n) = CurRank
      BY <3>1 DEF KeyOf, CurRank
    <3>3. Rank(v.stage, v.n) = AtRank
      BY <1>2, <2>5, <3>2 DEF ListInv
    <3>4. CASE at.part \in StepStages
      <4>1. at.n \in Steps
        BY <3>4 DEF ShownTypeOK, AtOK, Steps
      <4>2. at.part = v.stage /\ at.n = v.n
        <5>1. v.stage \in StepStages \cup {"setup", "cleanup"} /\ v.n \in 0 .. StepCount /\ v.n # 0
          BY <2>3 DEF Steps
        <5>2. QED
          BY <2>3, <3>3, <3>4, <4>1, <5>1, RankIsOwn DEF AtRank
      <4>3. OfStep(rec)
        BY <1>1, <1>3, <3>4 DEF Fits, OfStep, RecordType, StepStages
      <4>4. rec.stage = v.stage /\ rec.n = v.n
        BY <2>9, <4>2, <4>3 DEF Fits
      <4>5. Has(shown, <<rec.stage, rec.n>>)
        BY <3>1, <4>4 DEF ListInv, KeyOf
      <4>6. QED
        BY <2>9, <4>3, <4>5 DEF Own
    <3>5. CASE at.part \notin StepStages
      <4>1. AtRank = 0 \/ AtRank = 3 * StepCount + 1
        BY <3>5, Ranks DEF ShownTypeOK, AtOK, AtRank, StepStages
      <4>2. Rank(v.stage, v.n) > 0
        BY <2>3, Ranks, ReportedStepsAssumption DEF Steps, StepStages
      <4>3. QED
        BY <1>2, <3>3, <4>1, <4>2, ReportedStepsAssumption
    <3>6. QED
      BY <3>4, <3>5
  <2>10. QED
    BY <1>1, <1>3, <2>1, <2>6, <2>7, <2>8, <2>9, GivenEffect
<1>6. ASSUME NEW n \in Steps, StillOpen("main", n) PROVE steps'[n].res = "none"
  <2>1. Open("main", n) /\ ~(Rules(rec) /\ rec.stage = "main" /\ rec.n = n)
    BY <1>4, <1>6 DEF StepStages
  <2>2. steps[n].res = "none" /\ steps[n] \in ShownEntry
    BY <1>2, <2>1 DEF OpenInv, ShownTypeOK
  <2>3. CASE rec.stage = "main" /\ rec.n = n
    <3>1. Own(rec)
      BY <2>3 DEF Own, OfStep, ListInv
    <3>2. ~(rec.res # "none" /\ ~rec.nested)
      BY <2>1, <2>3, <3>1 DEF Rules
    <3>3. QED
      BY <1>1, <2>2, <2>3, <3>2, HandledSteps, LegacyEffect
  <2>4. CASE ~(rec.stage = "main" /\ rec.n = n)
    BY <1>3, <2>2, <2>4, HandledSteps
  <2>5. QED
    BY <2>3, <2>4
<1>7. QED
  BY <1>5, <1>6

\* The entry a record rules is the one of the step the job is at, which is open.
LEMMA RulesOpen ==
    ASSUME ShownTypeOK, ListInv, OpenInv, NEW rec, Fits(rec), Rules(rec),
           NEW j \in DOMAIN shown, KeyOf(shown[j]) = reportedStepOf(rec)
    PROVE  shown[j].res = "none"
<1>1. OfStep(rec) /\ rec.stage = at.part /\ rec.n = at.n /\ at.ph # "failing" /\ rec.n \in Steps
  BY DEF Rules, Own, Fits
<1>2. reportedStepOf(rec) = <<rec.stage, rec.n>>
  BY <1>1 DEF reportedStepOf, Rules, OfStep
<1>3. shown[j].stage = at.part /\ shown[j].n = at.n /\ shown[j].stage \in StepStages
  BY <1>1, <1>2 DEF KeyOf, OfStep, StepStages
<1>4. AtRank <= 3 * StepCount /\ AtRank \in Int
  BY <1>1, <1>3, Ranks, ReportedStepsAssumption DEF AtRank, Steps, StepStages
<1>5. Open(shown[j].stage, shown[j].n)
  BY <1>1, <1>3 DEF Open, AtRank
<1>6. QED
  BY <1>3, <1>4, <1>5 DEF OpenInv

\* A result that a step is shown with is still its result.
Kept ==
    \A j \in DOMAIN shown : shown[j].res # "none" =>
        \E i \in DOMAIN shown' : KeyOf(shown'[i]) = KeyOf(shown[j]) /\ shown'[i].res = shown[j].res

\* No record takes a result back.
LEMMA RecordSticks ==
    ASSUME ShownTypeOK, ListInv, OpenInv, NEW rec, Fits(rec), HandleRecord(rec)
    PROVE  Kept
<1> SUFFICES ASSUME NEW j \in DOMAIN shown, shown[j].res # "none"
             PROVE  \E i \in DOMAIN shown' : KeyOf(shown'[i]) = KeyOf(shown[j]) /\ shown'[i].res = shown[j].res
  BY DEF Kept
<1>1. rec \in RecordType /\ BeginsHere(rec) /\ Len(jobLog) \in Nat /\ Own(rec) \in BOOLEAN /\ Logged(rec) \in BOOLEAN
  BY Truths DEF Fits, ShownTypeOK
<1>2. shown[j] \in ShownEntry
  BY EntryFacts
<1>3. PICK i \in DOMAIN shown' : shown'[i] = Given(shown[j], rec)
  <2>1. \A k \in DOMAIN shown : \E i \in DOMAIN shown' : shown'[i] = Given(shown[k], rec)
    BY <1>1, HandledEntries
  <2>2. QED
    BY <2>1
<1>4. ~(Rules(rec) /\ KeyOf(shown[j]) = reportedStepOf(rec))
  BY RulesOpen
<1>5. QED
  BY <1>1, <1>2, <1>3, <1>4, GivenEffect DEF KeyOf

\* A record leaves the two lists in agreement.
LEMMA RecordAgree ==
    ASSUME ShownTypeOK, ListInv, OpenInv, AgreeInv, NEW rec, Fits(rec), HandleRecord(rec)
    PROVE  AgreeInv'
<1>1. rec \in RecordType /\ BeginsHere(rec) /\ Len(jobLog) \in Nat /\ Own(rec) \in BOOLEAN /\ Logged(rec) \in BOOLEAN
  BY Truths DEF Fits, ShownTypeOK
<1>2. \A i \in DOMAIN shown' :
        \E v \in ShownEntry :
            /\ shown'[i] = Given(v, rec)
            /\ \/ \E j \in DOMAIN shown : v = shown[j]
               \/ /\ v = Entry(rec.stage, rec.n) /\ OfStep(rec) /\ rec.started
                  /\ ~Has(shown, <<rec.stage, rec.n>>) /\ KeyOf(v) = <<rec.stage, rec.n>>
  BY <1>1, HandledEntries
<1>3. ASSUME NEW i \in DOMAIN shown', shown'[i].st = "new"
      PROVE  shown'[i].res \in {"none", "skipped", "cancelled"}
  <2>1. PICK v \in ShownEntry :
          shown'[i] = Given(v, rec) /\ ((\E j \in DOMAIN shown : v = shown[j]) \/ v = Entry(rec.stage, rec.n))
    BY <1>2
  <2>2. v.st = "new" => v.res \in {"none", "skipped", "cancelled"}
    BY <2>1 DEF AgreeInv, Entry
  <2>3. QED
    BY <1>1, <1>3, <2>1, <2>2, GivenEffect
<1>4. ASSUME NEW i \in DOMAIN shown', shown'[i].stage = "main", steps'[shown'[i].n].st = "stopped"
      PROVE  shown'[i].res = steps'[shown'[i].n].res /\ shown'[i].res # "none"
  <2>1. PICK v \in ShownEntry :
          /\ shown'[i] = Given(v, rec)
          /\ \/ \E j \in DOMAIN shown : v = shown[j]
             \/ v = Entry(rec.stage, rec.n) /\ OfStep(rec) /\ ~Has(shown, <<rec.stage, rec.n>>)
    BY <1>2
  <2>2. v.stage = "main" /\ shown'[i].n = v.n
    BY <1>1, <1>4, <2>1, GivenEffect
  <2>3. \E j \in DOMAIN shown : v = shown[j]
    <3>1. ASSUME v = Entry(rec.stage, rec.n), OfStep(rec), ~Has(shown, <<rec.stage, rec.n>>) PROVE FALSE
      BY <2>2, <3>1 DEF Entry, ListInv, Fits
    <3>2. QED
      BY <2>1, <3>1
  <2>4. v.n \in Steps
    BY <2>2, <2>3 DEF ListInv, ShownEntry, Steps, StepStages
  <2>5. steps[v.n].st = "stopped" => v.res = steps[v.n].res /\ v.res # "none"
    BY <2>2, <2>3 DEF AgreeInv
  <2>6. CASE rec.stage = "main" /\ rec.n = v.n
    <3>1. Own(rec) /\ reportedStepOf(rec) = KeyOf(v)
      BY <2>2, <2>4, <2>6 DEF Own, OfStep, ListInv, reportedStepOf, KeyOf
    <3>2. steps'[v.n] = LegacyStep(steps[v.n], rec) /\ steps[v.n] \in ShownEntry
      BY <2>4, <2>6, HandledSteps DEF ShownTypeOK
    <3>3. CASE rec.res # "none" /\ ~rec.nested
      <4>1. Rules(rec)
        BY <3>1, <3>3 DEF Rules
      <4>2. shown'[i].res = rec.res
        <5>1. Rules(rec) /\ KeyOf(v) = reportedStepOf(rec) => Given(v, rec).res = rec.res
          BY <1>1, GivenEffect
        <5>2. QED
          BY <2>1, <3>1, <4>1, <5>1
      <4>3. steps'[v.n].res = rec.res
        BY <1>1, <3>2, <3>3, LegacyEffect
      <4>4. QED
        BY <2>2, <3>3, <4>2, <4>3
    <3>4. CASE ~(rec.res # "none" /\ ~rec.nested)
      <4>1. steps'[v.n].res = steps[v.n].res /\ steps[v.n].st = "stopped"
        BY <1>1, <1>4, <2>2, <3>2, <3>4, LegacyEffect
      <4>2. ~Rules(rec)
        BY <3>4 DEF Rules
      <4>3. shown'[i].res = v.res
        BY <1>1, <2>1, <2>5, <4>1, <4>2, GivenEffect
      <4>4. QED
        BY <2>2, <2>5, <4>1, <4>3
    <3>5. QED
      BY <3>3, <3>4
  <2>7. CASE ~(rec.stage = "main" /\ rec.n = v.n)
    <3>1. steps'[v.n].st = steps[v.n].st /\ (steps[v.n].res # "none" => steps'[v.n].res = steps[v.n].res)
      BY <2>4, <2>7, HandledSteps
    <3>2. ~(Rules(rec) /\ KeyOf(v) = reportedStepOf(rec))
      BY <2>2, <2>7 DEF Rules, Own, OfStep, reportedStepOf, KeyOf
    <3>3. steps[v.n].st = "stopped"
      BY <1>4, <2>2, <3>1
    <3>4. shown'[i].res = v.res
      BY <1>1, <2>1, <2>5, <3>2, <3>3, GivenEffect
    <3>5. QED
      BY <2>2, <2>5, <3>1, <3>3, <3>4
  <2>8. QED
    BY <2>6, <2>7
<1>5. QED
  BY <1>3, <1>4 DEF AgreeInv

-----------------------------------------------------------------------------
(* Rows.                                                                   *)

\* The rows are those of the shown steps, in their order, and none is in a step
\* behind the current one.
TilesInv ==
    ~lateRow =>
        /\ \A r \in DOMAIN jobLog : \E i \in DOMAIN shown : r \in RowsOf(shown[i])
        /\ \A i \in DOMAIN shown : shown[i].len > 0 => shown[i].idx + shown[i].len <= Len(jobLog)
        /\ \A i, j \in DOMAIN shown :
            RankOf(shown[i]) < RankOf(shown[j]) /\ shown[i].len > 0 /\ shown[j].len > 0 =>
                shown[i].idx + shown[i].len <= shown[j].idx
        /\ \A r \in DOMAIN jobLog : \A i \in DOMAIN shown :
            r \in RowsOf(shown[i]) => (jobLog[r] = KeyOf(shown[i]) \/ ~Has(shown, jobLog[r]))
        /\ \A i \in DOMAIN shown : RankOf(shown[i]) > CurRank => shown[i].len = 0

\* What a row, if there is one, does to an entry.
Became(v, w, key, logged) ==
    /\ w.stage = v.stage /\ w.n = v.n
    /\ ~(logged /\ KeyOf(v) = key) => w.idx = v.idx /\ w.len = v.len
    /\ logged /\ KeyOf(v) = key => w.len = v.len + 1 /\ w.idx = IF v.len = 0 THEN Len(jobLog) ELSE v.idx

\* A step that is not behind the current one ends with the log.
LEMMA LastEnds ==
    ASSUME ShownTypeOK, ListInv, TilesInv, ~lateRow, NEW j \in DOMAIN shown, RankOf(shown[j]) >= CurRank,
           shown[j].len > 0
    PROVE  shown[j].idx + shown[j].len = Len(jobLog)
<1>1. Len(jobLog) \in Nat /\ DOMAIN jobLog = 1 .. Len(jobLog) /\ CurRank \in Int
  BY Ranks DEF ShownTypeOK, CurRank
<1>2. \A i \in DOMAIN shown : shown[i].idx \in Nat /\ shown[i].len \in Nat /\ RankOf(shown[i]) \in Int
  BY EntryFacts DEF ShownEntry
<1>3. shown[j].idx + shown[j].len <= Len(jobLog) /\ RankOf(shown[j]) = CurRank
  BY <1>1, <1>2 DEF TilesInv
<1>4. ASSUME shown[j].idx + shown[j].len < Len(jobLog) PROVE FALSE
  <2>1. Len(jobLog) \in DOMAIN jobLog
    BY <1>1, <1>2, <1>4
  <2>2. PICK k \in DOMAIN shown : Len(jobLog) \in RowsOf(shown[k])
    BY <2>1 DEF TilesInv
  <2>3. shown[k].len > 0 /\ Len(jobLog) <= shown[k].idx + shown[k].len
    BY <1>1, <1>2, <2>2 DEF RowsOf
  <2>4. ~(RankOf(shown[k]) > CurRank)
    BY <2>3 DEF TilesInv
  <2>5. ~(RankOf(shown[k]) < RankOf(shown[j]))
    <3>1. RankOf(shown[k]) < RankOf(shown[j]) => shown[k].idx + shown[k].len <= shown[j].idx
      BY <2>3 DEF TilesInv
    <3>2. QED
      BY <1>1, <1>2, <1>4, <2>3, <3>1
  <2>6. RankOf(shown[k]) = RankOf(shown[j])
    BY <1>1, <1>2, <1>3, <2>4, <2>5
  <2>7. ~(k < j) /\ ~(j < k) /\ k \in Int /\ j \in Int
    BY <1>2, <2>6, EntryFacts DEF ListInv, Sorted
  <2>8. k = j
    BY <2>7
  <2>9. QED
    BY <1>1, <1>2, <1>4, <2>3, <2>8
<1>5. QED
  BY <1>1, <1>2, <1>3, <1>4

\* A row keeps the rows in order when it is shown in the current step or in a later one.
LEMMA TileStep ==
    ASSUME ShownTypeOK, ListInv, TilesInv, ~lateRow,
           NEW key, NEW row, NEW logged \in BOOLEAN,
           shown' \in Seq(ShownEntry),
           \A i \in DOMAIN shown' :
               \E v \in ShownEntry :
                   /\ Became(v, shown'[i], key, logged)
                   /\ \/ \E j \in DOMAIN shown : v = shown[j]
                      \/ v.len = 0 /\ KeyOf(v) = key /\ \A r \in DOMAIN jobLog : jobLog[r] # key,
           \A j \in DOMAIN shown : \E i \in DOMAIN shown' : Became(shown[j], shown'[i], key, logged),
           \E i \in DOMAIN shown' : KeyOf(shown'[i]) = key,
           jobLog' = IF logged THEN Append(jobLog, row) ELSE jobLog,
           row = key \/ ~Has(shown', row),
           cur' = key, Rank(key[1], key[2]) \in Int, Rank(key[1], key[2]) >= CurRank
    PROVE  TilesInv'
<1> DEFINE N == Len(jobLog)
           N1 == IF logged THEN N + 1 ELSE N
           Old(v) == \E j \in DOMAIN shown : v = shown[j]
           From(v, w) ==
               /\ Became(v, w, key, logged)
               /\ Old(v) \/ (v.len = 0 /\ KeyOf(v) = key /\ \A r \in DOMAIN jobLog : jobLog[r] # key)
<1>1. N \in Nat /\ DOMAIN jobLog = 1 .. N /\ CurRank \in Int
  BY Ranks DEF ShownTypeOK, CurRank
<1>2. /\ DOMAIN jobLog' = 1 .. N1 /\ Len(jobLog') = N1
      /\ \A r \in 1 .. N : jobLog'[r] = jobLog[r]
      /\ logged => jobLog'[N + 1] = row
  BY <1>1 DEF ShownTypeOK
<1>3. \A i \in DOMAIN shown' : \E v \in ShownEntry : From(v, shown'[i])
  OBVIOUS
<1>4. \A v \in ShownEntry : v.idx \in Nat /\ v.len \in Nat /\ RankOf(v) \in Int
  BY Ranks DEF RankOf, ShownEntry
<1>5. \A i \in DOMAIN shown' : shown'[i] \in ShownEntry
  OBVIOUS
<1>6. \A v \in ShownEntry : KeyOf(v) = key => RankOf(v) = Rank(key[1], key[2])
  BY DEF KeyOf, RankOf
\* What an entry that got the row looks like.
<1>7. ASSUME NEW v \in ShownEntry, Old(v) \/ v.len = 0, KeyOf(v) = key, v.len > 0
      PROVE  v.idx + v.len = N
  <2>1. PICK j \in DOMAIN shown : v = shown[j]
    BY <1>4, <1>7
  <2>2. RankOf(shown[j]) >= CurRank
    BY <1>6, <1>7, <2>1
  <2>3. QED
    BY <1>7, <2>1, <2>2, LastEnds
<1>8. ASSUME NEW v \in ShownEntry, NEW w \in ShownEntry, From(v, w)
      PROVE  /\ RankOf(w) = RankOf(v) /\ KeyOf(w) = KeyOf(v)
             /\ logged /\ KeyOf(v) = key => w.len > 0 /\ w.idx + w.len = N + 1
             /\ ~(logged /\ KeyOf(v) = key) =>
                  /\ w.idx = v.idx /\ w.len = v.len
                  /\ v.len > 0 => Old(v) /\ v.idx + v.len <= N
  <2>1. RankOf(w) = RankOf(v) /\ KeyOf(w) = KeyOf(v)
    BY <1>8 DEF Became, RankOf, KeyOf
  <2>2. CASE logged /\ KeyOf(v) = key
    <3>1. w.len = v.len + 1 /\ w.idx = IF v.len = 0 THEN N ELSE v.idx
      BY <1>8, <2>2 DEF Became
    <3>2. v.len > 0 => v.idx + v.len = N
      BY <1>7, <1>8, <2>2
    <3>3. v.len \in Nat /\ v.idx \in Nat
      BY <1>4
    <3>4. w.len > 0 /\ w.idx + w.len = N + 1
      <4>1. CASE v.len = 0
        <5>1. w.len = 1 /\ w.idx = N
          BY <3>1, <4>1
        <5>2. QED
          BY <1>1, <5>1
      <4>2. CASE v.len # 0
        <5>1. w.len = v.len + 1 /\ w.idx = v.idx /\ v.idx + v.len = N
          BY <3>1, <3>2, <3>3, <4>2
        <5>2. QED
          BY <1>1, <3>3, <5>1
      <4>3. QED
        BY <4>1, <4>2
    <3>5. QED
      BY <2>1, <2>2, <3>4
  <2>3. CASE ~(logged /\ KeyOf(v) = key)
    <3>1. w.idx = v.idx /\ w.len = v.len
      BY <1>8, <2>3 DEF Became
    <3>2. v.len > 0 => Old(v)
      BY <1>8
    <3>3. v.len > 0 => v.idx + v.len <= N
      BY <3>2 DEF TilesInv
    <3>4. QED
      BY <2>1, <2>3, <3>1, <3>2, <3>3
  <2>4. QED
    BY <2>2, <2>3
<1> HIDE DEF From
<1>9. ASSUME NEW r \in DOMAIN jobLog' PROVE \E i \in DOMAIN shown' : r \in RowsOf(shown'[i])
  <2>1. CASE r \in 1 .. N
    <3>1. PICK j \in DOMAIN shown : r \in RowsOf(shown[j])
      BY <1>1, <2>1 DEF TilesInv
    <3>2. PICK i \in DOMAIN shown' : Became(shown[j], shown'[i], key, logged)
      OBVIOUS
    <3>3. shown[j].idx \in Nat /\ shown[j].len \in Nat /\ shown'[i].idx \in Nat /\ shown'[i].len \in Nat
      BY <1>4, <1>5, EntryFacts
    <3>4. shown[j].idx + 1 <= r /\ r <= shown[j].idx + shown[j].len /\ shown[j].len # 0
      BY <2>1, <3>1, <3>3 DEF RowsOf
    <3>5. shown'[i].idx = shown[j].idx /\ shown[j].len <= shown'[i].len
      BY <3>2, <3>3, <3>4 DEF Became
    <3>6. r \in RowsOf(shown'[i])
      BY <2>1, <3>3, <3>4, <3>5, SMTT(30) DEF RowsOf
    <3>7. QED
      BY <3>6
  <2>2. CASE r \notin 1 .. N
    <3>1. logged /\ r = N + 1
      BY <1>1, <1>2, <2>2
    <3>2. PICK i \in DOMAIN shown' : KeyOf(shown'[i]) = key
      OBVIOUS
    <3>3. PICK v \in ShownEntry : From(v, shown'[i])
      BY <1>3
    <3>4. shown'[i].len > 0 /\ shown'[i].idx + shown'[i].len = N + 1
      BY <1>5, <1>8, <3>1, <3>2, <3>3
    <3>5. shown'[i].idx \in Nat /\ shown'[i].len \in Nat
      BY <1>4, <1>5
    <3>6. r \in RowsOf(shown'[i])
      BY <1>1, <3>1, <3>4, <3>5 DEF RowsOf
    <3>7. QED
      BY <3>6
  <2>3. QED
    BY <2>1, <2>2
<1>10. ASSUME NEW i \in DOMAIN shown', shown'[i].len > 0 PROVE shown'[i].idx + shown'[i].len <= N1
  <2>1. PICK v \in ShownEntry : From(v, shown'[i])
    BY <1>3
  <2>2. shown'[i] \in ShownEntry
    BY <1>5
  <2>3. /\ logged /\ KeyOf(v) = key => shown'[i].idx + shown'[i].len = N + 1
        /\ ~(logged /\ KeyOf(v) = key) => shown'[i].idx + shown'[i].len <= N
    BY <1>8, <1>10, <2>1, <2>2
  <2>4. shown'[i].idx \in Nat /\ shown'[i].len \in Nat
    BY <1>4, <2>2
  <2>5. QED
    BY <1>1, <2>3, <2>4
<1>11. ASSUME NEW i \in DOMAIN shown', NEW j \in DOMAIN shown', RankOf(shown'[i]) < RankOf(shown'[j]),
              shown'[i].len > 0, shown'[j].len > 0
       PROVE  shown'[i].idx + shown'[i].len <= shown'[j].idx
  <2>1. PICK v \in ShownEntry : From(v, shown'[i])
    BY <1>3
  <2>2. PICK u \in ShownEntry : From(u, shown'[j])
    BY <1>3
  <2>3. shown'[i] \in ShownEntry /\ shown'[j] \in ShownEntry /\ RankOf(v) < RankOf(u)
    BY <1>5, <1>8, <1>11, <2>1, <2>2
  <2>4. ~(logged /\ KeyOf(v) = key)
    <3> SUFFICES ASSUME logged, KeyOf(v) = key PROVE FALSE
      OBVIOUS
    <3>1. RankOf(v) >= CurRank
      BY <1>6
    <3>2. RankOf(u) > CurRank /\ KeyOf(u) # key
      BY <1>1, <1>4, <1>6, <2>3, <3>1
    <3>3. Old(u) /\ u.len > 0
      BY <1>8, <1>11, <2>2, <2>3, <3>2
    <3>4. QED
      BY <3>2, <3>3, <1>4 DEF TilesInv
  <2>5. shown'[i].idx = v.idx /\ shown'[i].len = v.len /\ Old(v) /\ v.idx + v.len <= N
    BY <1>8, <1>11, <2>1, <2>3, <2>4
  <2>6. CASE u.len > 0
    <3>1. Old(u) /\ shown'[j].idx = u.idx
      <4>1. u.len # 0
        BY <2>6
      <4>2. QED
        BY <2>2, <4>1 DEF From, Became
    <3>2. v.idx + v.len <= u.idx
      BY <1>11, <2>3, <2>5, <2>6, <3>1 DEF TilesInv
    <3>3. QED
      BY <2>5, <3>1, <3>2
  <2>7. CASE ~(u.len > 0)
    <3>1. logged /\ KeyOf(u) = key
      BY <1>8, <1>11, <2>2, <2>3, <2>7
    <3>2. shown'[j].idx = N
      <4>1. u.len \in Nat
        BY <1>4
      <4>2. u.len = 0
        BY <2>7, <4>1
      <4>3. QED
        BY <2>2, <3>1, <4>2 DEF From, Became
    <3>3. QED
      BY <2>5, <3>2
  <2>8. QED
    BY <2>6, <2>7
<1>12. ASSUME NEW r \in DOMAIN jobLog', NEW i \in DOMAIN shown', r \in RowsOf(shown'[i])
       PROVE  jobLog'[r] = KeyOf(shown'[i]) \/ ~Has(shown', jobLog'[r])
  <2>1. PICK v \in ShownEntry : From(v, shown'[i])
    BY <1>3
  <2>2. shown'[i] \in ShownEntry /\ KeyOf(shown'[i]) = KeyOf(v)
    BY <1>5, <1>8, <2>1
  <2>3. r \in Nat /\ r >= 1 /\ shown'[i].idx + 1 <= r /\ r <= shown'[i].idx + shown'[i].len /\ shown'[i].len > 0
    <3>1. shown'[i].idx \in Nat /\ shown'[i].len \in Nat
      BY <1>4, <2>2
    <3>2. QED
      BY <1>1, <1>2, <1>12, <3>1, SMTT(30) DEF RowsOf
  <2>4. CASE r \in 1 .. N
    <3>1. v.len > 0
      <4>1. ASSUME v.len = 0 PROVE FALSE
        <5>1. logged /\ KeyOf(v) = key /\ shown'[i].idx = N
          BY <2>1, <2>3, <4>1 DEF From, Became
        <5>2. QED
          BY <1>1, <2>3, <2>4, <5>1
      <4>2. QED
        BY <1>4, <4>1, SMTT(30)
    <3>2. Old(v) /\ shown'[i].idx = v.idx
      BY <1>4, <2>1, <3>1, SMTT(30) DEF From, Became
    <3>3. r <= v.idx + v.len
      <4>1. CASE logged /\ KeyOf(v) = key
        BY <1>1, <1>7, <2>4, <3>1, <3>2, <4>1
      <4>2. CASE ~(logged /\ KeyOf(v) = key)
        BY <1>8, <2>1, <2>2, <2>3, <4>2
      <4>3. QED
        BY <4>1, <4>2
    <3>4. r \in RowsOf(v)
      BY <1>4, <2>3, <3>2, <3>3 DEF RowsOf
    <3>5. jobLog[r] = KeyOf(v) \/ ~Has(shown, jobLog[r])
      BY <1>1, <2>4, <3>2, <3>4 DEF TilesInv
    <3>6. ASSUME Has(shown', jobLog[r]) PROVE Has(shown, jobLog[r])
      <4>1. PICK k \in DOMAIN shown' : KeyOf(shown'[k]) = jobLog[r]
        BY <3>6 DEF Has
      <4>2. PICK u \in ShownEntry : From(u, shown'[k])
        BY <1>3
      <4>3. KeyOf(u) = jobLog[r]
        BY <1>5, <1>8, <4>1, <4>2
      <4>4. Old(u)
        BY <1>1, <2>4, <4>2, <4>3 DEF From
      <4>5. QED
        BY <4>3, <4>4 DEF Has
    <3>7. QED
      BY <1>2, <2>2, <2>4, <3>5, <3>6
  <2>5. CASE r \notin 1 .. N
    <3>1. logged /\ r = N + 1
      BY <1>1, <1>2, <2>5
    <3>2. KeyOf(v) = key
      <4>1. ASSUME KeyOf(v) # key PROVE FALSE
        <5>1. shown'[i].idx = v.idx /\ shown'[i].len = v.len /\ (v.len > 0 => v.idx + v.len <= N)
          BY <1>8, <2>1, <2>2, <4>1
        <5>2. v.idx \in Nat /\ v.len \in Nat
          BY <1>4
        <5>3. QED
          BY <1>1, <2>3, <3>1, <5>1, <5>2
      <4>2. QED
        BY <4>1
    <3>3. QED
      BY <1>2, <2>2, <3>1, <3>2
  <2>6. QED
    BY <2>4, <2>5
<1>13. ASSUME NEW i \in DOMAIN shown', RankOf(shown'[i]) > CurRank' PROVE shown'[i].len = 0
  <2>1. PICK v \in ShownEntry : From(v, shown'[i])
    BY <1>3
  <2>2. shown'[i] \in ShownEntry /\ RankOf(shown'[i]) = RankOf(v)
    BY <1>5, <1>8, <2>1
  <2>3. CurRank' = Rank(key[1], key[2])
    BY DEF CurRank
  <2>4. KeyOf(v) # key /\ RankOf(v) > CurRank
    BY <1>1, <1>4, <1>6, <1>13, <2>2, <2>3
  <2>5. shown'[i].len = v.len /\ (v.len > 0 => Old(v))
    BY <1>8, <2>1, <2>2, <2>4
  <2>6. ~(v.len > 0)
    BY <2>4, <2>5 DEF TilesInv
  <2>7. QED
    BY <1>4, <2>5, <2>6
<1>14. QED
  BY <1>2, <1>9, <1>10, <1>11, <1>12, <1>13 DEF TilesInv

\* Rows of a step come while the job is at it.
BehindInv ==
    ~lateRow =>
        \A r \in DOMAIN jobLog : jobLog[r][1] \in StepStages =>
            /\ jobLog[r][2] \in Steps
            /\ \/ Rank(jobLog[r][1], jobLog[r][2]) < AtRank
               \/ Rank(jobLog[r][1], jobLog[r][2]) = AtRank /\ at.ph # "enter"

\* The first step has a result when the job is behind it.
FirstInv == at.part = "main" /\ (at.n > 1 \/ at.ph = "failing") => steps[1].res # "none"

\* By its index a step has its own rows, and the current one ends with the log.
LegacyInv ==
    ~lateRow =>
        /\ \A n \in Steps : Rank("main", n) > AtRank \/ (Rank("main", n) = AtRank /\ at.ph = "enter") => steps[n].len = 0
        /\ at.part = "main" /\ steps[at.n].len > 0 => steps[at.n].idx + steps[at.n].len = Len(jobLog)
        /\ \A n \in Steps : \A r \in RowsOf(steps[n]) : r \in DOMAIN jobLog /\ jobLog[r] = <<"main", n>>

\* A record that is not late, and the way the job goes on after it.
Punctual(rec) ==
    /\ OfStep(rec) => rec.stage = at.part /\ rec.n = at.n
    /\ at.part \in StepStages => OfStep(rec)
    /\ rec.started => at.ph = "enter"
    /\ at.ph = "failing" => rec.error

LeavesEnter == AtRank' > AtRank \/ (AtRank' = AtRank /\ (at'.ph # "enter" \/ at.part \notin StepStages))

\* A record that is not late is shown in the current step or in a later one.
LEMMA RecordTiles ==
    ASSUME ShownTypeOK, ListInv, TilesInv, BehindInv, ~lateRow, NEW rec, Fits(rec), Punctual(rec), HandleRecord(rec)
    PROVE  TilesInv'
<1> DEFINE key == reportedStepOf(rec)
           row == <<rec.stage, rec.n>>
<1>1. rec \in RecordType /\ BeginsHere(rec) /\ Len(jobLog) \in Nat /\ Own(rec) \in BOOLEAN /\ Logged(rec) \in BOOLEAN
  BY Truths DEF Fits, ShownTypeOK
<1>2. /\ shown' \in Seq(ShownEntry)
      /\ \A i \in DOMAIN shown' :
           \E v \in ShownEntry :
               /\ shown'[i] = Given(v, rec)
               /\ \/ \E j \in DOMAIN shown : v = shown[j]
                  \/ /\ v = Entry(rec.stage, rec.n) /\ OfStep(rec) /\ rec.started
                     /\ ~Has(shown, <<rec.stage, rec.n>>) /\ KeyOf(v) = <<rec.stage, rec.n>>
      /\ \A j \in DOMAIN shown : \E i \in DOMAIN shown' : shown'[i] = Given(shown[j], rec)
      /\ \E i \in DOMAIN shown' : KeyOf(shown'[i]) = key
  BY <1>1, HandledEntries
<1>3. \A v \in ShownEntry : Became(v, Given(v, rec), key, Logged(rec)) /\ KeyOf(Given(v, rec)) = KeyOf(v)
  BY <1>1, GivenEffect DEF Became, KeyOf
<1>4. \A i \in DOMAIN shown : shown[i] \in ShownEntry
  BY EntryFacts
<1>5. cur' = key /\ jobLog' = IF Logged(rec) THEN Append(jobLog, row) ELSE jobLog
  BY RecordTypes
<1>6. ASSUME OfStep(rec), rec.started PROVE key = row /\ \A r \in DOMAIN jobLog : jobLog[r] # row
  <2>1. key = row
    BY <1>6 DEF reportedStepOf, Own, OfStep
  <2>2. ASSUME NEW r \in DOMAIN jobLog, jobLog[r] = row PROVE FALSE
    <3>1. rec.stage = at.part /\ rec.n = at.n /\ at.ph = "enter" /\ rec.stage \in StepStages
      BY <1>6 DEF Punctual, OfStep, StepStages
    <3>2. jobLog[r][1] = at.part /\ jobLog[r][2] = at.n
      BY <2>2, <3>1
    <3>3. Rank(jobLog[r][1], jobLog[r][2]) = AtRank /\ AtRank \in Int
      BY <3>2, KeyRank DEF AtRank
    <3>4. QED
      BY <3>1, <3>2, <3>3 DEF BehindInv
  <2>3. QED
    BY <2>1, <2>2
<1>7. \A i \in DOMAIN shown' :
        \E v \in ShownEntry :
            /\ Became(v, shown'[i], key, Logged(rec))
            /\ \/ \E j \in DOMAIN shown : v = shown[j]
               \/ v.len = 0 /\ KeyOf(v) = key /\ \A r \in DOMAIN jobLog : jobLog[r] # key
  <2> SUFFICES ASSUME NEW i \in DOMAIN shown'
               PROVE  \E v \in ShownEntry :
                        /\ Became(v, shown'[i], key, Logged(rec))
                        /\ \/ \E j \in DOMAIN shown : v = shown[j]
                           \/ v.len = 0 /\ KeyOf(v) = key /\ \A r \in DOMAIN jobLog : jobLog[r] # key
    OBVIOUS
  <2>1. PICK v \in ShownEntry :
          /\ shown'[i] = Given(v, rec)
          /\ \/ \E j \in DOMAIN shown : v = shown[j]
             \/ v = Entry(rec.stage, rec.n) /\ OfStep(rec) /\ rec.started /\ KeyOf(v) = <<rec.stage, rec.n>>
    BY <1>2
  <2>2. Became(v, shown'[i], key, Logged(rec))
    BY <1>3, <2>1
  <2>3. v = Entry(rec.stage, rec.n) => v.len = 0
    BY DEF Entry
  <2> HIDE DEF key
  <2>4. QED
    BY <1>6, <2>1, <2>2, <2>3
<1>8. \A j \in DOMAIN shown : \E i \in DOMAIN shown' : Became(shown[j], shown'[i], key, Logged(rec))
  BY <1>2, <1>3, <1>4
<1>9. row = key \/ ~Has(shown', row)
  <2>1. CASE Own(rec)
    BY <2>1 DEF reportedStepOf, Own, OfStep
  <2>2. CASE ~Own(rec)
    <3> SUFFICES ASSUME NEW i \in DOMAIN shown', KeyOf(shown'[i]) = row PROVE FALSE
      BY DEF Has
    <3>1. PICK v \in ShownEntry :
            /\ shown'[i] = Given(v, rec)
            /\ (\E j \in DOMAIN shown : v = shown[j]) \/ (OfStep(rec) /\ rec.started)
      BY <1>2
    <3>2. KeyOf(v) = row
      BY <1>3, <3>1
    <3>3. \E j \in DOMAIN shown : v = shown[j]
      BY <2>2, <3>1 DEF Own
    <3>4. ~OfStep(rec)
      BY <2>2, <3>2, <3>3 DEF Own, Has
    <3>5. v.stage = rec.stage /\ v.stage \in StepStages \cup {"setup", "cleanup"}
      BY <3>2 DEF KeyOf, ShownEntry
    <3>6. rec.stage \in {"none", "complete"}
      BY <1>1, <3>4 DEF RecordType, OfStep, StepStages
    <3>7. QED
      BY <3>5, <3>6 DEF StepStages
  <2>3. QED
    BY <1>1, <2>1, <2>2
<1>10. Rank(key[1], key[2]) \in Int /\ Rank(key[1], key[2]) >= CurRank
  <2>1. AtRank \in Int /\ CurRank \in Int /\ Rank(key[1], key[2]) \in Int /\ CurRank <= AtRank
    BY KeyRank DEF ListInv
  <2>2. CASE rec.stage = "complete"
    <3>1. Rank(key[1], key[2]) = 3 * StepCount + 1
      BY <2>2 DEF reportedStepOf, Rank, Cleanup
    <3>2. QED
      BY <2>1, <2>2, <3>1 DEF Fits
  <2>3. CASE rec.stage # "complete" /\ Own(rec)
    <3>1. key = <<at.part, at.n>>
      BY <2>3 DEF reportedStepOf, Punctual, Own
    <3>2. QED
      BY <2>1, <3>1 DEF AtRank
  <2>4. CASE rec.stage # "complete" /\ ~Own(rec)
    <3>1. key = cur
      BY <2>4 DEF reportedStepOf
    <3>2. QED
      BY <2>1, <3>1 DEF CurRank
  <2>5. QED
    BY <2>2, <2>3, <2>4
<1> HIDE DEF key, row
<1>11. QED
  BY <1>1, <1>2, <1>5, <1>7, <1>8, <1>9, <1>10, TileStep

\* A row after a record is one from before, or the record's.
LEMMA LogStep ==
    ASSUME ShownTypeOK, ListInv, NEW rec, Fits(rec), HandleRecord(rec)
    PROVE  /\ Len(jobLog) \in Nat /\ DOMAIN jobLog = 1 .. Len(jobLog)
           /\ Len(jobLog') = IF Logged(rec) THEN Len(jobLog) + 1 ELSE Len(jobLog)
           /\ DOMAIN jobLog' = 1 .. Len(jobLog')
           /\ \A r \in DOMAIN jobLog : jobLog'[r] = jobLog[r]
           /\ Logged(rec) => jobLog'[Len(jobLog) + 1] = <<rec.stage, rec.n>>
           /\ \A r \in DOMAIN jobLog : r \in DOMAIN jobLog'
           /\ \A r \in DOMAIN jobLog' : r \in DOMAIN jobLog \/ (Logged(rec) /\ r = Len(jobLog) + 1)
<1>1. jobLog' = IF Logged(rec) THEN Append(jobLog, <<rec.stage, rec.n>>) ELSE jobLog
  BY RecordTypes
<1>2. jobLog \in Seq((StepStages \cup {"none", "complete"}) \X (0 .. StepCount))
  BY DEF ShownTypeOK
<1>3. QED
  BY <1>1, <1>2

\* Where the job is at no step, its rank is none of a step.
LEMMA NoStepRank ==
    ASSUME ShownTypeOK, at.part \notin StepStages, NEW stage \in StepStages, NEW n \in Steps
    PROVE  Rank(stage, n) # AtRank
<1>1. AtRank = 0 \/ AtRank = 3 * StepCount + 1
  BY Ranks DEF ShownTypeOK, AtOK, AtRank, StepStages
<1>2. Rank(stage, n) \in 1 .. 3 * StepCount
  BY Ranks, ReportedStepsAssumption DEF Steps, StepStages
<1>3. QED
  BY <1>1, <1>2, ReportedStepsAssumption

\* A record that is not late keeps rows behind the job.
LEMMA RecordBehind ==
    ASSUME ShownTypeOK, ListInv, BehindInv, ~lateRow, NEW rec, Fits(rec), Punctual(rec), HandleRecord(rec),
           GoesOn, LeavesEnter
    PROVE  BehindInv'
<1> SUFFICES ASSUME NEW r \in DOMAIN jobLog', jobLog'[r][1] \in StepStages
             PROVE  /\ jobLog'[r][2] \in Steps
                    /\ \/ Rank(jobLog'[r][1], jobLog'[r][2]) < AtRank'
                       \/ Rank(jobLog'[r][1], jobLog'[r][2]) = AtRank' /\ at'.ph # "enter"
  BY DEF BehindInv
<1>1. AtRank \in Int /\ AtRank' \in Int /\ AtRank <= AtRank'
  BY KeyRank DEF GoesOn
<1>2. /\ jobLog'[r][2] \in Steps
      /\ Rank(jobLog'[r][1], jobLog'[r][2]) <= AtRank
  <2>1. CASE r \in DOMAIN jobLog
    <3>1. jobLog'[r] = jobLog[r]
      BY <2>1, LogStep
    <3>2. /\ jobLog[r][2] \in Steps
          /\ Rank(jobLog[r][1], jobLog[r][2]) < AtRank \/ Rank(jobLog[r][1], jobLog[r][2]) = AtRank
      BY <2>1, <3>1 DEF BehindInv
    <3>3. Rank(jobLog[r][1], jobLog[r][2]) \in Int
      BY <3>2, Ranks DEF Steps
    <3>4. QED
      BY <1>1, <3>1, <3>2, <3>3
  <2>2. CASE r \notin DOMAIN jobLog
    <3>1. jobLog'[r] = <<rec.stage, rec.n>>
      BY <2>2, LogStep
    <3>2. jobLog'[r][1] = rec.stage /\ jobLog'[r][2] = rec.n /\ OfStep(rec)
      BY <3>1 DEF OfStep, StepStages
    <3>3. QED
      BY <3>2 DEF Fits
  <2>3. QED
    BY <2>1, <2>2
<1>3. Rank(jobLog'[r][1], jobLog'[r][2]) \in Int
  BY <1>2, Ranks DEF Steps
<1>4. CASE AtRank' = AtRank /\ Rank(jobLog'[r][1], jobLog'[r][2]) = AtRank
  <2>1. at.part \in StepStages
    BY <1>2, <1>4, NoStepRank
  <2>2. QED
    BY <1>1, <1>2, <1>4, <2>1 DEF LeavesEnter
<1>5. QED
  BY <1>1, <1>2, <1>3, <1>4

\* The way the job goes on past the first step.
PassesFirst(rec) ==
    at'.part = "main" /\ (at'.n > 1 \/ at'.ph = "failing") =>
        /\ at.part = "main"
        /\ \/ at.n > 1 \/ at.ph = "failing"
           \/ rec.stage = "main" /\ rec.n = 1 /\ rec.res # "none" /\ ~rec.nested

\* The first step has its result when the job leaves it.
LEMMA RecordFirst ==
    ASSUME ShownTypeOK, FirstInv, NEW rec, Fits(rec), HandleRecord(rec), PassesFirst(rec)
    PROVE  FirstInv'
<1> SUFFICES ASSUME at'.part = "main", at'.n > 1 \/ at'.ph = "failing" PROVE steps'[1].res # "none"
  BY DEF FirstInv
<1>1. 1 \in Steps /\ steps[1] \in ShownEntry /\ rec \in RecordType /\ Len(jobLog) \in Nat
  <2>1. 1 \in Steps
    BY ReportedStepsAssumption DEF Steps
  <2>2. QED
    BY <2>1 DEF ShownTypeOK, Fits
<1>2. \/ steps[1].res # "none"
      \/ rec.stage = "main" /\ rec.n = 1 /\ rec.res # "none" /\ ~rec.nested
  BY DEF PassesFirst, FirstInv
<1>3. CASE rec.stage = "main" /\ rec.n = 1
  <2>1. steps'[1] = LegacyStep(steps[1], rec)
    BY <1>1, <1>3, HandledSteps
  <2>2. /\ rec.res # "none" /\ ~rec.nested => LegacyStep(steps[1], rec).res = rec.res
        /\ ~(rec.res # "none" /\ ~rec.nested) => LegacyStep(steps[1], rec).res = steps[1].res
    BY <1>1, LegacyEffect
  <2>3. QED
    BY <1>2, <2>1, <2>2
<1>4. CASE ~(rec.stage = "main" /\ rec.n = 1)
  BY <1>1, <1>2, <1>4, HandledSteps
<1>5. QED
  BY <1>3, <1>4

\* A result is not logged once the current step has rows.
LEMMA NotLogged ==
    ASSUME ShownTypeOK, OpenInv, FirstInv, NEW rec, Fits(rec), Punctual(rec), rec.stage = "main",
           ~(rec.error \/ rec.raw), steps[rec.n].len > 0
    PROVE  ~Logged(rec)
<1>1. rec.n \in Steps /\ at.part = "main" /\ at.n = rec.n /\ at.ph # "failing" /\ 1 \in Steps /\ StepCount \in Steps
  BY ReportedStepsAssumption DEF Punctual, Fits, OfStep, Steps
<1>2. steps[1].res # "none" \/ steps[1].len # 0
  <2>1. CASE at.n = 1
    BY <1>1, <2>1
  <2>2. CASE at.n # 1
    BY <1>1, <2>2 DEF FirstInv, Steps
  <2>3. QED
    BY <2>1, <2>2
<1>3. steps[StepCount].res = "none"
  <2>1. AtRank = StepCount + at.n /\ Rank("main", StepCount) = StepCount + StepCount
    BY <1>1 DEF AtRank, Rank
  <2>2. AtRank <= 3 * StepCount /\ Open("main", StepCount)
    BY <1>1, <2>1, ReportedStepsAssumption DEF Open, Steps
  <2>3. QED
    BY <1>1, <2>2 DEF OpenInv
<1>4. duringSteps
  BY <1>2, <1>3 DEF duringSteps
<1>5. QED
  BY <1>4 DEF Logged, shouldAppendLogRow

\* A record that is not late is in the step that emitted it, by its index too.
LEMMA RecordLegacy ==
    ASSUME ShownTypeOK, ListInv, OpenInv, FirstInv, LegacyInv, ~lateRow,
           NEW rec, Fits(rec), Punctual(rec), HandleRecord(rec), GoesOn, LeavesEnter, AtOK'
    PROVE  LegacyInv'
<1>1. rec \in RecordType /\ Len(jobLog) \in Nat /\ \A n \in Steps : steps[n] \in ShownEntry
  BY DEF Fits, ShownTypeOK
<1>2. AtRank \in Int /\ AtRank' \in Int /\ AtRank <= AtRank'
  BY KeyRank DEF GoesOn
<1>3. \A n \in Steps : Rank("main", n) \in Int
  BY Ranks DEF Steps
<1>4. \A n \in Steps : /\ steps[n].len \in Nat /\ steps[n].idx \in Nat
                        /\ steps'[n].len \in Nat /\ steps'[n].idx \in Nat
  <2>1. steps' \in [Steps -> ShownEntry]
    BY HandledSteps
  <2>2. QED
    BY <1>1, <2>1 DEF ShownEntry
\* The step of the record.
<1>5. ASSUME NEW n \in Steps, rec.stage = "main", rec.n = n
      PROVE  /\ at.part = "main" /\ at.n = n /\ AtRank = Rank("main", n)
             /\ steps'[n].len = IF rec.error \/ rec.raw THEN steps[n].len + 1 ELSE steps[n].len
             /\ steps[n].len > 0 => steps'[n].idx = steps[n].idx /\ steps[n].idx + steps[n].len = Len(jobLog)
             /\ steps[n].len = 0 /\ (rec.error \/ rec.raw) => steps'[n].idx = Len(jobLog)
             /\ rec.error \/ rec.raw => Logged(rec)
             /\ ~(rec.error \/ rec.raw) /\ steps[n].len > 0 => ~Logged(rec)
  <2>1. at.part = "main" /\ at.n = n
    BY <1>5 DEF Punctual, OfStep
  <2>2. steps'[n] = LegacyStep(steps[n], rec) /\ steps[n] \in ShownEntry
    BY <1>1, <1>5, HandledSteps
  <2>3. /\ LegacyStep(steps[n], rec).len = IF rec.error \/ rec.raw THEN steps[n].len + 1 ELSE steps[n].len
        /\ steps[n].len > 0 => LegacyStep(steps[n], rec).idx = steps[n].idx
        /\ steps[n].len = 0 /\ (rec.error \/ rec.raw) => LegacyStep(steps[n], rec).idx = Len(jobLog)
    BY <1>1, <2>2, LegacyEffect
  <2>4. steps[n].len > 0 => steps[n].idx + steps[n].len = Len(jobLog)
    BY <2>1 DEF LegacyInv
  <2>5. rec.error \/ rec.raw => Logged(rec)
    BY <1>5 DEF Logged
  <2>6. ~(rec.error \/ rec.raw) /\ steps[n].len > 0 => ~Logged(rec)
    BY <1>5, NotLogged
  <2>7. AtRank = Rank("main", n)
    BY <2>1 DEF AtRank
  <2>8. QED
    BY <2>1, <2>2, <2>3, <2>4, <2>5, <2>6, <2>7
<1>6. ASSUME NEW n \in Steps, Rank("main", n) > AtRank' \/ (Rank("main", n) = AtRank' /\ at'.ph = "enter")
      PROVE  steps'[n].len = 0 /\ steps[n].len = 0 /\ ~(rec.stage = "main" /\ rec.n = n)
  <2>1. ~(rec.stage = "main" /\ rec.n = n)
    <3> SUFFICES ASSUME rec.stage = "main", rec.n = n PROVE FALSE
      OBVIOUS
    <3>1. AtRank = Rank("main", n) /\ at.part \in StepStages
      BY <1>5 DEF StepStages
    <3>2. QED
      BY <1>2, <1>3, <1>6, <3>1 DEF LeavesEnter
  <2>2. Rank("main", n) > AtRank \/ (Rank("main", n) = AtRank /\ AtRank' = AtRank)
    BY <1>2, <1>3, <1>6
  <2>3. ASSUME Rank("main", n) = AtRank, AtRank' = AtRank PROVE FALSE
    <3>1. at.part \in StepStages
      BY <2>3, NoStepRank DEF StepStages
    <3>2. at'.ph # "enter" /\ ~(Rank("main", n) > AtRank')
      BY <1>2, <2>3, <3>1 DEF LeavesEnter
    <3>3. QED
      BY <1>6, <3>2
  <2>4. steps[n].len = 0
    BY <2>2, <2>3 DEF LegacyInv
  <2>5. steps'[n].len = steps[n].len
    BY <2>1, HandledSteps
  <2>6. QED
    BY <2>1, <2>4, <2>5
<1>7. ASSUME at'.part = "main", steps'[at'.n].len > 0
      PROVE  steps'[at'.n].idx + steps'[at'.n].len = Len(jobLog')
  <2> DEFINE n == at'.n
  <2>1. n \in Steps
    BY <1>7 DEF AtOK, StepStages, Steps
  <2>2. AtRank' = Rank("main", n)
    BY <1>7 DEF AtRank
  <2> HIDE DEF n
  <2>3. AtRank = AtRank'
    <3>1. ASSUME AtRank < AtRank' PROVE FALSE
      <4>1. steps[n].len = 0
        BY <2>1, <2>2, <3>1 DEF LegacyInv
      <4>2. ~(rec.stage = "main" /\ rec.n = n)
        BY <1>2, <1>5, <2>1, <2>2, <3>1
      <4>3. steps'[n].len = steps[n].len
        BY <2>1, <4>2, HandledSteps
      <4>4. QED
        BY <1>7, <4>1, <4>3 DEF n
    <3>2. QED
      BY <1>2, <3>1
  <2>4. at.part \in StepStages
    BY <2>1, <2>2, <2>3, NoStepRank DEF StepStages
  <2>5. at.part = "main" /\ at.n = n
    <3>1. at.n \in Steps /\ at.n \in 0 .. StepCount /\ at.n # 0
      BY <2>4 DEF ShownTypeOK, AtOK, Steps
    <3>2. Rank("main", n) = Rank(at.part, at.n) /\ "main" \in StepStages
      BY <2>2, <2>3 DEF AtRank, StepStages
    <3>3. QED
      BY <2>1, <2>4, <3>1, <3>2, RankIsOwn
  <2>6. rec.stage = "main" /\ rec.n = n
    BY <2>4, <2>5 DEF Punctual
  <2>7. Len(jobLog') = IF Logged(rec) THEN Len(jobLog) + 1 ELSE Len(jobLog)
    BY LogStep
  <2>8. steps'[n].len > 0
    BY <1>7 DEF n
  <2>9. steps[n].len \in Nat /\ steps[n].idx \in Nat /\ steps'[n].idx \in Nat
    BY <1>4, <2>1
  <2>10. steps'[n].idx + steps'[n].len = Len(jobLog')
    <3>1. CASE steps[n].len = 0
      <4>1. rec.error \/ rec.raw
        BY <1>5, <2>1, <2>6, <2>8, <3>1
      <4>2. steps'[n].len = 1 /\ steps'[n].idx = Len(jobLog) /\ Logged(rec)
        BY <1>5, <2>1, <2>6, <3>1, <4>1
      <4>3. QED
        BY <1>1, <2>7, <4>2
    <3>2. CASE steps[n].len > 0 /\ (rec.error \/ rec.raw)
      <4>1. /\ steps'[n].len = steps[n].len + 1 /\ steps'[n].idx = steps[n].idx
            /\ steps[n].idx + steps[n].len = Len(jobLog) /\ Logged(rec)
        BY <1>5, <2>1, <2>6, <3>2
      <4>2. Len(jobLog') = Len(jobLog) + 1
        BY <2>7, <4>1
      <4>3. steps'[n].idx + steps'[n].len = steps[n].idx + steps[n].len + 1
        BY <2>9, <4>1
      <4>4. QED
        BY <4>1, <4>2, <4>3
    <3>3. CASE steps[n].len > 0 /\ ~(rec.error \/ rec.raw)
      <4>1. /\ steps'[n].len = steps[n].len /\ steps'[n].idx = steps[n].idx
            /\ steps[n].idx + steps[n].len = Len(jobLog) /\ ~Logged(rec)
        BY <1>5, <2>1, <2>6, <3>3
      <4>2. QED
        BY <1>1, <2>7, <2>9, <4>1
    <3>4. QED
      BY <2>9, <3>1, <3>2, <3>3
  <2>11. QED
    BY <2>10 DEF n
<1>8. ASSUME NEW n \in Steps, NEW r \in RowsOf(steps'[n])
      PROVE  r \in DOMAIN jobLog' /\ jobLog'[r] = <<"main", n>>
  <2>1. r \in Nat /\ steps'[n].idx + 1 <= r /\ r <= steps'[n].idx + steps'[n].len
    BY <1>4 DEF RowsOf
  <2>2. ASSUME r \in RowsOf(steps[n]) PROVE r \in DOMAIN jobLog' /\ jobLog'[r] = <<"main", n>>
    <3>1. r \in DOMAIN jobLog /\ jobLog[r] = <<"main", n>>
      BY <2>2 DEF LegacyInv
    <3>2. QED
      BY <3>1, LogStep
  <2>3. CASE ~(rec.stage = "main" /\ rec.n = n)
    <3>1. steps'[n].idx = steps[n].idx /\ steps'[n].len = steps[n].len
      BY <2>3, HandledSteps
    <3>2. r \in RowsOf(steps[n])
      BY <1>4, <2>1, <3>1 DEF RowsOf
    <3>3. QED
      BY <2>2, <3>2
  <2>4. CASE rec.stage = "main" /\ rec.n = n
    <3>1. /\ steps'[n].len = IF rec.error \/ rec.raw THEN steps[n].len + 1 ELSE steps[n].len
          /\ steps[n].len > 0 => steps'[n].idx = steps[n].idx /\ steps[n].idx + steps[n].len = Len(jobLog)
          /\ steps[n].len = 0 /\ (rec.error \/ rec.raw) => steps'[n].idx = Len(jobLog)
          /\ rec.error \/ rec.raw => Logged(rec)
      BY <1>5, <2>4
    <3>2. CASE r = Len(jobLog) + 1 /\ Logged(rec)
      <4>1. jobLog'[r] = <<rec.stage, rec.n>> /\ r \in DOMAIN jobLog'
        BY <1>1, <3>2, LogStep
      <4>2. QED
        BY <2>4, <4>1
    <3>3. CASE ~(r = Len(jobLog) + 1 /\ Logged(rec))
      <4>1. steps[n].idx \in Nat /\ steps[n].len \in Nat
        BY <1>4
      <4>2. steps[n].len > 0
        <5>1. ASSUME steps[n].len = 0 PROVE FALSE
          <6>1. rec.error \/ rec.raw
            BY <1>4, <2>1, <3>1, <5>1
          <6>2. steps'[n].len = 1 /\ steps'[n].idx = Len(jobLog) /\ Logged(rec)
            BY <3>1, <5>1, <6>1
          <6>3. QED
            BY <1>1, <2>1, <3>3, <6>2
        <5>2. QED
          BY <4>1, <5>1
      <4>3. r <= steps[n].idx + steps[n].len /\ steps[n].idx + 1 <= r
        <5>1. CASE rec.error \/ rec.raw
          BY <1>1, <2>1, <3>1, <3>3, <4>1, <4>2, <5>1, SMTT(30)
        <5>2. CASE ~(rec.error \/ rec.raw)
          BY <2>1, <3>1, <4>1, <4>2, <5>2
        <5>3. QED
          BY <5>1, <5>2
      <4>4. r \in RowsOf(steps[n])
        BY <2>1, <4>1, <4>3 DEF RowsOf
      <4>5. QED
        BY <2>2, <4>4
    <3>4. QED
      BY <3>2, <3>3
  <2>5. QED
    BY <2>3, <2>4
<1>9. QED
  BY <1>6, <1>7, <1>8 DEF LegacyInv

-----------------------------------------------------------------------------
(* Steps of the job.                                                       *)

ShownInv ==
    /\ ShownTypeOK /\ ListInv /\ OpenInv /\ AgreeInv /\ ClosedInv
    /\ TilesInv /\ BehindInv /\ FirstInv /\ LegacyInv

\* The job emits a record and goes on.
LEMMA Emission ==
    ASSUME ShownInv, NEW rec, HandleRecord(rec), Fits(rec), Punctual(rec),
           UNCHANGED lateRow, ended' \in {"no", "failed", "cancelled"}, AtOK', at'.part # "closed",
           GoesOn, GoesOnAfter(rec), LeavesEnter, PassesFirst(rec)
    PROVE  ShownInv' /\ Kept
<1>1. ShownTypeOK /\ ListInv /\ OpenInv /\ AgreeInv /\ TilesInv /\ BehindInv /\ FirstInv /\ LegacyInv
  BY DEF ShownInv
<1>2. ShownTypeOK'
  BY <1>1, RecordTypes DEF ShownTypeOK
<1>3. ListInv' /\ OpenInv' /\ AgreeInv' /\ FirstInv'
  BY <1>1, RecordList, RecordOpen, RecordAgree, RecordFirst
<1>4. TilesInv' /\ BehindInv' /\ LegacyInv'
  <2>1. CASE ~lateRow
    BY <1>1, <2>1, RecordTiles, RecordBehind, RecordLegacy
  <2>2. CASE lateRow
    BY <2>2 DEF TilesInv, BehindInv, LegacyInv
  <2>3. QED
    BY <2>1, <2>2
<1>5. ClosedInv'
  BY DEF ClosedInv
<1>6. Kept
  BY <1>1, RecordSticks
<1>7. QED
  BY <1>2, <1>3, <1>4, <1>5, <1>6 DEF ShownInv

\* Where the job goes on after a step: to a later one, which it has not entered.
LEMMA AfterStep ==
    ASSUME AtOK, at.part \in StepStages, NEW good, at' = After(good)
    PROVE  /\ AtOK' /\ at'.part # "closed" /\ at'.ph = "enter"
           /\ AtRank \in Int /\ AtRank' \in Int /\ AtRank' > AtRank
           /\ at'.part = "main" /\ at'.n > 1 => at.part = "main"
<1>1. at.n \in 1 .. StepCount /\ StepCount \in Nat \ {0}
  BY ReportedStepsAssumption DEF AtOK
<1>2. AtRank \in Int
  BY Ranks DEF AtOK, AtRank
<1>3. ASSUME NEW part \in {"main", "post", "complete", "pre"}, NEW n \in 0 .. StepCount, n = 0 <=> part = "complete",
             at' = Where(part, n)
      PROVE  AtOK' /\ at'.part = part /\ at'.n = n /\ at'.ph = "enter" /\ AtRank' = Rank(part, n)
  BY <1>3 DEF Where, AtOK, AtRank, JobParts, StepStages
<1>4. CASE at.part = "pre"
  <2>1. \/ at' = Where("main", 1)
        \/ at' = Where("pre", at.n + 1) /\ at.n + 1 \in 1 .. StepCount
    BY <1>1, <1>4 DEF After
  <2>2. CASE at' = Where("main", 1)
    <3>1. AtOK' /\ at'.part = "main" /\ at'.n = 1 /\ at'.ph = "enter" /\ AtRank' = Rank("main", 1)
      BY <1>1, <1>3, <2>2
    <3>2. QED
      BY <1>1, <1>4, <3>1 DEF AtRank, Rank
  <2>3. CASE at' = Where("pre", at.n + 1) /\ at.n + 1 \in 1 .. StepCount
    <3>1. AtOK' /\ at'.part = "pre" /\ at'.ph = "enter" /\ AtRank' = Rank("pre", at.n + 1)
      BY <1>1, <1>3, <2>3
    <3>2. QED
      BY <1>1, <1>4, <3>1 DEF AtRank, Rank
  <2>4. QED
    BY <2>1, <2>2, <2>3
<1>5. CASE at.part = "main"
  <2>1. \/ at' = Where("post", StepCount) /\ at.n = StepCount
        \/ at' = Where("main", at.n + 1) /\ at.n + 1 \in 1 .. StepCount
    BY <1>1, <1>5 DEF After
  <2>2. CASE at' = Where("post", StepCount) /\ at.n = StepCount
    <3>1. AtOK' /\ at'.part = "post" /\ at'.ph = "enter" /\ AtRank' = Rank("post", StepCount)
      BY <1>1, <1>3, <2>2
    <3>2. QED
      BY <1>1, <1>5, <2>2, <3>1 DEF AtRank, Rank
  <2>3. CASE at' = Where("main", at.n + 1) /\ at.n + 1 \in 1 .. StepCount
    <3>1. AtOK' /\ at'.part = "main" /\ at'.ph = "enter" /\ AtRank' = Rank("main", at.n + 1)
      BY <1>1, <1>3, <2>3
    <3>2. QED
      BY <1>1, <1>5, <3>1 DEF AtRank, Rank
  <2>4. QED
    BY <2>1, <2>2, <2>3
<1>6. CASE at.part = "post"
  <2>1. \/ at' = Where("complete", 0) /\ at.n = 1
        \/ at' = Where("post", at.n - 1) /\ at.n - 1 \in 1 .. StepCount
    BY <1>1, <1>6 DEF After
  <2>2. CASE at' = Where("complete", 0) /\ at.n = 1
    <3>1. AtOK' /\ at'.part = "complete" /\ at'.ph = "enter" /\ AtRank' = Rank("complete", 0)
      BY <1>1, <1>3, <2>2
    <3>2. QED
      BY <1>1, <1>6, <2>2, <3>1 DEF AtRank, Rank
  <2>3. CASE at' = Where("post", at.n - 1) /\ at.n - 1 \in 1 .. StepCount
    <3>1. AtOK' /\ at'.part = "post" /\ at'.ph = "enter" /\ AtRank' = Rank("post", at.n - 1)
      BY <1>1, <1>3, <2>3
    <3>2. QED
      BY <1>1, <1>6, <3>1 DEF AtRank, Rank
  <2>4. QED
    BY <2>1, <2>2, <2>3
<1>7. QED
  BY <1>4, <1>5, <1>6 DEF StepStages

\* The step the job is at emits a record and stays, or goes on with its result.
LEMMA StepEmission ==
    ASSUME ShownInv, NEW rec \in RecordType, HandleRecord(rec),
           rec.stage = at.part, rec.n = at.n, at.part \in StepStages, rec.job = "none",
           rec.started => at.ph = "enter", rec.res # "none" => at.ph # "failing", at.ph = "failing" => rec.error,
           UNCHANGED lateRow, ended' \in {"no", "failed", "cancelled"},
           \/ \E p \in {"body", "output", "nested", "continued", "failing"} :
                /\ at' = [at EXCEPT !.ph = p] /\ at.ph # "failing"
                /\ p = "failing" <=> rec.res # "none" /\ ~rec.nested
           \/ \E good \in BOOLEAN :
                /\ at' = After(good)
                /\ at.ph = "failing" \/ (rec.res # "none" /\ ~rec.nested)
    PROVE  ShownInv' /\ Kept
<1>1. AtOK /\ at.n \in Steps /\ AtRank \in Int
  BY Ranks DEF ShownInv, ShownTypeOK, AtOK, AtRank, Steps
<1>2. OfStep(rec) /\ Rank(rec.stage, rec.n) = AtRank
  BY DEF OfStep, StepStages, AtRank
<1>3. Fits(rec) /\ Punctual(rec)
  BY <1>1, <1>2 DEF Fits, BeginsHere, Punctual, StepStages
<1>4. ASSUME NEW p \in {"body", "output", "nested", "continued", "failing"},
             at' = [at EXCEPT !.ph = p], at.ph # "failing", p = "failing" <=> rec.res # "none" /\ ~rec.nested
      PROVE  /\ AtOK' /\ at'.part # "closed"
             /\ GoesOn /\ GoesOnAfter(rec) /\ LeavesEnter /\ PassesFirst(rec)
  <2>1. at'.part = at.part /\ at'.n = at.n /\ at'.ph = p
    BY <1>1, <1>4 DEF AtOK
  <2>2. AtOK'
    BY <1>1, <1>4, <2>1 DEF AtOK
  <2>3. AtRank' = AtRank
    BY <2>1 DEF AtRank
  <2>4. GoesOn /\ GoesOnAfter(rec) /\ LeavesEnter
    BY <1>1, <1>4, <2>1, <2>3 DEF GoesOn, GoesOnAfter, LeavesEnter
  <2>5. PassesFirst(rec)
    BY <1>1, <1>4, <2>1 DEF PassesFirst, Steps
  <2>6. QED
    BY <2>1, <2>2, <2>4, <2>5 DEF StepStages
<1>5. ASSUME NEW good \in BOOLEAN, at' = After(good), at.ph = "failing" \/ (rec.res # "none" /\ ~rec.nested)
      PROVE  /\ AtOK' /\ at'.part # "closed"
             /\ GoesOn /\ GoesOnAfter(rec) /\ LeavesEnter /\ PassesFirst(rec)
  <2>1. /\ AtOK' /\ at'.part # "closed" /\ at'.ph = "enter"
        /\ AtRank' \in Int /\ AtRank' > AtRank
        /\ at'.part = "main" /\ at'.n > 1 => at.part = "main"
    BY <1>1, <1>5, AfterStep
  <2>2. GoesOn /\ GoesOnAfter(rec) /\ LeavesEnter
    BY <2>1 DEF GoesOn, GoesOnAfter, LeavesEnter
  <2>3. PassesFirst(rec)
    BY <1>1, <1>5, <2>1 DEF PassesFirst, Steps
  <2>4. QED
    BY <2>1, <2>2, <2>3
<1>6. AtOK' /\ at'.part # "closed" /\ GoesOn /\ GoesOnAfter(rec) /\ LeavesEnter /\ PassesFirst(rec)
  BY <1>4, <1>5
<1>7. QED
  BY <1>3, <1>6, Emission

\* The fields of a plain record.
LEMMA RecordIsTyped ==
    /\ Record \in RecordType
    /\ Record.stage = "none" /\ Record.n = 0 /\ Record.started = FALSE /\ Record.res = "none"
    /\ Record.error = FALSE /\ Record.raw = FALSE /\ Record.nested = FALSE /\ Record.job = "none"
BY ReportedStepsAssumption DEF Record, RecordType, StepResults

\* The job emits a record of its own.
LEMMA JobEmission ==
    ASSUME ShownInv, NEW rec \in RecordType, HandleRecord(rec),
           rec.stage \in {"none", "complete"}, ~rec.started, rec.res = "none", rec.job # "none" => rec.stage = "complete",
           at.part \notin StepStages, rec.stage = "complete" => at.part = "complete",
           UNCHANGED lateRow, ended' \in {"no", "failed", "cancelled"},
           AtOK', at'.part # "closed", AtRank' >= AtRank, at'.part = "main" => at'.n = 1 /\ at'.ph = "enter"
    PROVE  ShownInv' /\ Kept
<1>1. AtOK /\ AtRank \in Int /\ AtRank' \in Int /\ at.ph # "failing"
  <2>1. AtOK
    BY DEF ShownInv, ShownTypeOK
  <2>2. AtRank \in Int
    BY <2>1, Ranks DEF AtOK, AtRank
  <2>3. AtRank' \in Int
    BY Ranks DEF AtOK, AtRank
  <2>4. QED
    BY <2>1, <2>2, <2>3 DEF AtOK
<1>2. ~OfStep(rec)
  BY DEF OfStep
<1>3. rec.stage = "complete" => AtRank = 3 * StepCount + 1
  BY DEF AtRank, Rank
<1>4. Fits(rec) /\ Punctual(rec)
  BY <1>1, <1>2, <1>3 DEF Fits, BeginsHere, Punctual
<1>5. GoesOn /\ GoesOnAfter(rec) /\ LeavesEnter
  BY <1>1 DEF GoesOn, GoesOnAfter, LeavesEnter
<1>6. PassesFirst(rec)
  BY DEF PassesFirst
<1>7. QED
  BY <1>4, <1>5, <1>6, Emission

\* The job goes on without a record.
LEMMA Quiet ==
    ASSUME ShownInv, UNCHANGED <<reporterVars, lateRow>>, ended' \in {"no", "failed", "cancelled"},
           AtOK', at'.part # "closed", GoesOn, LeavesEnter, at'.part = "main" => at'.n = 1 /\ at'.ph = "enter"
    PROVE  ShownInv' /\ Kept
<1>1. UNCHANGED <<shown, cur, steps, jobLog, stateResult, lateRow>>
  BY DEF reporterVars
<1>2. /\ AtOK /\ ShownTypeOK /\ ListInv /\ OpenInv /\ AgreeInv /\ TilesInv /\ BehindInv /\ LegacyInv
      /\ \A i \in DOMAIN shown : shown[i] \in ShownEntry /\ RankOf(shown[i]) \in Int
  BY EntryFacts DEF ShownInv, ShownTypeOK
<1>3. AtRank \in Int /\ CurRank \in Int /\ AtRank' \in Int /\ AtRank <= AtRank' /\ CurRank' = CurRank
  BY <1>1, <1>2, Ranks DEF ShownTypeOK, AtOK, AtRank, CurRank, GoesOn
<1>4. ShownTypeOK'
  BY <1>1, <1>2 DEF ShownTypeOK
<1>5. ListInv'
  <2>1. CurRank' <= AtRank'
    BY <1>2, <1>3 DEF ListInv
  <2>2. \A i \in DOMAIN shown' : shown'[i].stage \in {"pre", "post"} => RankOf(shown'[i]) <= AtRank'
    BY <1>1, <1>2, <1>3 DEF ListInv
  <2>3. QED
    BY <1>1, <1>2, <2>1, <2>2 DEF ListInv
<1>6. OpenInv'
  <2> SUFFICES ASSUME AtRank' <= 3 * StepCount,
                      NEW stage \in StepStages, NEW n \in Steps,
                      Rank(stage, n) > AtRank' \/ (Rank(stage, n) = AtRank' /\ at'.ph # "failing")
               PROVE  AtRank <= 3 * StepCount /\ Open(stage, n)
    <3>1. \A i \in DOMAIN shown : shown[i].stage \in StepStages => shown[i].n \in Steps
      BY <1>2 DEF ListInv, ShownEntry, Steps
    <3>2. "main" \in StepStages
      BY DEF StepStages
    <3>3. QED
      BY <1>1, <1>2, <3>1, <3>2 DEF OpenInv, Open
  <2>1. Rank(stage, n) \in Int
    BY Ranks DEF Steps
  <2>2. QED
    BY <1>3, <2>1, ReportedStepsAssumption DEF Open, GoesOn
<1>7. AgreeInv' /\ ClosedInv' /\ FirstInv'
  BY <1>1, <1>2 DEF AgreeInv, ClosedInv, FirstInv
<1>8. TilesInv'
  BY <1>1, <1>2, <1>3 DEF TilesInv
<1>9. BehindInv'
  <2> SUFFICES ASSUME ~lateRow, NEW r \in DOMAIN jobLog, jobLog[r][1] \in StepStages
               PROVE  /\ jobLog[r][2] \in Steps
                      /\ \/ Rank(jobLog[r][1], jobLog[r][2]) < AtRank'
                         \/ Rank(jobLog[r][1], jobLog[r][2]) = AtRank' /\ at'.ph # "enter"
    BY <1>1 DEF BehindInv
  <2>1. /\ jobLog[r][2] \in Steps
        /\ Rank(jobLog[r][1], jobLog[r][2]) < AtRank \/ Rank(jobLog[r][1], jobLog[r][2]) = AtRank
    BY <1>2 DEF BehindInv
  <2>2. Rank(jobLog[r][1], jobLog[r][2]) \in Int
    BY <2>1, Ranks DEF Steps
  <2>3. CASE Rank(jobLog[r][1], jobLog[r][2]) = AtRank /\ AtRank' = AtRank
    <3>1. at.part \in StepStages
      BY <1>2, <2>1, <2>3, NoStepRank
    <3>2. QED
      BY <1>3, <2>1, <2>3, <3>1 DEF LeavesEnter
  <2>4. QED
    BY <1>3, <2>1, <2>2, <2>3
<1>10. LegacyInv'
  <2>1. ASSUME ~lateRow, NEW n \in Steps, Rank("main", n) > AtRank' \/ (Rank("main", n) = AtRank' /\ at'.ph = "enter")
        PROVE  steps[n].len = 0
    <3>1. Rank("main", n) \in Int
      BY Ranks DEF Steps
    <3>2. Rank("main", n) > AtRank \/ (Rank("main", n) = AtRank /\ AtRank' = AtRank /\ at'.ph = "enter")
      BY <1>3, <2>1, <3>1
    <3>3. ASSUME Rank("main", n) = AtRank, AtRank' = AtRank, at'.ph = "enter" PROVE FALSE
      <4>1. at.part \in StepStages
        BY <1>2, <3>3, NoStepRank DEF StepStages
      <4>2. QED
        BY <1>3, <3>3, <4>1 DEF LeavesEnter
    <3>4. QED
      BY <1>2, <2>1, <3>2, <3>3 DEF LegacyInv
  <2>2. ASSUME ~lateRow, at'.part = "main" PROVE steps[at'.n].len = 0
    <3>1. at'.n \in Steps /\ AtRank' = Rank("main", at'.n)
      BY <2>2, ReportedStepsAssumption DEF Steps, AtRank
    <3>2. QED
      BY <2>1, <2>2, <3>1
  <2>3. QED
    BY <1>1, <1>2, <2>1, <2>2 DEF LegacyInv
<1>11. Kept
  BY <1>1 DEF Kept
<1>12. QED
  BY <1>11, <1>4, <1>5, <1>6, <1>7, <1>8, <1>9, <1>10 DEF ShownInv

\* A row that comes late.
LEMMA LateEmission ==
    ASSUME ShownInv, LateRow
    PROVE  ShownInv' /\ Kept
<1>1. PICK n \in Steps : /\ steps[n].res = "failure" /\ (at.part = "main" => at.n # n) /\ at.part # "closed"
                         /\ HandleRecord([Record EXCEPT !.stage = "main", !.n = n, !.raw = TRUE])
  BY DEF LateRow
<1> DEFINE rec == [Record EXCEPT !.stage = "main", !.n = n, !.raw = TRUE]
<1>2. /\ rec.stage = "main" /\ rec.n = n /\ ~rec.started /\ rec.res = "none" /\ ~rec.error /\ rec.raw /\ rec.job = "none"
      /\ rec \in RecordType
  <2>1. rec \in RecordType
    <3>1. n \in 0 .. StepCount /\ "main" \in StepStages \cup {"none", "complete"}
      BY DEF Steps, StepStages
    <3>2. QED
      BY <3>1, RecordIsTyped DEF RecordType
  <2>2. rec.stage = "main" /\ rec.n = n /\ rec.res = "none" /\ rec.job = "none"
    BY RecordIsTyped DEF RecordType
  <2>3. rec.started = FALSE /\ rec.error = FALSE /\ rec.raw = TRUE
    BY RecordIsTyped DEF RecordType
  <2>4. QED
    BY <2>1, <2>2, <2>3
<1>3. HandleRecord(rec)
  BY <1>1
<1> HIDE DEF rec
<1>4. /\ ShownTypeOK /\ ListInv /\ OpenInv /\ AgreeInv /\ FirstInv
      /\ at' = at /\ ended' = ended /\ lateRow' = TRUE /\ AtOK /\ AtRank' = AtRank /\ AtRank \in Int
  <2>1. at' = at /\ ended' = ended /\ lateRow' = TRUE
    BY DEF LateRow
  <2>2. QED
    BY <2>1, Ranks DEF ShownInv, ShownTypeOK, AtOK, AtRank
<1>5. Rank("main", n) <= AtRank
  <2>1. Rank("main", n) \in StepCount + 1 .. 2 * StepCount
    BY Ranks, ReportedStepsAssumption DEF Steps
  <2>2. CASE AtRank <= 3 * StepCount
    <3>1. ~Open("main", n)
      BY <1>1, <1>4, <2>2 DEF OpenInv
    <3>2. QED
      BY <1>4, <2>1, <3>1 DEF Open
  <2>3. CASE ~(AtRank <= 3 * StepCount)
    BY <1>4, <2>1, <2>3, ReportedStepsAssumption
  <2>4. QED
    BY <2>2, <2>3
<1>6. Fits(rec)
  BY <1>2, <1>5 DEF Fits, BeginsHere, OfStep
<1>7. GoesOn /\ GoesOnAfter(rec) /\ PassesFirst(rec)
  BY <1>2, <1>4 DEF GoesOn, GoesOnAfter, PassesFirst
<1>8. ShownTypeOK'
  BY <1>3, <1>4, <1>6, RecordTypes DEF ShownTypeOK, AtOK
<1>9. ListInv' /\ OpenInv' /\ AgreeInv' /\ FirstInv'
  BY <1>3, <1>4, <1>6, <1>7, RecordList, RecordOpen, RecordAgree, RecordFirst
<1>10. TilesInv' /\ BehindInv' /\ LegacyInv' /\ ClosedInv'
  BY <1>1, <1>4 DEF TilesInv, BehindInv, LegacyInv, ClosedInv
<1>11. Kept
  BY <1>3, <1>4, <1>6, RecordSticks
<1>12. QED
  BY <1>8, <1>9, <1>10, <1>11 DEF ShownInv

\* What Close makes of an entry.
AtClose(v, r, logged) == Finished(Rowed(v, cur, logged), r, TRUE)

\* Close ends a step, gives it a result if it has none, and keeps the one it has.
LEMMA AtCloseEffect ==
    ASSUME NEW v \in ShownEntry, NEW r \in StepResults \ {"none"}, NEW logged \in BOOLEAN, Len(jobLog) \in Nat
    PROVE  /\ AtClose(v, r, logged) \in ShownEntry
           /\ AtClose(v, r, logged).stage = v.stage /\ AtClose(v, r, logged).n = v.n
           /\ KeyOf(AtClose(v, r, logged)) = KeyOf(v) /\ RankOf(AtClose(v, r, logged)) = RankOf(v)
           /\ v.res # "none" => AtClose(v, r, logged).res = v.res
           /\ AtClose(v, r, logged).st = "new" =>
                v.st = "new" /\ (v.res = "none" => AtClose(v, r, logged).res \in {"skipped", "cancelled"})
           /\ AtClose(v, r, logged).res # "none" /\ AtClose(v, r, logged).st # "running"
           /\ Became(v, AtClose(v, r, logged), cur, logged)
<1> DEFINE u == Rowed(v, cur, logged)
           w == Finished(u, r, TRUE)
<1>1. /\ u \in ShownEntry /\ u.stage = v.stage /\ u.n = v.n /\ u.res = v.res /\ u.st = v.st
      /\ ~(logged /\ KeyOf(v) = cur) => u.idx = v.idx /\ u.len = v.len
      /\ logged /\ KeyOf(v) = cur => u.len = v.len + 1 /\ u.idx = IF v.len = 0 THEN Len(jobLog) ELSE v.idx
  BY RowedEffect
<1> HIDE DEF u
<1>2. /\ w \in ShownEntry /\ w.stage = u.stage /\ w.n = u.n /\ w.idx = u.idx /\ w.len = u.len
      /\ u.res # "none" => w.res = u.res
      /\ w.st = "new" => u.st = "new" /\ (u.res = "none" => w.res \in {"skipped", "cancelled"})
      /\ w.res # "none" /\ w.st # "running"
  BY <1>1, FinishedEffect
<1>3. AtClose(v, r, logged) = w
  BY DEF AtClose, u
<1> HIDE DEF w
<1>4. KeyOf(w) = KeyOf(v) /\ RankOf(w) = RankOf(v)
  BY <1>1, <1>2 DEF KeyOf, RankOf
<1>5. Became(v, w, cur, logged)
  BY <1>1, <1>2 DEF Became
<1>6. QED
  BY <1>1, <1>2, <1>3, <1>4, <1>5

\* The list after Close.
LEMMA CloseEffect ==
    ASSUME ShownTypeOK, ListInv, NEW words \in BOOLEAN, Close(words)
    PROVE  \E r \in {"success", "failure", "cancelled"}, logged \in BOOLEAN :
               /\ stateResult' = r
               /\ shown' = [i \in DOMAIN shown |-> AtClose(shown[i], r, logged)]
               /\ jobLog' = IF logged THEN Append(jobLog, <<"none", 0>>) ELSE jobLog
<1> DEFINE r == IF stateResult # "none" THEN stateResult ELSE IF ended = "cancelled" THEN "cancelled" ELSE "failure"
           logged == stateResult = "none" \/ words
           l == IF logged THEN appendLogRow(shown, cur) ELSE shown
<1>1. r \in {"success", "failure", "cancelled"} /\ stateResult' = r
  BY DEF ShownTypeOK, Close
<1>2. logged \in BOOLEAN
  OBVIOUS
<1>3. /\ shown' = finishReportedSteps(l, r, TRUE)
      /\ jobLog' = IF logged THEN Append(jobLog, <<"none", 0>>) ELSE jobLog
  BY DEF Close
<1> HIDE DEF r, logged
<1>4. l = [i \in DOMAIN shown |-> Rowed(shown[i], cur, logged)]
  <2>1. CASE logged
    BY <2>1 DEF appendLogRow, Rowed
  <2>2. CASE ~logged
    <3>1. shown = [i \in DOMAIN shown |-> shown[i]]
      BY DEF ShownTypeOK
    <3>2. QED
      BY <2>2, <3>1 DEF Rowed
  <2>3. QED
    BY <2>1, <2>2
<1>5. shown' = [i \in DOMAIN l |-> Finished(l[i], r, TRUE)]
  BY <1>3 DEF finishReportedSteps, Finished
<1> HIDE DEF l
<1>6. shown' = [i \in DOMAIN shown |-> AtClose(shown[i], r, logged)]
  BY <1>4, <1>5 DEF AtClose
<1>7. QED
  BY <1>1, <1>2, <1>3, <1>6

\* Close.
LEMMA Closes ==
    ASSUME ShownInv, NEW words \in BOOLEAN, Close(words)
    PROVE  ShownInv' /\ Kept
<1>1. /\ ShownTypeOK /\ ListInv /\ AgreeInv /\ TilesInv /\ BehindInv /\ LegacyInv /\ AtOK /\ Len(jobLog) \in Nat
      /\ \A i \in DOMAIN shown : shown[i] \in ShownEntry
  BY EntryFacts DEF ShownInv, ShownTypeOK
<1>2. PICK r \in {"success", "failure", "cancelled"}, logged \in BOOLEAN :
        /\ stateResult' = r
        /\ shown' = [i \in DOMAIN shown |-> AtClose(shown[i], r, logged)]
        /\ jobLog' = IF logged THEN Append(jobLog, <<"none", 0>>) ELSE jobLog
  BY <1>1, CloseEffect
<1>3. /\ at.part = "over" /\ at' = [at EXCEPT !.part = "closed"] /\ UNCHANGED <<cur, ended, lateRow>>
      /\ steps' = [n \in Steps |-> [steps[n] EXCEPT !.res = IF @ = "none" /\ stateResult = "none" THEN "cancelled" ELSE @]]
  BY DEF Close
<1>4. at'.part = "closed" /\ at'.n = at.n /\ at'.ph = at.ph /\ at.n = 0 /\ AtOK'
  BY <1>1, <1>3 DEF AtOK, JobParts, StepStages
<1>5. AtRank = 3 * StepCount + 1 /\ AtRank' = 3 * StepCount + 1 /\ CurRank' = CurRank /\ CurRank \in Int
  BY <1>1, <1>3, <1>4, Ranks DEF AtRank, Rank, CurRank, ShownTypeOK
<1>6. r \in StepResults \ {"none"}
  BY DEF StepResults
<1>7. /\ DOMAIN shown' = DOMAIN shown
      /\ \A i \in DOMAIN shown : shown'[i] = AtClose(shown[i], r, logged)
  BY <1>2
<1>8. \A i \in DOMAIN shown :
        /\ shown'[i] \in ShownEntry
        /\ shown'[i].stage = shown[i].stage /\ shown'[i].n = shown[i].n
        /\ KeyOf(shown'[i]) = KeyOf(shown[i]) /\ RankOf(shown'[i]) = RankOf(shown[i])
        /\ shown[i].res # "none" => shown'[i].res = shown[i].res
        /\ shown'[i].st = "new" =>
             shown[i].st = "new" /\ (shown[i].res = "none" => shown'[i].res \in {"skipped", "cancelled"})
        /\ shown'[i].res # "none" /\ shown'[i].st # "running"
        /\ Became(shown[i], shown'[i], cur, logged)
  BY <1>1, <1>6, <1>7, AtCloseEffect
<1>9. \A n \in Steps : /\ steps'[n] \in ShownEntry /\ steps'[n].st = steps[n].st
                       /\ steps'[n].idx = steps[n].idx /\ steps'[n].len = steps[n].len
                       /\ steps[n].res # "none" => steps'[n].res = steps[n].res
  <2> SUFFICES ASSUME NEW n \in Steps
               PROVE  /\ steps'[n] \in ShownEntry /\ steps'[n].st = steps[n].st
                      /\ steps'[n].idx = steps[n].idx /\ steps'[n].len = steps[n].len
                      /\ steps[n].res # "none" => steps'[n].res = steps[n].res
    OBVIOUS
  <2>1. steps[n] \in ShownEntry
    BY <1>1 DEF ShownTypeOK
  <2>2. steps'[n] = [steps[n] EXCEPT !.res = IF steps[n].res = "none" /\ stateResult = "none" THEN "cancelled" ELSE steps[n].res]
    BY <1>3, <2>1 DEF ShownEntry
  <2>3. QED
    BY <2>1, <2>2 DEF ShownEntry, StepResults
<1>10. ShownTypeOK'
  <2>1. shown' \in Seq(ShownEntry)
    <3>1. DOMAIN shown = 1 .. Len(shown) /\ Len(shown) \in Nat
      BY <1>1, EntryFacts
    <3>2. shown' \in [1 .. Len(shown) -> ShownEntry]
      BY <1>2, <1>7, <1>8, <3>1
    <3>3. QED
      BY <3>1, <3>2, SeqDef
  <2>2. steps' \in [Steps -> ShownEntry]
    BY <1>3, <1>9
  <2>3. jobLog' \in Seq((StepStages \cup {"none", "complete"}) \X (0 .. StepCount))
    <3>1. <<"none", 0>> \in (StepStages \cup {"none", "complete"}) \X (0 .. StepCount)
      BY ReportedStepsAssumption
    <3>2. QED
      BY <1>1, <1>2, <3>1 DEF ShownTypeOK
  <2>4. QED
    BY <1>1, <1>2, <1>3, <1>4, <2>1, <2>2, <2>3 DEF ShownTypeOK
<1>11. \A k : Has(shown, k) <=> Has(shown', k)
  BY <1>7, <1>8 DEF Has
<1>12. ListInv'
  <2>1. Sorted(shown')
    BY <1>1, <1>7, <1>8 DEF ListInv, Sorted
  <2>2. \A i \in DOMAIN shown' : shown'[i].stage \in StepStages <=> shown'[i].n # 0
    BY <1>1, <1>7, <1>8 DEF ListInv
  <2>3. \A i \in DOMAIN shown' : shown'[i].stage \in {"pre", "post"} => RankOf(shown'[i]) <= AtRank'
    BY <1>1, <1>5, <1>7, <1>8 DEF ListInv
  <2>4. CurRank' <= AtRank'
    BY <1>1, <1>5 DEF ListInv
  <2>5. QED
    BY <1>1, <1>3, <1>11, <2>1, <2>2, <2>3, <2>4 DEF ListInv
<1>13. OpenInv' /\ ClosedInv' /\ FirstInv'
  BY <1>4, <1>5, <1>7, <1>8, ReportedStepsAssumption DEF OpenInv, ClosedInv, FirstInv
<1>14. AgreeInv'
  <2>1. ASSUME NEW i \in DOMAIN shown, shown'[i].st = "new" PROVE shown'[i].res \in {"none", "skipped", "cancelled"}
    BY <1>1, <1>8, <2>1 DEF AgreeInv
  <2>2. ASSUME NEW i \in DOMAIN shown, shown'[i].stage = "main", steps'[shown'[i].n].st = "stopped"
        PROVE  shown'[i].res = steps'[shown'[i].n].res /\ shown'[i].res # "none"
    <3>1. shown[i].stage = "main" /\ shown'[i].n = shown[i].n
      BY <1>8, <2>2
    <3>2. shown[i].n \in Steps
      BY <1>1, <3>1 DEF ListInv, ShownEntry, StepStages, Steps
    <3>3. shown[i].res = steps[shown[i].n].res /\ shown[i].res # "none"
      BY <1>1, <1>9, <2>2, <3>1, <3>2 DEF AgreeInv
    <3>4. QED
      BY <1>8, <1>9, <3>1, <3>2, <3>3
  <2>3. QED
    BY <1>7, <2>1, <2>2 DEF AgreeInv
<1>15. TilesInv'
  <2>1. CASE lateRow
    BY <1>3, <2>1 DEF TilesInv
  <2>2. CASE ~lateRow
    <3>1. \E i \in DOMAIN shown' : KeyOf(shown'[i]) = cur
      BY <1>1, <1>11 DEF ListInv, Has
    <3>2. ~Has(shown', <<"none", 0>>)
      <4> SUFFICES ASSUME NEW i \in DOMAIN shown, KeyOf(shown[i]) = <<"none", 0>> PROVE FALSE
        BY <1>11 DEF Has
      <4>1. shown[i].stage = "none" /\ shown[i].stage \in StepStages \cup {"setup", "cleanup"}
        BY <1>1 DEF KeyOf, ShownEntry
      <4>2. QED
        BY <4>1 DEF StepStages
    <3>3. Rank(cur[1], cur[2]) \in Int /\ Rank(cur[1], cur[2]) >= CurRank
      BY <1>5 DEF CurRank
    <3>4. \A i \in DOMAIN shown' :
            \E v \in ShownEntry :
                /\ Became(v, shown'[i], cur, logged)
                /\ \/ \E j \in DOMAIN shown : v = shown[j]
                   \/ v.len = 0 /\ KeyOf(v) = cur /\ \A k \in DOMAIN jobLog : jobLog[k] # cur
      BY <1>1, <1>7, <1>8
    <3>5. \A j \in DOMAIN shown : \E i \in DOMAIN shown' : Became(shown[j], shown'[i], cur, logged)
      BY <1>7, <1>8
    <3>6. shown' \in Seq(ShownEntry) /\ cur' = cur /\ jobLog' = IF logged THEN Append(jobLog, <<"none", 0>>) ELSE jobLog
      BY <1>2, <1>3, <1>10 DEF ShownTypeOK
    <3>7. QED
      BY <1>1, <2>2, <3>1, <3>2, <3>3, <3>4, <3>5, <3>6, TileStep
  <2>3. QED
    BY <2>1, <2>2
<1>16. /\ \A k \in DOMAIN jobLog : k \in DOMAIN jobLog' /\ jobLog'[k] = jobLog[k]
       /\ \A k \in DOMAIN jobLog' : k \in DOMAIN jobLog \/ jobLog'[k] = <<"none", 0>>
  BY <1>1, <1>2 DEF ShownTypeOK
<1>17. BehindInv'
  <2> SUFFICES ASSUME ~lateRow, NEW k \in DOMAIN jobLog', jobLog'[k][1] \in StepStages
               PROVE  /\ jobLog'[k][2] \in Steps
                      /\ \/ Rank(jobLog'[k][1], jobLog'[k][2]) < AtRank'
                         \/ Rank(jobLog'[k][1], jobLog'[k][2]) = AtRank' /\ at'.ph # "enter"
    BY <1>3 DEF BehindInv
  <2>1. k \in DOMAIN jobLog
    BY <1>16 DEF StepStages
  <2>2. QED
    BY <1>1, <1>4, <1>5, <1>16, <2>1 DEF BehindInv
<1>18. LegacyInv'
  <2> SUFFICES ASSUME ~lateRow
               PROVE  /\ \A n \in Steps : ~(Rank("main", n) >= AtRank')
                      /\ \A n \in Steps : \A k \in RowsOf(steps'[n]) : k \in DOMAIN jobLog' /\ jobLog'[k] = <<"main", n>>
    <3>1. \A n \in Steps : Rank("main", n) \in Int
      BY Ranks DEF Steps
    <3>2. QED
      BY <1>3, <1>4, <1>5, <3>1, ReportedStepsAssumption DEF LegacyInv
  <2>1. \A n \in Steps : ~(Rank("main", n) >= AtRank')
    BY <1>5, ReportedStepsAssumption DEF Rank, Steps
  <2>2. ASSUME NEW n \in Steps, NEW k \in RowsOf(steps'[n]) PROVE k \in DOMAIN jobLog' /\ jobLog'[k] = <<"main", n>>
    <3>1. k \in RowsOf(steps[n])
      BY <1>9 DEF RowsOf
    <3>2. k \in DOMAIN jobLog /\ jobLog[k] = <<"main", n>>
      BY <1>1, <3>1 DEF LegacyInv
    <3>3. QED
      BY <1>16, <3>2
  <2>3. QED
    BY <2>1, <2>2
<1>19. Kept
  BY <1>7, <1>8 DEF Kept
<1>20. QED
  BY <1>10, <1>12, <1>13, <1>14, <1>15, <1>17, <1>18, <1>19 DEF ShownInv

\* Nothing the invariant is about changes.
LEMMA Frame ==
    ASSUME ShownInv, UNCHANGED <<reporterVars, at, lateRow>>, ended' \in {"no", "failed", "cancelled"}
    PROVE  ShownInv' /\ Kept
<1>1. UNCHANGED <<shown, cur, steps, jobLog, stateResult, at, lateRow>>
  BY DEF reporterVars
<1>2. AtOK' /\ AtRank' = AtRank /\ CurRank' = CurRank /\ ShownTypeOK'
  BY <1>1 DEF ShownInv, ShownTypeOK, AtOK, AtRank, CurRank
<1>3. ListInv' /\ OpenInv' /\ AgreeInv' /\ ClosedInv'
  BY <1>1, <1>2 DEF ShownInv, ListInv, OpenInv, Open, AgreeInv, ClosedInv
<1>4. TilesInv' /\ BehindInv' /\ FirstInv' /\ LegacyInv'
  BY <1>1, <1>2 DEF ShownInv, TilesInv, BehindInv, FirstInv, LegacyInv
<1>5. Kept
  BY <1>1 DEF Kept
<1>6. QED
  BY <1>2, <1>3, <1>4, <1>5 DEF ShownInv

\* The steps the job starts with.
LEMMA ShownInitInv == ShownInit => ShownInv
<1> SUFFICES ASSUME ShownInit PROVE ShownInv
  OBVIOUS
<1> DEFINE first == [Entry("setup", 0) EXCEPT !.st = "running"]
           mains == [n \in Steps |-> Entry("main", n)]
           last == Entry("cleanup", 0)
<1>1. /\ steps = mains /\ shown = <<first>> \o mains \o <<last>> /\ cur = Setup /\ jobLog = << >>
      /\ stateResult = "none" /\ at = [part |-> "setup", n |-> 0, ph |-> "enter"] /\ ended = "no" /\ lateRow = FALSE
  BY DEF ShownInit, ResetSteps
<1>2. /\ first \in ShownEntry /\ first.stage = "setup" /\ first.n = 0 /\ first.res = "none" /\ first.st = "running"
      /\ first.len = 0
      /\ last \in ShownEntry /\ last.stage = "cleanup" /\ last.n = 0 /\ last.res = "none" /\ last.st = "new" /\ last.len = 0
  BY ReportedStepsAssumption DEF Entry, ShownEntry, StepResults
<1>3. \A n \in Steps :
        /\ mains[n] \in ShownEntry /\ mains[n].stage = "main" /\ mains[n].n = n /\ mains[n].res = "none"
        /\ mains[n].st = "new" /\ mains[n].len = 0
  BY ReportedStepsAssumption DEF Entry, ShownEntry, StepResults, Steps, StepStages
<1>4. mains \in [Steps -> ShownEntry]
  BY <1>3
<1> HIDE DEF first, mains, last
<1>5. StepCount \in Nat \ {0} /\ Steps = 1 .. StepCount
  BY ReportedStepsAssumption DEF Steps
<1>6. mains \in Seq(ShownEntry) /\ Len(mains) = StepCount
  BY <1>4, <1>5, SeqDef
<1>7. /\ shown \in Seq(ShownEntry) /\ DOMAIN shown = 1 .. StepCount + 2 /\ shown[1] = first
      /\ \A n \in Steps : shown[n + 1] = mains[n]
      /\ shown[StepCount + 2] = last
  <2>1. <<first>> \in Seq(ShownEntry) /\ Len(<<first>>) = 1 /\ <<last>> \in Seq(ShownEntry) /\ Len(<<last>>) = 1
    BY <1>2
  <2>2. /\ <<first>> \o mains \in Seq(ShownEntry) /\ Len(<<first>> \o mains) = StepCount + 1
        /\ (<<first>> \o mains)[1] = first
        /\ \A n \in Steps : (<<first>> \o mains)[n + 1] = mains[n]
    BY <1>5, <1>6, <2>1
  <2>3. QED
    BY <1>1, <1>5, <2>1, <2>2
<1>8. \A i \in DOMAIN shown : i = 1 \/ i = StepCount + 2 \/ (i - 1 \in Steps /\ shown[i] = mains[i - 1])
  <2> SUFFICES ASSUME NEW i \in 1 .. StepCount + 2, i # 1, i # StepCount + 2
               PROVE  i - 1 \in Steps /\ shown[i] = mains[i - 1]
    BY <1>7
  <2>1. i - 1 \in Steps /\ (i - 1) + 1 = i
    BY <1>5
  <2>2. QED
    BY <1>7, <2>1
<1>9. /\ RankOf(shown[1]) = 0 /\ RankOf(shown[StepCount + 2]) = 3 * StepCount + 1
      /\ \A i \in DOMAIN shown : i # 1 /\ i # StepCount + 2 => RankOf(shown[i]) = StepCount + i - 1
  <2>1. RankOf(shown[1]) = 0 /\ RankOf(shown[StepCount + 2]) = 3 * StepCount + 1
    BY <1>2, <1>7 DEF RankOf, Rank
  <2>2. ASSUME NEW i \in DOMAIN shown, i # 1, i # StepCount + 2 PROVE RankOf(shown[i]) = StepCount + i - 1
    <3>1. shown[i].stage = "main" /\ shown[i].n = i - 1
      BY <1>3, <1>8, <2>2
    <3>2. i \in Int
      BY <1>7
    <3>3. QED
      BY <1>5, <3>1, <3>2 DEF RankOf, Rank
  <2>3. QED
    BY <2>1, <2>2
<1>10. \A i \in DOMAIN shown :
         /\ shown[i].res = "none" /\ shown[i].len = 0
         /\ shown[i].stage \notin {"pre", "post"}
         /\ shown[i].stage \in StepStages <=> shown[i].n # 0
  <2> SUFFICES ASSUME NEW i \in DOMAIN shown
               PROVE  /\ shown[i].res = "none" /\ shown[i].len = 0
                      /\ shown[i].stage \notin {"pre", "post"}
                      /\ shown[i].stage \in StepStages <=> shown[i].n # 0
    OBVIOUS
  <2>1. \/ shown[i] = first \/ shown[i] = last
        \/ i - 1 \in Steps /\ shown[i] = mains[i - 1]
    BY <1>7, <1>8
  <2>2. QED
    BY <1>2, <1>3, <1>5, <2>1 DEF StepStages
<1>11. at.part = "setup" /\ at.n = 0 /\ at.ph = "enter" /\ AtRank = 0 /\ CurRank = 0
  BY <1>1 DEF AtRank, CurRank, Rank, Setup
<1>12. AtOK
  BY <1>1, <1>5 DEF AtOK, JobParts, StepStages
<1>13. ShownTypeOK
  <2>1. Setup \in (StepStages \cup {"setup", "cleanup"}) \X (0 .. StepCount)
    BY <1>5 DEF Setup
  <2>2. jobLog \in Seq((StepStages \cup {"none", "complete"}) \X (0 .. StepCount))
    BY <1>1
  <2>3. shown \in Seq(ShownEntry) /\ steps \in [Steps -> ShownEntry] /\ lateRow \in BOOLEAN
    BY <1>1, <1>4, <1>7
  <2>4. QED
    BY <1>1, <1>12, <2>1, <2>2, <2>3 DEF ShownTypeOK
<1>14. ListInv
  <2>1. Sorted(shown)
    <3> SUFFICES ASSUME NEW i \in DOMAIN shown, NEW j \in DOMAIN shown, i < j
                 PROVE  RankOf(shown[i]) < RankOf(shown[j])
      BY DEF Sorted
    <3>1. i \in 1 .. StepCount + 2 /\ j \in 1 .. StepCount + 2
      BY <1>7
    <3>2. i # StepCount + 2 /\ j # 1
      BY <1>5, <3>1
    <3>3. RankOf(shown[i]) = IF i = 1 THEN 0 ELSE StepCount + i - 1
      BY <1>9, <3>2
    <3>4. RankOf(shown[j]) = IF j = StepCount + 2 THEN 3 * StepCount + 1 ELSE StepCount + j - 1
      BY <1>9, <3>2
    <3> HIDE DEF RankOf
    <3>5. QED
      BY <1>5, <3>1, <3>2, <3>3, <3>4
  <2>2. Has(shown, Setup) /\ Has(shown, Cleanup)
    BY <1>2, <1>5, <1>7 DEF Has, Setup, Cleanup, KeyOf
  <2>3. \A n \in Steps : Has(shown, <<"main", n>>)
    <3> SUFFICES ASSUME NEW n \in Steps PROVE Has(shown, <<"main", n>>)
      OBVIOUS
    <3>1. n + 1 \in DOMAIN shown /\ KeyOf(shown[n + 1]) = <<"main", n>>
      BY <1>3, <1>5, <1>7 DEF KeyOf
    <3>2. QED
      BY <3>1 DEF Has
  <2>4. QED
    BY <1>1, <1>10, <1>11, <2>1, <2>2, <2>3 DEF ListInv
<1>15. OpenInv /\ AgreeInv /\ ClosedInv /\ FirstInv
  <2>1. \A i \in DOMAIN shown : ~(shown[i].stage = "main" /\ steps[shown[i].n].st = "stopped")
    <3> SUFFICES ASSUME NEW i \in DOMAIN shown, shown[i].stage = "main" PROVE steps[shown[i].n].st = "new"
      OBVIOUS
    <3>1. i - 1 \in Steps /\ shown[i] = mains[i - 1]
      BY <1>2, <1>7, <1>8
    <3>2. QED
      BY <1>1, <1>3, <3>1
  <2>2. QED
    BY <1>1, <1>3, <1>10, <1>11, <2>1 DEF OpenInv, AgreeInv, ClosedInv, FirstInv
<1>16. TilesInv /\ BehindInv /\ LegacyInv
  <2>1. DOMAIN jobLog = {} /\ \A n \in Steps : RowsOf(steps[n]) = {}
    <3>1. DOMAIN jobLog = {}
      BY <1>1
    <3>2. ASSUME NEW n \in Steps PROVE RowsOf(steps[n]) = {}
      <4>1. steps[n].idx \in Nat /\ steps[n].len = 0
        BY <1>1, <1>3 DEF ShownEntry
      <4>2. QED
        BY <4>1 DEF RowsOf
    <3>3. QED
      BY <3>1, <3>2
  <2>2. TilesInv
    BY <1>10, <2>1 DEF TilesInv
  <2>3. BehindInv
    BY <2>1 DEF BehindInv
  <2>4. LegacyInv
    BY <1>1, <1>3, <1>11, <2>1 DEF LegacyInv
  <2>5. QED
    BY <2>2, <2>3, <2>4
<1>17. QED
  BY <1>13, <1>14, <1>15, <1>16 DEF ShownInv

\* The fields of a record of the step the job is at.
LEMMA StepIsTyped ==
    ASSUME AtOK, at.part \in StepStages
    PROVE  /\ Step \in RecordType /\ Step.stage = at.part /\ Step.n = at.n
           /\ Step.started = FALSE /\ Step.res = "none" /\ Step.error = FALSE /\ Step.raw = FALSE /\ Step.nested = FALSE
           /\ Step.job = "none"
<1>1. at.part \in StepStages \cup {"none", "complete"} /\ at.n \in 0 .. StepCount
  BY DEF AtOK
<1>2. Step \in RecordType
  BY <1>1, RecordIsTyped DEF Step, RecordType
<1>3. Step.stage = at.part /\ Step.n = at.n /\ Step.res = "none" /\ Step.job = "none"
  BY RecordIsTyped DEF Step, RecordType
<1>4. Step.started = FALSE /\ Step.error = FALSE /\ Step.raw = FALSE /\ Step.nested = FALSE
  BY RecordIsTyped DEF Step, RecordType
<1>5. QED
  BY <1>2, <1>3, <1>4

\* A phase in which a step runs is one of a step.
LEMMA PhaseIsOfStep ==
    ASSUME ShownInv, at.ph \in {"body", "output", "nested", "continued", "failing"} \/ at.part \in {"pre", "main", "post"}
    PROVE  AtOK /\ at.part \in StepStages
BY DEF ShownInv, ShownTypeOK, AtOK, StepStages

\* The actions in which the job emits a record of its own.
LEMMA JobActions ==
    ASSUME ShownInv, JobRow \/ SetupFails \/ SetupDone \/ OutputsFail \/ setJobResult
    PROVE  ShownInv' /\ Kept
<1>1. /\ AtOK /\ ended \in {"no", "failed", "cancelled"} /\ StepCount \in Nat \ {0}
      /\ at = [part |-> at.part, n |-> at.n, ph |-> at.ph]
  BY ReportedStepsAssumption DEF ShownInv, ShownTypeOK, AtOK
<1>2. ASSUME NEW part \in {"pre", "main", "post", "closing"}, NEW n \in 0 .. StepCount, n = 0 <=> part = "closing",
             at' = Where(part, n), at.part \in {"setup", "complete"}, at.part = "complete" => part = "closing"
      PROVE  /\ AtOK' /\ at'.part = part /\ at'.n = n /\ at'.ph = "enter" /\ AtRank' >= AtRank
             /\ at.part \notin StepStages
  <2>1. AtOK' /\ at'.part = part /\ at'.n = n /\ at'.ph = "enter" /\ AtRank' = Rank(part, n)
    BY <1>2 DEF Where, AtOK, AtRank, JobParts, StepStages
  <2>2. AtRank = IF at.part = "setup" THEN 0 ELSE 3 * StepCount + 1
    BY <1>2 DEF AtRank, Rank
  <2>3. Rank(part, n) >= 0 /\ (part = "closing" => Rank(part, n) = 3 * StepCount + 1)
    BY <1>1, <1>2 DEF Rank
  <2>4. QED
    BY <1>1, <1>2, <2>1, <2>2, <2>3 DEF StepStages
<1>3. ASSUME NEW p \in {"logged", "failed"}, at' = [at EXCEPT !.ph = p], at.part \in {"setup", "complete", "closing"}
      PROVE  AtOK' /\ at'.part = at.part /\ AtRank' >= AtRank /\ at.part \notin StepStages
  <2>1. at'.part = at.part /\ at'.n = at.n /\ at'.ph = p
    BY <1>1, <1>3 DEF AtOK
  <2>2. AtOK'
    BY <1>1, <1>3, <2>1 DEF AtOK
  <2>3. AtRank' = AtRank /\ AtRank \in Int
    BY <1>1, <2>1, Ranks DEF AtRank, AtOK
  <2>4. QED
    BY <1>3, <2>1, <2>2, <2>3 DEF StepStages
<1>4. CASE JobRow
  <2> DEFINE stage == IF at.part = "complete" THEN "complete" ELSE "none"
             rec == [Record EXCEPT !.stage = stage]
  <2>1. rec \in RecordType
    <3>1. stage \in StepStages \cup {"none", "complete"}
      OBVIOUS
    <3>2. QED
      BY <3>1, RecordIsTyped DEF RecordType
  <2>2. rec.stage = stage /\ rec.res = "none" /\ rec.job = "none"
    BY RecordIsTyped DEF RecordType
  <2>3. rec.started = FALSE
    BY RecordIsTyped DEF RecordType
  <2>4. /\ HandleRecord(rec) /\ UNCHANGED <<lateRow, ended>> /\ at' = [at EXCEPT !.ph = "logged"]
        /\ at.part \in {"setup", "complete", "closing"}
    BY <1>4 DEF JobRow, Emit
  <2> HIDE DEF rec
  <2>5. AtOK' /\ at'.part = at.part /\ AtRank' >= AtRank /\ at.part \notin StepStages
    BY <1>3, <2>4
  <2>6. QED
    BY <1>1, <2>1, <2>2, <2>3, <2>4, <2>5, JobEmission
<1>5. CASE SetupFails
  <2> DEFINE rec == [Record EXCEPT !.error = TRUE]
  <2>1. rec \in RecordType
    BY RecordIsTyped DEF RecordType
  <2>2. rec.stage = "none" /\ rec.res = "none" /\ rec.job = "none"
    BY RecordIsTyped DEF RecordType
  <2>3. rec.started = FALSE
    BY RecordIsTyped DEF RecordType
  <2>4. /\ HandleRecord(rec) /\ UNCHANGED lateRow /\ at.part = "setup"
        /\ at' = Where("main", 1) \/ at' = Where("post", StepCount)
    BY <1>5 DEF SetupFails, EmitFault
  <2>5. ended' \in {"no", "failed", "cancelled"}
    BY <1>1, <1>5 DEF SetupFails, Fails
  <2> HIDE DEF rec
  <2>6. /\ AtOK' /\ at'.part # "closed" /\ AtRank' >= AtRank /\ at.part \notin StepStages
        /\ at'.part = "main" => at'.n = 1 /\ at'.ph = "enter"
    BY <1>1, <1>2, <2>4
  <2>7. QED
    BY <1>1, <2>1, <2>2, <2>3, <2>4, <2>5, <2>6, JobEmission
<1>6. CASE SetupDone
  <2>1. HandleRecord(Record) /\ UNCHANGED <<lateRow, ended>> /\ at.part = "setup" /\ at' = Where("pre", 1)
    BY <1>6 DEF SetupDone, Emit
  <2>2. AtOK' /\ at'.part = "pre" /\ AtRank' >= AtRank /\ at.part \notin StepStages
    BY <1>1, <1>2, <2>1
  <2>3. QED
    BY <1>1, <2>1, <2>2, RecordIsTyped, JobEmission
<1>7. CASE OutputsFail
  <2> DEFINE rec == [Record EXCEPT !.stage = "complete", !.error = TRUE]
  <2>1. rec \in RecordType
    BY RecordIsTyped DEF RecordType
  <2>2. rec.stage = "complete" /\ rec.res = "none" /\ rec.job = "none"
    BY RecordIsTyped DEF RecordType
  <2>3. rec.started = FALSE
    BY RecordIsTyped DEF RecordType
  <2>4. HandleRecord(rec) /\ UNCHANGED lateRow /\ at.part = "complete" /\ at' = [at EXCEPT !.ph = "failed"]
    BY <1>7 DEF OutputsFail, EmitFault
  <2>5. ended' \in {"no", "failed", "cancelled"}
    BY <1>1, <1>7 DEF OutputsFail, Fails
  <2> HIDE DEF rec
  <2>6. AtOK' /\ at'.part = at.part /\ AtRank' >= AtRank /\ at.part \notin StepStages
    BY <1>3, <2>4
  <2>7. QED
    BY <1>1, <2>1, <2>2, <2>3, <2>4, <2>5, <2>6, JobEmission
<1>8. CASE setJobResult
  <2> DEFINE rec == [Record EXCEPT !.stage = "complete", !.job = JobResult]
  <2>1. rec \in RecordType
    <3>1. JobResult \in {"none", "success", "failure", "cancelled"}
      BY DEF JobResult
    <3>2. QED
      BY <3>1, RecordIsTyped DEF RecordType
  <2>2. rec.stage = "complete" /\ rec.res = "none"
    BY RecordIsTyped DEF RecordType
  <2>3. rec.started = FALSE
    BY RecordIsTyped DEF RecordType
  <2>4. HandleRecord(rec) /\ UNCHANGED <<lateRow, ended>> /\ at.part = "complete" /\ at' = Where("closing", 0)
    BY <1>8 DEF setJobResult, Emit
  <2> HIDE DEF rec
  <2>5. AtOK' /\ at'.part = "closing" /\ AtRank' >= AtRank /\ at.part \notin StepStages
    BY <1>1, <1>2, <2>4
  <2>6. QED
    BY <1>1, <2>1, <2>2, <2>3, <2>4, <2>5, JobEmission
<1>9. QED
  BY <1>4, <1>5, <1>6, <1>7, <1>8

\* The actions in which the step the job is at emits a record.
LEMMA StepActions ==
    ASSUME ShownInv,
           \/ StepSkipped \/ StepUnevaluated \/ StepStarts \/ StepRow \/ NestedResult \/ ContinueOnError \/ StepError
           \/ \E res \in {"success", "failure"} : StepEnds(res)
    PROVE  ShownInv' /\ Kept
<1>1. AtOK /\ at.part \in StepStages
  <2>1. at.ph \in {"body", "output", "nested", "continued", "failing"} \/ at.part \in {"pre", "main", "post"}
    BY DEF StepSkipped, StepUnevaluated, StepStarts, StepRow, NestedResult, ContinueOnError, StepError, StepEnds,
           Running, MayRun, In
  <2>2. QED
    BY <2>1, PhaseIsOfStep
<1>2. ended \in {"no", "failed", "cancelled"} /\ TRUE \in BOOLEAN /\ FALSE \in BOOLEAN
  BY DEF ShownInv, ShownTypeOK
<1>3. /\ Step \in RecordType /\ Step.stage = at.part /\ Step.n = at.n
      /\ Step.started = FALSE /\ Step.res = "none" /\ Step.error = FALSE /\ Step.raw = FALSE /\ Step.nested = FALSE
      /\ Step.job = "none"
  BY <1>1, StepIsTyped
<1>4. CASE StepSkipped
  <2> DEFINE rec == [Step EXCEPT !.res = "skipped", !.level = "debug"]
  <2>1. rec \in RecordType
    BY <1>3 DEF RecordType, StepResults
  <2>2. rec.stage = at.part /\ rec.n = at.n /\ rec.res = "skipped" /\ rec.job = "none"
    BY <1>3 DEF RecordType
  <2>3. rec.started = FALSE /\ rec.error = FALSE /\ rec.nested = FALSE
    BY <1>3 DEF RecordType
  <2>4. HandleRecord(rec) /\ UNCHANGED <<lateRow, ended>> /\ at.ph = "enter" /\ at' = After(TRUE)
    BY <1>4 DEF StepSkipped, Emit
  <2> HIDE DEF rec
  <2>5. QED
    BY <1>1, <1>2, <2>1, <2>2, <2>3, <2>4, StepEmission
<1>5. CASE StepUnevaluated
  <2> DEFINE rec == [Step EXCEPT !.res = "failure"]
  <2>1. rec \in RecordType
    BY <1>3 DEF RecordType, StepResults
  <2>2. rec.stage = at.part /\ rec.n = at.n /\ rec.res = "failure" /\ rec.job = "none"
    BY <1>3 DEF RecordType
  <2>3. rec.started = FALSE /\ rec.error = FALSE /\ rec.nested = FALSE
    BY <1>3 DEF RecordType
  <2>4. HandleRecord(rec) /\ UNCHANGED <<lateRow, ended>> /\ at.ph = "enter" /\ at' = [at EXCEPT !.ph = "failing"]
    BY <1>5 DEF StepUnevaluated, EmitFault, MayRun, In
  <2> HIDE DEF rec
  <2>5. QED
    BY <1>1, <1>2, <2>1, <2>2, <2>3, <2>4, StepEmission
<1>6. CASE StepStarts
  <2> DEFINE level == IF at.part = "main" THEN "debug" ELSE "info"
             rec == [Step EXCEPT !.started = TRUE, !.level = level]
  <2>1. rec \in RecordType
    <3>1. level \in {"info", "debug"}
      OBVIOUS
    <3>2. QED
      BY <1>3, <3>1 DEF RecordType
  <2>2. rec.stage = at.part /\ rec.n = at.n /\ rec.res = "none" /\ rec.job = "none"
    BY <1>3 DEF RecordType
  <2>3. rec.started = TRUE /\ rec.error = FALSE /\ rec.nested = FALSE
    BY <1>3 DEF RecordType
  <2>4. HandleRecord(rec) /\ UNCHANGED <<lateRow, ended>> /\ at.ph = "enter" /\ at' = [at EXCEPT !.ph = "body"]
    BY <1>6 DEF StepStarts, Emit, MayRun, In
  <2> HIDE DEF rec
  <2>5. QED
    BY <1>1, <1>2, <2>1, <2>2, <2>3, <2>4, StepEmission
<1>7. CASE StepRow
  <2> DEFINE rec == [Step EXCEPT !.raw = TRUE]
  <2>1. rec \in RecordType
    BY <1>3 DEF RecordType, StepResults
  <2>2. rec.stage = at.part /\ rec.n = at.n /\ rec.res = "none" /\ rec.job = "none"
    BY <1>3 DEF RecordType
  <2>3. rec.started = FALSE /\ rec.error = FALSE /\ rec.nested = FALSE
    BY <1>3 DEF RecordType
  <2>4. HandleRecord(rec) /\ UNCHANGED <<lateRow, ended>> /\ at.ph \in {"body", "output"} /\ at' = [at EXCEPT !.ph = "output"]
    BY <1>7 DEF StepRow, Emit, In
  <2> HIDE DEF rec
  <2>5. QED
    BY <1>1, <1>2, <2>1, <2>2, <2>3, <2>4, StepEmission
<1>8. CASE NestedResult
  <2> DEFINE rec == [Step EXCEPT !.res = "failure", !.nested = TRUE]
  <2>1. rec \in RecordType
    BY <1>3 DEF RecordType, StepResults
  <2>2. rec.stage = at.part /\ rec.n = at.n /\ rec.res = "failure" /\ rec.job = "none"
    BY <1>3 DEF RecordType
  <2>3. rec.started = FALSE /\ rec.error = FALSE /\ rec.nested = TRUE
    BY <1>3 DEF RecordType
  <2>4. HandleRecord(rec) /\ UNCHANGED <<lateRow, ended>> /\ at.ph \in {"body", "output"} /\ at' = [at EXCEPT !.ph = "nested"]
    BY <1>8 DEF NestedResult, EmitFault, Running
  <2> HIDE DEF rec
  <2>5. QED
    BY <1>1, <1>2, <2>1, <2>2, <2>3, <2>4, StepEmission
<1>9. CASE ContinueOnError
  <2> DEFINE rec == [Step EXCEPT !.error = TRUE]
  <2>1. rec \in RecordType
    BY <1>3 DEF RecordType, StepResults
  <2>2. rec.stage = at.part /\ rec.n = at.n /\ rec.res = "none" /\ rec.job = "none"
    BY <1>3 DEF RecordType
  <2>3. rec.started = FALSE /\ rec.error = TRUE /\ rec.nested = FALSE
    BY <1>3 DEF RecordType
  <2>4. HandleRecord(rec) /\ UNCHANGED <<lateRow, ended>> /\ at.ph \in {"body", "output"} /\ at' = [at EXCEPT !.ph = "continued"]
    BY <1>9 DEF ContinueOnError, EmitFault, Running
  <2> HIDE DEF rec
  <2>5. QED
    BY <1>1, <1>2, <2>1, <2>2, <2>3, <2>4, StepEmission
<1>10. CASE StepError
  <2> DEFINE rec == [Step EXCEPT !.error = TRUE]
  <2>1. rec \in RecordType
    BY <1>3 DEF RecordType
  <2>2. rec.stage = at.part /\ rec.n = at.n /\ rec.res = "none" /\ rec.job = "none"
    BY <1>3 DEF RecordType
  <2>3. rec.started = FALSE /\ rec.error = TRUE /\ rec.nested = FALSE
    BY <1>3 DEF RecordType
  <2>4. HandleRecord(rec) /\ UNCHANGED lateRow /\ at.ph = "failing" /\ at' = After(FALSE)
    BY <1>10 DEF StepError, Emit
  <2>5. ended' \in {"no", "failed", "cancelled"}
    BY <1>2, <1>10 DEF StepError, Fails
  <2> HIDE DEF rec
  <2>6. QED
    BY <1>1, <1>2, <2>1, <2>2, <2>3, <2>4, <2>5, StepEmission
<1>11. ASSUME NEW res \in {"success", "failure"}, StepEnds(res) PROVE ShownInv' /\ Kept
  <2> DEFINE rec == [Step EXCEPT !.res = res]
  <2>1. rec \in RecordType
    BY <1>3 DEF RecordType, StepResults
  <2>2. rec.stage = at.part /\ rec.n = at.n /\ rec.res = res /\ rec.job = "none"
    BY <1>3 DEF RecordType
  <2>3. rec.started = FALSE /\ rec.error = FALSE /\ rec.nested = FALSE
    BY <1>3 DEF RecordType
  <2>4. HandleRecord(rec) /\ UNCHANGED <<lateRow, ended>>
    BY <1>11 DEF StepEnds, Emit, EmitFault
  <2>5. at.ph # "failing" /\ (at' = After(TRUE) \/ at' = After(FALSE) \/ at' = [at EXCEPT !.ph = "failing"])
    BY <1>11 DEF StepEnds, Running
  <2> HIDE DEF rec
  <2>6. QED
    BY <1>1, <1>2, <2>1, <2>2, <2>3, <2>4, <2>5, StepEmission
<1>12. QED
  BY <1>4, <1>5, <1>6, <1>7, <1>8, <1>9, <1>10, <1>11

\* The actions that emit nothing.
LEMMA QuietActions ==
    ASSUME ShownInv, StepAbsent \/ JobOver \/ Breaks
    PROVE  ShownInv' /\ Kept
<1>1. AtOK /\ ended \in {"no", "failed", "cancelled"} /\ AtRank \in Int /\ StepCount \in Nat
  BY Ranks, ReportedStepsAssumption DEF ShownInv, ShownTypeOK, AtOK, AtRank
<1>2. UNCHANGED <<reporterVars, lateRow>> /\ ended' \in {"no", "failed", "cancelled"}
  BY <1>1 DEF StepAbsent, JobOver, Breaks
<1>3. CASE StepAbsent
  <2>1. at.part \in StepStages /\ at.part # "main" /\ at' = After(TRUE)
    BY <1>3 DEF StepAbsent, StepStages
  <2>2. /\ AtOK' /\ at'.part # "closed" /\ at'.ph = "enter"
        /\ AtRank' \in Int /\ AtRank' > AtRank
        /\ ~(at'.part = "main" /\ at'.n > 1)
    BY <1>1, <2>1, AfterStep
  <2>3. at'.part = "main" => at'.n = 1
    BY <2>2 DEF AtOK, StepStages
  <2>4. QED
    BY <1>2, <2>2, <2>3, Quiet DEF GoesOn, LeavesEnter
<1>4. CASE JobOver \/ Breaks
  <2>1. /\ at' = Where("over", 0)
        /\ at.part \in {"closing", "setup", "pre", "main", "post"}
    BY <1>4 DEF JobOver, Breaks
  <2>2. AtOK' /\ at'.part = "over" /\ at'.ph = "enter" /\ AtRank' = 3 * StepCount + 1
    BY <1>1, <2>1 DEF Where, AtOK, AtRank, Rank, JobParts, StepStages
  <2>3. AtRank <= 3 * StepCount + 1 /\ (at.part \in StepStages => AtRank < 3 * StepCount + 1)
    BY <1>1, <2>1 DEF AtOK, AtRank, Rank, StepStages
  <2>4. at.ph = "failing" => at.part \in StepStages
    BY <1>1 DEF AtOK
  <2>5. GoesOn /\ LeavesEnter
    BY <1>1, <2>2, <2>3, <2>4 DEF GoesOn, LeavesEnter
  <2>6. QED
    BY <1>2, <2>2, <2>5, Quiet
<1>5. QED
  BY <1>3, <1>4

\* Every step keeps the invariant, and every result.
LEMMA StepKeepsInv ==
    ASSUME ShownInv, [ShownNext]_shownVars
    PROVE  ShownInv' /\ Kept
<1>1. CASE JobRow \/ SetupFails \/ SetupDone \/ OutputsFail \/ setJobResult
  BY <1>1, JobActions
<1>2. CASE \/ StepSkipped \/ StepUnevaluated \/ StepStarts \/ StepRow \/ NestedResult \/ ContinueOnError \/ StepError
           \/ \E res \in {"success", "failure"} : StepEnds(res)
  BY <1>2, StepActions
<1>3. CASE StepAbsent \/ JobOver \/ Breaks
  BY <1>3, QuietActions
<1>4. CASE LateRow
  BY <1>4, LateEmission
<1>5. CASE Cancel \/ StaysClosed \/ UNCHANGED shownVars
  <2>1. ended \in {"no", "failed", "cancelled"}
    BY DEF ShownInv, ShownTypeOK
  <2>2. UNCHANGED <<reporterVars, at, lateRow>> /\ ended' \in {"no", "failed", "cancelled"}
    BY <1>5, <2>1 DEF Cancel, StaysClosed, shownVars, reporterVars
  <2>3. QED
    BY <2>2, Frame
<1>6. CASE \E words \in BOOLEAN : Close(words)
  BY <1>6, Closes
<1>7. QED
  BY <1>1, <1>2, <1>3, <1>4, <1>5, <1>6 DEF ShownNext

\* The invariant of the steps that are shown holds for any number of steps, in
\* whatever order the job's records come.
THEOREM ShownInvariant == ShownSpec => []ShownInv
<1>1. ShownInv /\ [ShownNext]_shownVars => ShownInv'
  BY StepKeepsInv
<1>2. QED
  BY ShownInitInv, <1>1, PTL DEF ShownSpec

\* The Reporter's lists keep their type.
THEOREM ShownTypes == ShownSpec => []ShownTypeOK
<1>1. ShownInv => ShownTypeOK
  BY DEF ShownInv
<1>2. QED
  BY ShownInvariant, <1>1, PTL

\* The rows of the log are those of the shown steps, in their order and each in
\* the step that emitted it, for any number of steps and of rows.
THEOREM RowsTheorem == ShownSpec => []RowsTile
<1>1. ASSUME ShownInv PROVE RowsTile
  <2> SUFFICES ASSUME ~lateRow
               PROVE  /\ DOMAIN jobLog = UNION {RowsOf(shown[i]) : i \in DOMAIN shown}
                      /\ \A i, j \in DOMAIN shown :
                          i < j /\ shown[i].len > 0 /\ shown[j].len > 0 => shown[i].idx + shown[i].len <= shown[j].idx
                      /\ \A r \in DOMAIN jobLog : \A i \in DOMAIN shown :
                          r \in RowsOf(shown[i]) => (jobLog[r] = KeyOf(shown[i]) \/ ~Has(shown, jobLog[r]))
                      /\ \A n \in Steps : \A r \in RowsOf(steps[n]) : r \in DOMAIN jobLog /\ jobLog[r] = <<"main", n>>
    BY DEF RowsTile
  <2>1. ShownTypeOK /\ ListInv /\ TilesInv /\ LegacyInv
    BY <1>1 DEF ShownInv
  <2>2. Len(jobLog) \in Nat /\ DOMAIN jobLog = 1 .. Len(jobLog)
    BY <2>1 DEF ShownTypeOK
  <2>3. \A i \in DOMAIN shown : shown[i].idx \in Nat /\ shown[i].len \in Nat
    BY <2>1, EntryFacts DEF ShownEntry
  <2>4. ASSUME NEW i \in DOMAIN shown, NEW r \in RowsOf(shown[i]) PROVE r \in DOMAIN jobLog
    <3>1. shown[i].len > 0 /\ r \in Nat /\ 1 <= r /\ r <= shown[i].idx + shown[i].len
      BY <2>3 DEF RowsOf
    <3>2. shown[i].idx + shown[i].len <= Len(jobLog)
      BY <2>1, <3>1 DEF TilesInv
    <3>3. QED
      BY <2>2, <2>3, <3>1, <3>2
  <2>5. \A r \in DOMAIN jobLog : \E i \in DOMAIN shown : r \in RowsOf(shown[i])
    BY <2>1 DEF TilesInv
  <2>6. DOMAIN jobLog = UNION {RowsOf(shown[i]) : i \in DOMAIN shown}
    BY <2>4, <2>5
  <2>7. ASSUME NEW i \in DOMAIN shown, NEW j \in DOMAIN shown, i < j, shown[i].len > 0, shown[j].len > 0
        PROVE  shown[i].idx + shown[i].len <= shown[j].idx
    <3>1. RankOf(shown[i]) < RankOf(shown[j])
      BY <2>1, <2>7 DEF ListInv, Sorted
    <3>2. QED
      BY <2>1, <2>7, <3>1 DEF TilesInv
  <2>8. \A r \in DOMAIN jobLog : \A i \in DOMAIN shown :
          r \in RowsOf(shown[i]) => (jobLog[r] = KeyOf(shown[i]) \/ ~Has(shown, jobLog[r]))
    BY <2>1 DEF TilesInv
  <2>9. \A n \in Steps : \A r \in RowsOf(steps[n]) : r \in DOMAIN jobLog /\ jobLog[r] = <<"main", n>>
    BY <2>1 DEF LegacyInv
  <2>10. QED
    BY <2>6, <2>7, <2>8, <2>9
<1>2. QED
  BY ShownInvariant, <1>1, PTL

\* Once the task is closed every shown step has a result and has ended, and the
\* two lists agree.
THEOREM AgreeTheorem == ShownSpec => []ResultsAgree
<1>1. ASSUME ShownInv PROVE ResultsAgree
  <2> SUFFICES ASSUME at.part = "closed"
               PROVE  /\ \A i \in DOMAIN shown : shown[i].res # "none" /\ shown[i].st # "running"
                      /\ \A i \in DOMAIN shown : shown[i].st = "new" => shown[i].res \in {"skipped", "cancelled"}
                      /\ \A n \in Steps : steps[n].st = "stopped" => shown[Position(shown, <<"main", n>>)].res = steps[n].res
    BY DEF ResultsAgree
  <2>1. ListInv /\ AgreeInv /\ ClosedInv
    BY <1>1 DEF ShownInv
  <2>2. \A i \in DOMAIN shown : shown[i].res # "none" /\ shown[i].st # "running"
    BY <2>1 DEF ClosedInv
  <2>3. \A i \in DOMAIN shown : shown[i].st = "new" => shown[i].res \in {"skipped", "cancelled"}
    BY <2>1, <2>2 DEF AgreeInv
  <2>4. ASSUME NEW n \in Steps, steps[n].st = "stopped" PROVE shown[Position(shown, <<"main", n>>)].res = steps[n].res
    <3> DEFINE p == Position(shown, <<"main", n>>)
    <3>1. \E i \in DOMAIN shown : KeyOf(shown[i]) = <<"main", n>>
      BY <2>1 DEF ListInv, Has
    <3>2. p \in DOMAIN shown /\ KeyOf(shown[p]) = <<"main", n>>
      BY <3>1 DEF Position
    <3> HIDE DEF p
    <3>3. shown[p].stage = "main" /\ shown[p].n = n
      BY <3>2 DEF KeyOf
    <3>4. shown[p].res = steps[n].res
      BY <2>1, <2>4, <3>2, <3>3 DEF AgreeInv
    <3>5. QED
      BY <3>4 DEF p
  <2>5. QED
    BY <2>2, <2>3, <2>4
<1>2. QED
  BY ShownInvariant, <1>1, PTL

\* A result that was reported never changes, whatever is logged later: a late
\* row, an error of the job, the job's result or the end of the task.
THEOREM SticksTheorem == ShownSpec => ResultsStick
<1>1. ASSUME ShownInv, ShownInv', [ShownNext]_shownVars
      PROVE  [\A i \in DOMAIN shown :
                shown[i].res # "none" => shown'[Position(shown', KeyOf(shown[i]))].res = shown[i].res]_shownVars
  <2> SUFFICES ASSUME NEW j \in DOMAIN shown, shown[j].res # "none"
               PROVE  shown'[Position(shown', KeyOf(shown[j]))].res = shown[j].res
    OBVIOUS
  <2>1. Kept
    BY <1>1, StepKeepsInv
  <2>2. PICK i \in DOMAIN shown' : KeyOf(shown'[i]) = KeyOf(shown[j]) /\ shown'[i].res = shown[j].res
    BY <2>1 DEF Kept
  <2> DEFINE p == Position(shown', KeyOf(shown[j]))
  <2>3. p \in DOMAIN shown' /\ KeyOf(shown'[p]) = KeyOf(shown[j])
    BY <2>2 DEF Position
  <2> HIDE DEF p
  <2>4. shown' \in Seq(ShownEntry) /\ Sorted(shown')
    BY <1>1 DEF ShownInv, ShownTypeOK, ListInv
  <2>5. p = i
    BY <2>2, <2>3, <2>4, KeysDiffer
  <2>6. QED
    BY <2>2, <2>5 DEF p
<1>2. QED
  BY ShownInvariant, <1>1, PTL DEF ShownSpec, ResultsStick

=============================================================================
