-------------------------- MODULE StepBody_proofs ---------------------------
(* Proofs of the safety properties of StepBody, for any steps, jobs and    *)
(* command files, whatever the commands print and write and however often  *)
(* the environment fails.                                                  *)
EXTENDS StepBody, SequenceTheorems, TLAPS

-----------------------------------------------------------------------------
(* The inductive invariant.                                                *)

Phases == {"reset", "prepare", "exec", "take", "files", "clear"}
Place == [n : Nat \ {0}, phase : Phases, k : Nat \ {0}, reads : {"step", "own"}]
Lines == {"text", "stop", "resume", "output", "setenv"}
Entry == [by : Step, no : Nat, ok : BOOLEAN, own : BOOLEAN]

\* Type correctness of the body of a step.
TypeOK ==
    /\ job \in Jobs
    /\ at \in Place
    /\ at.n <= Len(Steps) + 1 /\ (at.n <= Len(Steps) /\ at.phase = "files" => at.k <= Len(Files))
    /\ at.phase = "take" => at.k = 1
    /\ ctx \in {"live", "ended"} /\ timer \in {"off", "armed", "expired"}
    /\ result \in [Step -> {"none", "success", "error", "interrupted"}]
    /\ proc \in [Step -> {"none", "running", "held", "exited", "failed", "killed"}]
    /\ reader \in [Step -> {"none", "copying", "stray", "gone"}]
    /\ printed \in [Step -> Seq(Lines)] /\ unended \subseteq Step
    /\ delivered \in [Step -> Nat] /\ handled \in [Step -> Nat]
    /\ stopped \subseteq Step /\ refusal \in Step \cup {"none"}
    /\ file \in [File -> Seq(Entry)] /\ writes \in [Step -> Nat]
    /\ errors \in Nat
    /\ credited \subseteq Step \X Nat \X Step /\ applied \subseteq Entry
    /\ unread \subseteq Step \X File /\ truncated \subseteq Step

Current(s) == at.n <= Len(Steps) /\ Cur = s

\* A step that has not come to its command has none, and no output; one that
\* waits for its command has not given up on its output.
Future ==
    \A m \in DOMAIN Steps : m > at.n \/ (m = at.n /\ at.phase \in {"reset", "prepare"}) =>
        proc[Steps[m]] = "none" /\ reader[Steps[m]] = "none" /\ Steps[m] \notin truncated
Waiting == \A s \in Step : At(s, "exec") => s \notin truncated /\ reader[s] # "none"

\* The output of a step that was not cut off: the copying goes on as long as
\* the step waits for it, and nothing but a line without its end is held back.
Copied(s) ==
    /\ reader[s] \in {"none", "copying", "gone"}
    /\ reader[s] = "none" => Len(printed[s]) = 0 /\ s \notin stopped
    /\ reader[s] # "none" => Current(s) /\ at.phase \in {"exec", "take", "files", "clear"}
    /\ reader[s] = "copying" => at.phase = "exec"
    /\ reader[s] = "gone" => handled[s] = Len(printed[s])
    /\ handled[s] <= delivered[s] /\ delivered[s] <= Len(printed[s])
    /\ delivered[s] # handled[s] => /\ delivered[s] = handled[s] + 1 /\ delivered[s] = Len(printed[s])
                                    /\ s \in unended
Output == \A s \in Step \ truncated : Copied(s)

\* Commands are stopped by the lines handled so far.
Stops == \A s \in Step \ truncated : s \in stopped <=> StoppedAt(s, handled[s] + 1)

\* The outputs credited are those of the lines handled so far.
Genuine(c) == c[3] = c[1] /\ c[2] \in 1 .. handled[c[1]] /\ Acts(c[1], c[2], "output")
Credits ==
    /\ \A c \in credited : c[1] \notin truncated => Genuine(c)
    /\ \A s \in Step \ truncated : \A i \in 1 .. handled[s] : Acts(s, i, "output") => <<s, i, s>> \in credited

\* A refused command is remembered until it has failed its step.
Remembered ==
    \A s \in Step \ truncated : \A i \in 1 .. handled[s] : Acts(s, i, "setenv") /\ ~Allow =>
        /\ at.phase \in {"exec", "take"} => refusal # "none"
        /\ at.phase \in {"files", "clear"} => result[s] # "success"
HasSetenv(s) == \E i \in DOMAIN printed[s] : printed[s][i] = "setenv"
Refusals ==
    refusal # "none" /\ truncated = {} =>
        at.n <= Len(Steps) /\ at.phase \in {"exec", "take"} /\ HasSetenv(Cur)

\* How a command comes to its end while its step waits for it.
Endings ==
    \A s \in Step : At(s, "exec") =>
        /\ reader[s] = "gone" => proc[s] \in {"exited", "failed", "killed"}
        /\ proc[s] = "killed" => backend = "host" /\ Interrupted /\ ~Own(s)

\* Why a step that met no error of the environment failed.
Reason(s) ==
    \/ proc[s] \in {"none", "failed"} \/ HasSetenv(s)
    \/ (\E t \in Step : writes[t] > 0) \/ (\E f \in File : <<s, f>> \in unread)
Failing(s) ==
    /\ Current(s) /\ at.phase \in {"take", "files", "clear"}
    /\ result[s] = "error" /\ errors = 0 /\ truncated = {}
Blame == \A s \in Step : Failing(s) => Reason(s)

\* What is in the command files: entries written while a step waited for its
\* command are that step's, until the files are emptied for the next.
Entered(e) ==
    e.own => /\ at.phase = "reset" => \E m \in DOMAIN Steps : m < at.n /\ Steps[m] = e.by
             /\ at.phase \in {"exec", "take", "files"} => Current(e.by)
             /\ at.phase = "clear" => \E m \in DOMAIN Steps : m <= at.n /\ Steps[m] = e.by
FileEntries == \A f \in File : \A i \in DOMAIN file[f] : Entered(file[f][i])
NoEntries == at.phase = "prepare" => \A f \in File : file[f] = << >>
Written ==
    at.phase \in {"exec", "take", "files"} =>
        \A f \in File : file[f] # << >> => \E t \in Step : writes[t] > 0

\* What was read of them.
Taken(s, f) ==
    \A i \in Entries(f) : file[f][i].own /\ file[f][i].by = s /\ <<s, f>> \notin unread => file[f][i] \in applied
Reading ==
    at.n <= Len(Steps) =>
    /\ at.phase \in {"reset", "prepare", "exec", "take"} => applied = {}
    /\ at.phase \in {"files", "clear"} => \A e \in applied : e.own => e.by = Cur
    /\ at.phase = "files" => \A j \in 1 .. at.k - 1 : Taken(Cur, Files[j])
    /\ at.phase = "files" /\ ~Readable => {Cur} \X File \subseteq unread
    /\ at.phase = "clear" => \A f \in File : Taken(Cur, f)

IInv ==
    /\ TypeOK /\ Future /\ Waiting /\ Output /\ Stops /\ Credits /\ Remembered /\ Refusals /\ Endings /\ Blame
    /\ FileEntries /\ NoEntries /\ Written /\ Reading

-----------------------------------------------------------------------------
(* The steps, the files and the lines.                                     *)

\* Steps and files are numbered from one, and no step comes twice.
LEMMA Numbering ==
    /\ Len(Steps) \in Nat /\ DOMAIN Steps = 1 .. Len(Steps)
    /\ \A m \in 1 .. Len(Steps) : Steps[m] \in Step
    /\ \A m, n \in 1 .. Len(Steps) : Steps[m] = Steps[n] => m = n
    /\ \A s \in Step : \E m \in 1 .. Len(Steps) : Steps[m] = s
    /\ Len(Files) \in Nat /\ 1 <= Len(Files) /\ DOMAIN Files = 1 .. Len(Files)
    /\ \A k \in 1 .. Len(Files) : Files[k] \in File
    /\ \A f \in File : \E k \in 1 .. Len(Files) : Files[k] = f
<1>1. Steps \in Seq(Step) /\ Files \in Seq({"env", "state", "output", "path"}) /\ Files # << >>
  BY BodyAssumption
<1>2. Len(Steps) \in Nat /\ DOMAIN Steps = 1 .. Len(Steps) /\ Len(Files) \in Nat /\ DOMAIN Files = 1 .. Len(Files)
  BY <1>1, LenProperties
<1>3. Len(Files) # 0
  BY <1>1, EmptySeq
<1>4. \A m, n \in 1 .. Len(Steps) : Steps[m] = Steps[n] => m = n
  BY <1>2, BodyAssumption
<1> QED
  BY <1>2, <1>3, <1>4 DEF Step, File

\* How the place of the body changes within a step: its phase and the file,
LEMMA PlaceMoves ==
    ASSUME NEW a \in Place, NEW p \in Phases, NEW k \in Nat \ {0}
    PROVE  /\ [a EXCEPT !.phase = p, !.k = k] = [n |-> a.n, phase |-> p, k |-> k, reads |-> a.reads]
           /\ [a EXCEPT !.k = k] = [n |-> a.n, phase |-> a.phase, k |-> k, reads |-> a.reads]
           /\ [a EXCEPT !.phase = p, !.k = k] \in Place /\ [a EXCEPT !.k = k] \in Place
<1>1. /\ a = [n |-> a.n, phase |-> a.phase, k |-> a.k, reads |-> a.reads]
      /\ a.n \in Nat \ {0} /\ a.phase \in Phases /\ a.k \in Nat \ {0} /\ a.reads \in {"step", "own"}
  BY DEF Place
<1>2. [a EXCEPT !.phase = p] = [n |-> a.n, phase |-> p, k |-> a.k, reads |-> a.reads]
  BY <1>1
<1>3. [a EXCEPT !.phase = p, !.k = k] = [[a EXCEPT !.phase = p] EXCEPT !.k = k]
  OBVIOUS
<1>4. [[a EXCEPT !.phase = p] EXCEPT !.k = k] = [n |-> a.n, phase |-> p, k |-> k, reads |-> a.reads]
  <2>1. PICK b : b = [a EXCEPT !.phase = p]
    OBVIOUS
  <2>2. b = [n |-> a.n, phase |-> p, k |-> a.k, reads |-> a.reads]
    BY <1>2, <2>1
  <2>3. b \in Place /\ b.n = a.n /\ b.phase = p /\ b.k = a.k /\ b.reads = a.reads
    BY <1>1, <2>2 DEF Place
  <2>4. [b EXCEPT !.k = k] = [n |-> b.n, phase |-> b.phase, k |-> k, reads |-> b.reads]
    BY <2>3 DEF Place
  <2> QED
    BY <2>1, <2>3, <2>4
<1>5. [a EXCEPT !.k = k] = [n |-> a.n, phase |-> a.phase, k |-> k, reads |-> a.reads]
  BY <1>1
<1>6. /\ [n |-> a.n, phase |-> p, k |-> k, reads |-> a.reads] \in Place
      /\ [n |-> a.n, phase |-> a.phase, k |-> k, reads |-> a.reads] \in Place
  BY <1>1 DEF Place
<1> QED
  BY <1>3, <1>4, <1>5, <1>6

\* or its phase and how it reads the files.
LEMMA PlaceReads ==
    ASSUME NEW a \in Place, NEW p \in Phases, NEW r \in {"step", "own"}
    PROVE  /\ [a EXCEPT !.phase = p, !.reads = r] = [n |-> a.n, phase |-> p, k |-> a.k, reads |-> r]
           /\ [a EXCEPT !.phase = p, !.reads = r] \in Place
<1>1. /\ a = [n |-> a.n, phase |-> a.phase, k |-> a.k, reads |-> a.reads]
      /\ a.n \in Nat \ {0} /\ a.phase \in Phases /\ a.k \in Nat \ {0} /\ a.reads \in {"step", "own"}
  BY DEF Place
<1>2. [a EXCEPT !.phase = p] = [n |-> a.n, phase |-> p, k |-> a.k, reads |-> a.reads]
  BY <1>1
<1>3. [a EXCEPT !.phase = p, !.reads = r] = [[a EXCEPT !.phase = p] EXCEPT !.reads = r]
  OBVIOUS
<1>4. [[a EXCEPT !.phase = p] EXCEPT !.reads = r] = [n |-> a.n, phase |-> p, k |-> a.k, reads |-> r]
  <2>1. PICK b : b = [a EXCEPT !.phase = p]
    OBVIOUS
  <2>2. b = [n |-> a.n, phase |-> p, k |-> a.k, reads |-> a.reads]
    BY <1>2, <2>1
  <2>3. b \in Place /\ b.n = a.n /\ b.phase = p /\ b.k = a.k /\ b.reads = a.reads
    BY <1>1, <2>2 DEF Place
  <2>4. [b EXCEPT !.reads = r] = [n |-> b.n, phase |-> b.phase, k |-> b.k, reads |-> r]
    BY <2>3 DEF Place
  <2> QED
    BY <2>1, <2>3, <2>4
<1>5. [n |-> a.n, phase |-> p, k |-> a.k, reads |-> r] \in Place
  BY <1>1 DEF Place
<1> QED
  BY <1>3, <1>4, <1>5

\* Whether commands are stopped before the i-th line of an output.
Stopped(p, i) == \E j \in 1 .. i - 1 : p[j] = "stop" /\ \A k \in j + 1 .. i - 1 : p[k] # "resume"

\* One more line: stop-commands stops, and only its token resumes.
LEMMA StoppedByLine ==
    ASSUME NEW p, NEW i \in Nat \ {0}
    PROVE  Stopped(p, i + 1) <=> (p[i] = "stop" \/ (Stopped(p, i) /\ p[i] # "resume"))
<1>1. i + 1 - 1 = i /\ i - 1 \in Nat
  OBVIOUS
<1>2. ASSUME Stopped(p, i + 1), p[i] # "stop" PROVE Stopped(p, i) /\ p[i] # "resume"
  <2>1. PICK j \in 1 .. i : p[j] = "stop" /\ \A k \in j + 1 .. i : p[k] # "resume"
    BY <1>1, <1>2 DEF Stopped
  <2>2. j # i
    BY <1>2, <2>1
  <2>3. j \in 1 .. i - 1 /\ i \in j + 1 .. i
    BY <2>1, <2>2
  <2> QED
    BY <2>1, <2>3 DEF Stopped
<1>3. ASSUME p[i] = "stop" PROVE Stopped(p, i + 1)
  <2>1. i \in 1 .. i /\ \A k \in i + 1 .. i : FALSE
    OBVIOUS
  <2> QED
    BY <1>1, <1>3, <2>1 DEF Stopped
<1>4. ASSUME Stopped(p, i), p[i] # "resume" PROVE Stopped(p, i + 1)
  <2>1. PICK j \in 1 .. i - 1 : p[j] = "stop" /\ \A k \in j + 1 .. i - 1 : p[k] # "resume"
    BY <1>4 DEF Stopped
  <2>2. j \in 1 .. i /\ \A k \in j + 1 .. i : k \in j + 1 .. i - 1 \/ k = i
    BY <2>1
  <2> QED
    BY <1>1, <1>4, <2>1, <2>2 DEF Stopped
<1> QED
  BY <1>2, <1>3, <1>4

\* Lines that come later do not matter.
LEMMA StoppedBefore ==
    ASSUME NEW p, NEW q, NEW n \in Nat, \A j \in 1 .. n : p[j] = q[j], NEW i \in Nat, i <= n + 1
    PROVE  Stopped(p, i) <=> Stopped(q, i)
<1>1. \A j \in 1 .. i - 1 : p[j] = q[j]
  BY \A j \in 1 .. i - 1 : j \in 1 .. n
<1>2. \A j \in 1 .. i - 1 : \A k \in j + 1 .. i - 1 : k \in 1 .. i - 1
  OBVIOUS
<1> QED
  BY <1>1, <1>2 DEF Stopped

\* What the handler does with the i-th line of a step's output.
LEMMA HandlerEffect ==
    ASSUME TypeOK, NEW s \in Step, NEW i \in Nat, commandHandler(s, i)
    PROVE  LET l == printed[s][i] IN
           /\ stopped' \subseteq Step /\ (\A t \in Step \ {s} : t \in stopped' <=> t \in stopped)
           /\ s \in stopped' <=> (l = "stop" \/ (s \in stopped /\ l # "resume"))
           /\ credited \subseteq credited' /\ credited' \subseteq Step \X Nat \X Step
           /\ \A c \in credited' \ credited :
                c = <<s, i, Cur>> /\ at.n <= Len(Steps) /\ l = "output" /\ s \notin stopped
           /\ l = "output" /\ s \notin stopped /\ at.n <= Len(Steps) => <<s, i, Cur>> \in credited'
           /\ refusal' \in Step \cup {"none"} /\ (refusal # "none" => refusal' # "none")
           /\ refusal' # refusal => l = "setenv"
           /\ l = "setenv" /\ s \notin stopped /\ ~Allow => refusal' # "none"
<1> DEFINE l == printed[s][i]
           c == IF l = "resume" /\ s \notin stopped THEN "text" ELSE l
<1>1. /\ stopped' = IF c = "stop" /\ s \notin stopped THEN stopped \cup {s}
                    ELSE IF c = "resume" THEN stopped \ {s} ELSE stopped
      /\ credited' = credited \cup (IF c = "output" /\ s \notin stopped
                                    THEN (IF at.n <= Len(Steps) THEN {<<s, i, Cur>>} ELSE {}) ELSE {})
      /\ refusal' = IF c = "setenv" /\ s \notin stopped
                    THEN (IF Allow \/ refusal # "none" THEN refusal ELSE s) ELSE refusal
  BY DEF commandHandler, parseActionCommand, StopState, Live, Credit, refuseUnsecureCommand
<1>2. at.n <= Len(Steps) => Cur \in Step
  BY Numbering DEF TypeOK, Place, Cur
<1>3. stopped \subseteq Step /\ credited \subseteq Step \X Nat \X Step /\ refusal \in Step \cup {"none"}
  BY DEF TypeOK
<1>4. stopped' \subseteq Step /\ (\A t \in Step \ {s} : t \in stopped' <=> t \in stopped)
      /\ (s \in stopped' <=> (l = "stop" \/ (s \in stopped /\ l # "resume")))
  BY <1>1, <1>3
<1>5. /\ credited \subseteq credited' /\ credited' \subseteq Step \X Nat \X Step
      /\ \A x \in credited' \ credited :
                x = <<s, i, Cur>> /\ at.n <= Len(Steps) /\ l = "output" /\ s \notin stopped
      /\ l = "output" /\ s \notin stopped /\ at.n <= Len(Steps) => <<s, i, Cur>> \in credited'
  BY <1>1, <1>2, <1>3
<1>6. /\ refusal' \in Step \cup {"none"} /\ (refusal # "none" => refusal' # "none")
      /\ refusal' # refusal => l = "setenv"
      /\ l = "setenv" /\ s \notin stopped /\ ~Allow => refusal' # "none"
  BY <1>1, <1>3, BodyAssumption
<1> QED
  BY <1>4, <1>5, <1>6


\* The handler takes the next line of one output, or none does.
NextLine(s, i) ==
    /\ reader[s] \in {"copying", "stray"} /\ i \in Nat
    /\ s \notin truncated => i = handled[s] + 1 /\ i <= Len(printed[s])
    /\ commandHandler(s, i) /\ handled' = [handled EXCEPT ![s] = i]

\* The step stays in its phase, or its command is over.
Turns ==
    /\ at'.n = at.n /\ (at'.phase = at.phase \/ (at.phase = "exec" /\ at'.phase = "take"))
    /\ at.phase # "exec" => result' = result

\* Workflow commands are obeyed as the lines come.
LEMMA LinesObeyed ==
    ASSUME IInv, NEW s \in Step, NEW i, NoHandling \/ NextLine(s, i), printed' = printed,
           truncated \subseteq truncated', Turns
    PROVE  /\ Stops' /\ Credits' /\ Remembered' /\ Refusals'
           /\ stopped' \subseteq Step /\ refusal' \in Step \cup {"none"} /\ handled' \in [Step -> Nat]
           /\ credited' \subseteq Step \X Nat \X Step
<1>1. TypeOK /\ Output /\ Stops /\ Credits /\ Remembered /\ Refusals
  BY DEF IInv
<1>2. \A t \in Step : Len(printed[t]) \in Nat /\ handled[t] \in Nat
  BY <1>1, LenProperties DEF TypeOK
<1>3. CASE NoHandling
  <2>1. Stops'
    BY <1>1, <1>3 DEF NoHandling, Stops, StoppedAt
  <2>2. Credits'
    BY <1>1, <1>3 DEF NoHandling, Credits, Genuine, Acts, StoppedAt
  <2>3. Remembered'
    <3> SUFFICES ASSUME NEW t \in Step \ truncated', NEW j \in 1 .. handled[t], Acts(t, j, "setenv"), ~Allow
                 PROVE  /\ at'.phase \in {"exec", "take"} => refusal # "none"
                        /\ at'.phase \in {"files", "clear"} => result'[t] # "success"
      BY <1>3 DEF NoHandling, Remembered, Acts, StoppedAt
    <3>1. /\ at.phase \in {"exec", "take"} => refusal # "none"
          /\ at.phase \in {"files", "clear"} => result[t] # "success"
      BY <1>1 DEF Remembered
    <3> QED
      BY <3>1 DEF Turns
  <2>4. Refusals'
    <3> SUFFICES ASSUME refusal # "none", truncated' = {}
                 PROVE  at'.n <= Len(Steps) /\ at'.phase \in {"exec", "take"} /\ HasSetenv(Cur)'
      BY <1>3 DEF NoHandling, Refusals
    <3>1. truncated = {} /\ at.n <= Len(Steps) /\ at.phase \in {"exec", "take"} /\ HasSetenv(Cur)
      BY <1>1 DEF Refusals
    <3>2. HasSetenv(Cur)'
      BY <3>1 DEF HasSetenv, Cur, Turns
    <3> QED
      BY <3>1, <3>2 DEF Turns
  <2> QED
    BY <1>1, <1>3, <2>1, <2>2, <2>3, <2>4 DEF NoHandling, TypeOK
<1>4. CASE NextLine(s, i)
  <2> DEFINE l == printed[s][i]
  <2>1. /\ i \in Nat /\ commandHandler(s, i) /\ handled' = [handled EXCEPT ![s] = i]
        /\ s \notin truncated => i = handled[s] + 1 /\ i <= Len(printed[s]) /\ i # 0
    BY <1>2, <1>4 DEF NextLine
  <2>2. /\ stopped' \subseteq Step /\ (\A t \in Step \ {s} : t \in stopped' <=> t \in stopped)
        /\ s \in stopped' <=> (l = "stop" \/ (s \in stopped /\ l # "resume"))
    BY <1>1, <2>1, HandlerEffect
  <2>3. /\ credited \subseteq credited' /\ credited' \subseteq Step \X Nat \X Step
        /\ \A c \in credited' \ credited :
             c = <<s, i, Cur>> /\ at.n <= Len(Steps) /\ l = "output" /\ s \notin stopped
        /\ l = "output" /\ s \notin stopped /\ at.n <= Len(Steps) => <<s, i, Cur>> \in credited'
    BY <1>1, <2>1, HandlerEffect
  <2>4. /\ refusal' \in Step \cup {"none"} /\ (refusal # "none" => refusal' # "none")
        /\ refusal' # refusal => l = "setenv"
        /\ l = "setenv" /\ s \notin stopped /\ ~Allow => refusal' # "none"
    BY <1>1, <2>1, HandlerEffect
  <2> HIDE DEF l
  <2>5. i \in Nat /\ handled' \in [Step -> Nat] /\ handled'[s] = i /\ \A t \in Step \ {s} : handled'[t] = handled[t]
    BY <1>1, <1>2, <2>1 DEF TypeOK
  <2>6. s \notin truncated => at.n <= Len(Steps) /\ Cur = s /\ at.phase = "exec"
    BY <1>1, <1>4 DEF NextLine, Output, Copied, Current
  <2>7. s \notin truncated => (s \in stopped <=> Stopped(printed[s], i))
    BY <1>1, <2>1 DEF Stops, StoppedAt, Stopped
  <2>8. \A t \in Step : \A j \in Nat : \A w \in Lines : (Acts(t, j, w) <=> printed[t][j] = w /\ ~Stopped(printed[t], j))
    BY DEF Acts, StoppedAt, Stopped
  <2>9. \A t \in Step : \A j \in Nat : \A w \in Lines : Acts(t, j, w)' = Acts(t, j, w)
    BY DEF Acts, StoppedAt
  <2>10. Stops'
    <3> SUFFICES ASSUME NEW t \in Step \ truncated' PROVE t \in stopped' <=> Stopped(printed[t], handled'[t] + 1)
      BY DEF Stops, StoppedAt, Stopped
    <3>1. CASE t # s
      BY <1>1, <2>2, <2>5, <3>1 DEF Stops, StoppedAt, Stopped
    <3>2. CASE t = s
      <4>1. Stopped(printed[s], i + 1) <=> (printed[s][i] = "stop" \/ (Stopped(printed[s], i) /\ printed[s][i] # "resume"))
        BY <2>1, <3>2, StoppedByLine
      <4> QED
        BY <3>2, <4>1, <2>2, <2>5, <2>7 DEF l
    <3> QED
      BY <3>1, <3>2
  <2>11. Credits'
    <3>1. ASSUME NEW c \in credited', c[1] \notin truncated' PROVE Genuine(c)'
      <4>1. CASE c \in credited
        <5>1. c[3] = c[1] /\ c[2] \in 1 .. handled[c[1]] /\ Acts(c[1], c[2], "output") /\ c[1] \in Step /\ c[2] \in Nat
          BY <1>1, <3>1, <4>1 DEF Credits, Genuine, TypeOK
        <5>2. Acts(c[1], c[2], "output")'
          BY <5>1, <2>9 DEF Lines
        <5>3. c[2] \in 1 .. handled'[c[1]]
          <6>1. CASE c[1] = s
            <7>1. i = handled[s] + 1 /\ handled'[c[1]] = i
              BY <2>1, <2>5, <3>1, <6>1
            <7> QED
              BY <1>2, <5>1, <6>1, <7>1
          <6>2. CASE c[1] # s
            BY <2>5, <5>1, <6>2
          <6> QED
            BY <6>1, <6>2
        <5> QED
          BY <5>1, <5>2, <5>3 DEF Genuine
      <4>2. CASE c \notin credited
        <5>1. c = <<s, i, Cur>> /\ l = "output" /\ s \notin stopped
          BY <2>3, <3>1, <4>2
        <5>2. c[1] = s /\ c[2] = i /\ c[3] = s /\ s \notin truncated
          BY <2>6, <3>1, <5>1
        <5>3. Acts(s, i, "output")
          BY <2>5, <2>7, <2>8, <5>1, <5>2 DEF Lines, l
        <5>4. Acts(s, i, "output")'
          BY <2>5, <2>9, <5>3 DEF Lines
        <5>5. i \in 1 .. handled'[s]
          BY <2>1, <2>5, <5>2
        <5> QED
          BY <5>2, <5>4, <5>5 DEF Genuine
      <4> QED
        BY <4>1, <4>2
    <3>2. ASSUME NEW t \in Step \ truncated', NEW j \in 1 .. handled'[t], Acts(t, j, "output")'
          PROVE  <<t, j, t>> \in credited'
      <4>0. j \in Nat /\ Acts(t, j, "output")
        <5>1. j \in Nat
          BY <2>5
        <5> QED
          BY <5>1, <2>9, <3>2 DEF Lines
      <4>1. CASE t = s /\ j = i
        <5>1. l = "output" /\ s \notin stopped
          BY <2>7, <2>8, <4>0, <4>1 DEF Lines, l
        <5> QED
          BY <2>3, <2>6, <4>1, <5>1
      <4>2. CASE ~(t = s /\ j = i)
        <5>1. j \in 1 .. handled[t]
          <6>1. CASE t = s
            <7>1. i = handled[s] + 1 /\ handled'[t] = i /\ j # i
              BY <2>1, <2>5, <4>2, <6>1
            <7> QED
              BY <1>2, <6>1, <7>1
          <6>2. CASE t # s
            BY <2>5, <6>2
          <6> QED
            BY <6>1, <6>2
        <5> QED
          BY <1>1, <2>3, <4>0, <5>1 DEF Credits
      <4> QED
        BY <4>1, <4>2
    <3> QED
      BY <3>1, <3>2 DEF Credits
  <2>12. Remembered'
    <3> SUFFICES ASSUME NEW t \in Step \ truncated', NEW j \in 1 .. handled'[t], Acts(t, j, "setenv")', ~Allow
                 PROVE  /\ at'.phase \in {"exec", "take"} => refusal' # "none"
                        /\ at'.phase \in {"files", "clear"} => result'[t] # "success"
      BY DEF Remembered
    <3>0. j \in Nat /\ Acts(t, j, "setenv")
      <4>1. j \in Nat
        BY <2>5
      <4> QED
        BY <4>1, <2>9 DEF Lines
    <3>1. CASE t = s /\ j = i
      <4>1. l = "setenv" /\ s \notin stopped /\ at.phase = "exec"
        BY <2>6, <2>7, <2>8, <3>0, <3>1 DEF Lines, l
      <4> QED
        BY <2>4, <4>1 DEF Turns
    <3>2. CASE ~(t = s /\ j = i)
      <4>1. j \in 1 .. handled[t]
        <5>1. CASE t = s
          <6>1. i = handled[s] + 1 /\ handled'[t] = i /\ j # i
            BY <2>1, <2>5, <3>2, <5>1
          <6> QED
            BY <1>2, <5>1, <6>1
        <5>2. CASE t # s
          BY <2>5, <5>2
        <5> QED
          BY <5>1, <5>2
      <4>2. /\ at.phase \in {"exec", "take"} => refusal # "none"
            /\ at.phase \in {"files", "clear"} => result[t] # "success"
        BY <1>1, <3>0, <4>1 DEF Remembered
      <4> QED
        BY <2>4, <4>2 DEF Turns
    <3> QED
      BY <3>1, <3>2
  <2>13. Refusals'
    <3> SUFFICES ASSUME refusal' # "none", truncated' = {}
                 PROVE  at'.n <= Len(Steps) /\ at'.phase \in {"exec", "take"} /\ HasSetenv(Cur)'
      BY DEF Refusals
    <3>1. truncated = {} /\ at.n <= Len(Steps) /\ Cur = s /\ at.phase = "exec"
      BY <2>6
    <3>2. Cur' = Cur /\ at'.n <= Len(Steps) /\ at'.phase \in {"exec", "take"}
      BY <3>1 DEF Turns, Cur
    <3>3. HasSetenv(s)
      <4>1. CASE refusal # "none"
        BY <1>1, <3>1, <4>1 DEF Refusals
      <4>2. CASE refusal = "none"
        <5>1. l = "setenv" /\ i \in DOMAIN printed[s]
          BY <1>1, <2>1, <2>4, <3>1, <4>2, LenProperties DEF TypeOK
        <5> QED
          BY <5>1 DEF HasSetenv, l
      <4> QED
        BY <4>1, <4>2
    <3>4. HasSetenv(Cur)'
      BY <3>1, <3>2, <3>3 DEF HasSetenv
    <3> QED
      BY <3>2, <3>4
  <2> QED
    BY <2>2, <2>3, <2>4, <2>5, <2>10, <2>11, <2>12, <2>13
<1> QED
  BY <1>3, <1>4


-----------------------------------------------------------------------------
(* Steps that leave the position of the body alone.                        *)

\* What depends on the output only, when neither it nor the step's phase changes.
LEMMA OutputKept ==
    ASSUME IInv, UNCHANGED <<at, result, truncated, printed, unended, outputVars>>
    PROVE  Waiting' /\ Output' /\ Stops' /\ Credits' /\ Remembered' /\ Refusals'
<1>1. Waiting' /\ Output'
  BY DEF IInv, outputVars, Waiting, At, Cur, Output, Copied, Current
<1>2. Stops' /\ Credits'
  BY DEF IInv, outputVars, Stops, StoppedAt, Credits, Genuine, Acts
<1>3. Remembered' /\ Refusals'
  BY DEF IInv, outputVars, Remembered, Acts, StoppedAt, Refusals, HasSetenv, Cur
<1> QED
  BY <1>1, <1>2, <1>3

\* What depends on the command files only.
LEMMA FilesKept ==
    ASSUME IInv, UNCHANGED <<job, at, ctx, file, writes, applied, unread>>
    PROVE  FileEntries' /\ NoEntries' /\ Written' /\ Reading'
<1>1. FileEntries' /\ NoEntries' /\ Written'
  BY DEF IInv, FileEntries, Entered, Current, Cur, NoEntries, Written
<1>2. Reading'
  BY DEF IInv, Reading, Taken, Entries, Readable, Reached, backend, Cur
<1> QED
  BY <1>1, <1>2

\* The step's context ends.
LEMMA CtxEndsKeeps ==
    ASSUME IInv, CtxEnds
    PROVE  IInv'
<1>0. TypeOK /\ Future /\ Endings /\ Blame /\ FileEntries /\ NoEntries /\ Written /\ Reading
  BY DEF IInv
<1> DEFINE U == IF at.phase = "files" /\ ~Reached("ended") THEN {Cur} \X File ELSE {}
<1>1. /\ ctx = "live" /\ ctx' = "ended" /\ unread' = unread \cup U /\ at.n <= Len(Steps)
      /\ UNCHANGED <<job, at, timer, result, errors, applied, truncated, outputVars, processVars>>
  BY DEF CtxEnds
<1>2. Waiting' /\ Output' /\ Stops' /\ Credits' /\ Remembered' /\ Refusals'
  BY <1>1, OutputKept DEF processVars
<1>3. Cur \in Step
  BY <1>0, <1>1, Numbering DEF TypeOK, Place, Cur
<1>4. unread' \subseteq Step \X File
  BY <1>0, <1>1, <1>3 DEF TypeOK
<1>5. TypeOK'
  BY <1>0, <1>1, <1>4 DEF TypeOK, outputVars, processVars
<1>6. Future' /\ Endings'
  BY <1>0, <1>1 DEF Future, Endings, At, Cur, backend, Interrupted, Own, kind, outputVars, processVars
<1>7. Blame'
  <2> SUFFICES ASSUME NEW s \in Step, Failing(s)' PROVE Reason(s)'
    BY DEF Blame
  <2>1. Failing(s)
    BY <1>1 DEF Failing, Current, Cur
  <2>2. Reason(s)
    BY <1>0, <2>1 DEF Blame
  <2> QED
    BY <1>1, <2>2 DEF Reason, HasSetenv, processVars
<1>8. FileEntries' /\ NoEntries' /\ Written'
  BY <1>0, <1>1 DEF FileEntries, Entered, Current, Cur, NoEntries, Written, processVars
<1>9. Reading'
  <2>1. Cur' = Cur /\ \A f \in File : Taken(Cur, f) => Taken(Cur, f)'
    BY <1>1 DEF Cur, Taken, Entries, processVars
  <2>2. at.phase = "files" /\ ~Readable' => {Cur} \X File \subseteq unread'
    BY <1>1 DEF Readable, Reached, backend
  <2>3. \A j \in 1 .. at.k - 1 : at.n <= Len(Steps) /\ at.phase = "files" => Files[j] \in File
    BY <1>0, Numbering DEF TypeOK, Place
  <2> QED
    BY <1>0, <1>1, <2>1, <2>2, <2>3 DEF Reading
<1> QED
  BY <1>2, <1>5, <1>6, <1>7, <1>8, <1>9 DEF IInv

\* Its timeout expires.
LEMMA StepTimesOutKeeps ==
    ASSUME IInv, StepTimesOut
    PROVE  IInv'
<1>1. timer' = "expired" /\ UNCHANGED <<job, at, ctx, result, bookVars, outputVars, processVars>>
  BY DEF StepTimesOut
<1>2. Waiting' /\ Output' /\ Stops' /\ Credits' /\ Remembered' /\ Refusals'
  BY <1>1, OutputKept DEF processVars, bookVars
<1>3. FileEntries' /\ NoEntries' /\ Written' /\ Reading'
  BY <1>1, FilesKept DEF processVars, bookVars
<1>4. TypeOK'
  BY <1>1 DEF IInv, TypeOK, outputVars, processVars, bookVars
<1>5. Future' /\ Endings'
  BY <1>1 DEF IInv, Future, Endings, At, Cur, backend, Interrupted, Own, kind, outputVars, processVars, bookVars
<1>6. Blame'
  BY <1>1 DEF IInv, Blame, Failing, Reason, HasSetenv, Current, Cur, outputVars, processVars, bookVars
<1> QED
  BY <1>2, <1>3, <1>4, <1>5, <1>6 DEF IInv

\* A command exits, or the host kills it.
LEMMA CommandEndsKeeps ==
    ASSUME IInv, NEW s \in Step, Exit(s) \/ Kill(s)
    PROVE  IInv'
<1>0. TypeOK /\ Future /\ Endings /\ Blame
  BY DEF IInv
<1>1. PICK p \in {"exited", "failed", "held", "killed"} :
        /\ proc' = [proc EXCEPT ![s] = p]
        /\ p = "killed" => InJob(s, "host") /\ Interrupted
        /\ p = "held" => proc[s] = "running"
  BY DEF Exit, Kill
<1>2. /\ At(s, "exec") /\ proc[s] \in {"running", "held"}
      /\ UNCHANGED <<job, at, ctx, timer, result, bookVars, printed, unended, file, writes, outputVars>>
  BY DEF Exit, Kill, InJob
<1>3. Waiting' /\ Output' /\ Stops' /\ Credits' /\ Remembered' /\ Refusals'
  BY <1>2, OutputKept DEF bookVars
<1>4. FileEntries' /\ NoEntries' /\ Written' /\ Reading'
  BY <1>2, FilesKept DEF bookVars
<1>5. TypeOK'
  BY <1>0, <1>1, <1>2 DEF TypeOK, outputVars, bookVars
<1>6. Future'
  <2>1. \A m \in DOMAIN Steps : m > at.n \/ (m = at.n /\ at.phase \in {"reset", "prepare"}) => Steps[m] # s
    BY <1>0, <1>2, Numbering DEF TypeOK, Place, At, Cur
  <2> QED
    BY <1>0, <1>1, <1>2, <2>1, Numbering DEF TypeOK, Future, outputVars, bookVars
<1>7. Endings'
  <2>1. reader[s] = "gone" => p \in {"exited", "failed", "killed"}
    BY <1>0, <1>1, <1>2 DEF Endings
  <2>2. proc'[s] = p /\ \A t \in Step : t # s => proc'[t] = proc[t]
    BY <1>0, <1>1 DEF TypeOK
  <2>3. \A t \in Step : At(t, "exec")' => t = s
    BY <1>2 DEF At, Cur
  <2>4. p = "killed" => backend' = "host" /\ Interrupted' /\ ~Own(s)'
    BY <1>1, <1>2 DEF InJob, backend, Interrupted, Own, kind
  <2> QED
    BY <1>1, <1>2, <2>1, <2>2, <2>3, <2>4 DEF Endings, outputVars
<1>8. Blame'
  BY <1>2 DEF Blame, Failing, At
<1> QED
  BY <1>3, <1>4, <1>5, <1>6, <1>7, <1>8 DEF IInv


\* A command writes to a command file: an entry of its own while its step waits.
LEMMA WriteFileKeeps ==
    ASSUME IInv, NEW s \in Step, WriteFile(s)
    PROVE  IInv'
<1>0. TypeOK /\ Future /\ Endings /\ FileEntries /\ Written /\ Reading
  BY DEF IInv
<1>1. PICK f \in File, ok \in BOOLEAN :
        file' = [file EXCEPT ![f] = Append(@, [by |-> s, no |-> writes[s] + 1, ok |-> ok, own |-> At(s, "exec")])]
  BY DEF WriteFile
<1>2. /\ at.n <= Len(Steps) /\ at.phase = "exec" /\ writes' = [writes EXCEPT ![s] = @ + 1]
      /\ UNCHANGED <<job, at, ctx, timer, result, bookVars, proc, printed, unended, outputVars>>
  BY DEF WriteFile
<1> DEFINE e == [by |-> s, no |-> writes[s] + 1, ok |-> ok, own |-> At(s, "exec")]
<1>3. Waiting' /\ Output' /\ Stops' /\ Credits' /\ Remembered' /\ Refusals'
  BY <1>2, OutputKept DEF bookVars
<1>4. e \in Entry /\ (e.own => Current(s)) /\ e.by = s
  <2>1. writes[s] + 1 \in Nat /\ At(s, "exec") \in BOOLEAN /\ (At(s, "exec") => Current(s))
    BY <1>0 DEF TypeOK, At, Current
  <2> QED
    BY <2>1 DEF Entry
<1> HIDE DEF e
<1>5. file' = [file EXCEPT ![f] = Append(file[f], e)]
  BY <1>1 DEF e
<1>6. file[f] \in Seq(Entry)
  BY <1>0 DEF TypeOK
<1>7. /\ Append(file[f], e) \in Seq(Entry) /\ Len(file[f]) \in Nat /\ DOMAIN file[f] = 1 .. Len(file[f])
      /\ DOMAIN Append(file[f], e) = 1 .. Len(file[f]) + 1
      /\ Append(file[f], e)[Len(file[f]) + 1] = e
      /\ \A i \in 1 .. Len(file[f]) : Append(file[f], e)[i] = file[f][i]
  BY <1>4, <1>6, LenProperties, AppendProperties
<1>8. file' \in [File -> Seq(Entry)] /\ file'[f] = Append(file[f], e) /\ \A g \in File : g # f => file'[g] = file[g]
  BY <1>0, <1>5, <1>7 DEF TypeOK
<1>9. writes' \in [Step -> Nat] /\ writes'[s] > 0
  <2>1. writes[s] \in Nat /\ writes \in [Step -> Nat] /\ writes' = [writes EXCEPT ![s] = writes[s] + 1]
    BY <1>0, <1>2 DEF TypeOK
  <2>2. writes[s] + 1 \in Nat /\ writes[s] + 1 > 0
    BY <2>1
  <2> QED
    BY <2>1, <2>2
<1>10. TypeOK'
  BY <1>0, <1>2, <1>8, <1>9 DEF TypeOK, outputVars, bookVars
<1>11. Future' /\ Endings'
  BY <1>0, <1>2 DEF Future, Endings, At, Cur, backend, Interrupted, Own, kind, outputVars, bookVars
<1>12. Blame'
  BY <1>2 DEF Blame, Failing
<1>13. FileEntries'
  <2> SUFFICES ASSUME NEW g \in File, NEW i \in DOMAIN file'[g], file'[g][i].own
               PROVE  Current(file'[g][i].by)
    BY <1>2 DEF FileEntries, Entered, Current, Cur
  <2>1. CASE i \in DOMAIN file[g] /\ file'[g][i] = file[g][i]
    BY <1>0, <1>2, <2>1 DEF FileEntries, Entered
  <2>2. CASE file'[g][i] = e
    BY <1>4, <2>2
  <2>3. CASE g # f
    BY <1>8, <2>1, <2>3
  <2>4. CASE g = f
    <3>1. i \in 1 .. Len(file[f]) \/ i = Len(file[f]) + 1
      BY <1>7, <1>8, <2>4
    <3> QED
      BY <1>7, <1>8, <2>1, <2>2, <2>4, <3>1
  <2> QED
    BY <2>3, <2>4
<1>14. NoEntries' /\ Written'
  BY <1>2, <1>9 DEF NoEntries, Written
<1>15. Reading'
  BY <1>0, <1>2 DEF Reading, bookVars
<1> QED
  BY <1>3, <1>10, <1>11, <1>12, <1>13, <1>14, <1>15 DEF IInv

\* A command prints a line.
LEMMA WriteLineKeeps ==
    ASSUME IInv, NEW s \in Step, WriteLine(s)
    PROVE  IInv'
<1>0. TypeOK /\ Future /\ Waiting /\ Output /\ Stops /\ Credits /\ Remembered /\ Refusals /\ Endings /\ Blame
  BY DEF IInv
<1>1. PICK l \in does[s] \ {"write"} : printed' = [printed EXCEPT ![s] = Append(@, l)]
  BY DEF WriteLine
<1>2. /\ reader[s] = "copying" /\ s \notin unended /\ unended' \in {unended, unended \cup {s}}
      /\ UNCHANGED <<job, at, ctx, timer, result, bookVars, proc, file, writes, outputVars>>
  BY DEF WriteLine, Open
<1>3. FileEntries' /\ NoEntries' /\ Written' /\ Reading'
  BY <1>2, FilesKept DEF bookVars
<1>4. l \in Lines
  <2>1. job \in Jobs
    BY <1>0 DEF TypeOK
  <2>2. job.does[s] \subseteq {"text", "stop", "resume", "output", "setenv", "write"}
    BY <2>1, BodyAssumption
  <2> QED
    BY <1>1, <2>2 DEF does, Lines
<1>5. \A t \in Step : printed[t] \in Seq(Lines) /\ Len(printed[t]) \in Nat /\ DOMAIN printed[t] = 1 .. Len(printed[t])
  BY <1>0, LenProperties DEF TypeOK
<1>6. /\ Append(printed[s], l) \in Seq(Lines) /\ Len(Append(printed[s], l)) = Len(printed[s]) + 1
      /\ DOMAIN Append(printed[s], l) = 1 .. Len(printed[s]) + 1
      /\ \A i \in 1 .. Len(printed[s]) : Append(printed[s], l)[i] = printed[s][i]
  BY <1>4, <1>5, AppendProperties
<1>7. printed' \in [Step -> Seq(Lines)] /\ printed'[s] = Append(printed[s], l) /\ \A t \in Step : t # s => printed'[t] = printed[t]
  BY <1>0, <1>1, <1>6 DEF TypeOK
<1>8. \A t \in Step : /\ Len(printed'[t]) >= Len(printed[t]) /\ DOMAIN printed[t] \subseteq DOMAIN printed'[t]
                      /\ \A j \in 1 .. Len(printed[t]) : printed'[t][j] = printed[t][j]
  <2> TAKE t \in Step
  <2>1. CASE t # s
    BY <1>5, <1>7, <2>1
  <2>2. CASE t = s
    BY <1>5, <1>6, <1>7, <2>2
  <2> QED
    BY <2>1, <2>2
<1>9. TypeOK'
  <2>1. unended' \subseteq Step
    BY <1>0, <1>2 DEF TypeOK
  <2> QED
    BY <1>0, <1>2, <1>7, <2>1 DEF TypeOK, outputVars, bookVars
<1>10. Future' /\ Waiting' /\ Endings'
  BY <1>0, <1>2 DEF Future, Waiting, Endings, At, Cur, backend, Interrupted, Own, kind, outputVars, bookVars
<1>11. Output'
  <2> SUFFICES ASSUME NEW t \in Step \ truncated PROVE Copied(t)'
    BY <1>2 DEF Output, bookVars
  <2>1. Copied(t)
    BY <1>0 DEF Output
  <2>2. CASE t # s
    <3>1. printed'[t] = printed[t] /\ (t \in unended' <=> t \in unended)
      BY <1>2, <1>7, <2>2
    <3> QED
      BY <1>2, <2>1, <3>1 DEF Copied, Current, Cur, outputVars
  <2>3. CASE t = s
    <3>1. delivered[s] = handled[s] /\ delivered[s] <= Len(printed[s]) /\ Current(s) /\ at.phase = "exec"
      BY <1>2, <2>1, <2>3 DEF Copied
    <3>2. delivered[s] <= Len(printed'[s]) /\ handled[s] <= delivered[s]
      BY <1>0, <1>5, <1>6, <1>7, <3>1 DEF TypeOK
    <3> QED
      BY <1>2, <2>3, <3>1, <3>2 DEF Copied, Current, Cur, outputVars
  <2> QED
    BY <2>2, <2>3
<1>12. \A t \in Step : \A i \in Nat : i <= Len(printed[t]) + 1 => (StoppedAt(t, i)' <=> StoppedAt(t, i))
  <2> SUFFICES ASSUME NEW t \in Step, NEW i \in Nat, i <= Len(printed[t]) + 1
               PROVE  Stopped(printed'[t], i) <=> Stopped(printed[t], i)
    BY DEF StoppedAt, Stopped
  <2> QED
    BY <1>5, <1>8, StoppedBefore
<1>13. \A t \in Step \ truncated : handled[t] \in Nat /\ handled[t] <= Len(printed[t])
  BY <1>0, <1>5 DEF TypeOK, Output, Copied
<1>14. \A t \in Step : \A i \in 1 .. Len(printed[t]) : \A w \in Lines : Acts(t, i, w)' <=> Acts(t, i, w)
  BY <1>5, <1>8, <1>12 DEF Acts
<1>15. Stops'
  <2> SUFFICES ASSUME NEW t \in Step \ truncated PROVE t \in stopped <=> StoppedAt(t, handled[t] + 1)'
    BY <1>2 DEF Stops, StoppedAt, outputVars, bookVars
  <2>1. handled[t] + 1 \in Nat /\ handled[t] + 1 <= Len(printed[t]) + 1
    BY <1>5, <1>13
  <2>2. StoppedAt(t, handled[t] + 1)' <=> StoppedAt(t, handled[t] + 1)
    <3>1. \A i \in Nat : i <= Len(printed[t]) + 1 => (StoppedAt(t, i)' <=> StoppedAt(t, i))
      BY <1>12
    <3> QED
      BY <1>2, <2>1, <3>1 DEF StoppedAt, outputVars
  <2> QED
    BY <1>0, <2>2 DEF Stops
<1>16. Credits'
  <2>1. ASSUME NEW c \in credited, c[1] \notin truncated PROVE Genuine(c)'
    <3>1. Genuine(c) /\ c[1] \in Step
      BY <1>0, <2>1 DEF Credits, TypeOK
    <3>2. c[2] \in 1 .. Len(printed[c[1]])
      BY <1>5, <1>13, <2>1, <3>1 DEF Genuine
    <3>3. Acts(c[1], c[2], "output")'
      BY <1>14, <3>1, <3>2 DEF Genuine, Lines
    <3> QED
      BY <1>2, <3>1, <3>3 DEF Genuine, outputVars
  <2>2. ASSUME NEW t \in Step \ truncated, NEW i \in 1 .. handled[t], Acts(t, i, "output")' PROVE <<t, i, t>> \in credited
    <3>1. i \in 1 .. Len(printed[t])
      BY <1>5, <1>13
    <3>2. Acts(t, i, "output")
      BY <1>14, <2>2, <3>1 DEF Lines
    <3> QED
      BY <1>0, <3>2 DEF Credits
  <2> QED
    BY <1>2, <2>1, <2>2 DEF Credits, outputVars, bookVars
<1>17. Remembered'
  <2> SUFFICES ASSUME NEW t \in Step \ truncated, NEW i \in 1 .. handled[t], Acts(t, i, "setenv")', ~Allow
               PROVE  /\ at.phase \in {"exec", "take"} => refusal # "none"
                      /\ at.phase \in {"files", "clear"} => result[t] # "success"
    BY <1>2 DEF Remembered, outputVars, bookVars
  <2>1. i \in 1 .. Len(printed[t])
    BY <1>5, <1>13
  <2>2. Acts(t, i, "setenv")
    BY <1>14, <2>1 DEF Lines
  <2> QED
    BY <1>0, <2>2 DEF Remembered
<1>18. \A t \in Step : HasSetenv(t) => HasSetenv(t)'
  BY <1>5, <1>8 DEF HasSetenv
<1>19. Refusals'
  <2>1. at.n <= Len(Steps) => Cur \in Step /\ Cur' = Cur
    BY <1>0, <1>2, Numbering DEF TypeOK, Place, Cur
  <2>2. refusal # "none" /\ truncated = {} => at.n <= Len(Steps) /\ at.phase \in {"exec", "take"} /\ HasSetenv(Cur)
    BY <1>0 DEF Refusals
  <2>3. refusal # "none" /\ truncated = {} => HasSetenv(Cur)'
    <3> SUFFICES ASSUME refusal # "none", truncated = {} PROVE HasSetenv(Cur)'
      OBVIOUS
    <3>1. Cur \in Step /\ Cur' = Cur /\ HasSetenv(Cur)
      BY <2>1, <2>2
    <3>2. PICK t \in Step : t = Cur
      BY <3>1
    <3>3. HasSetenv(t)'
      BY <1>18, <3>1, <3>2
    <3> QED
      BY <3>1, <3>2, <3>3 DEF HasSetenv
  <2> QED
    BY <1>2, <2>2, <2>3 DEF Refusals, outputVars, bookVars
<1>20. Blame'
  <2> SUFFICES ASSUME NEW t \in Step, Failing(t)' PROVE Reason(t)'
    BY DEF Blame
  <2>1. Failing(t)
    BY <1>2 DEF Failing, Current, Cur, bookVars
  <2>2. Reason(t)
    BY <1>0, <2>1 DEF Blame
  <2> QED
    BY <1>2, <1>18, <2>2 DEF Reason, bookVars
<1> QED
  BY <1>3, <1>9, <1>10, <1>11, <1>15, <1>16, <1>17, <1>19, <1>20 DEF IInv


-----------------------------------------------------------------------------
(* The output.                                                             *)

\* A line comes to the line writer, which handles it unless it has no end.
LEMMA DeliverKeeps ==
    ASSUME IInv, NEW s \in Step, Deliver(s)
    PROVE  IInv'
<1>0. TypeOK /\ Future /\ Waiting /\ Output /\ Endings /\ Blame
  BY DEF IInv
<1> DEFINE i == delivered[s] + 1
<1>1. /\ reader[s] \in {"copying", "stray"} /\ i <= Len(printed[s]) /\ delivered' = [delivered EXCEPT ![s] = i]
      /\ \/ i = Len(printed[s]) /\ s \in unended /\ NoHandling
         \/ commandHandler(s, i) /\ handled' = [handled EXCEPT ![s] = i]
      /\ UNCHANGED <<job, at, ctx, timer, result, bookVars, reader, processVars>>
  BY DEF Deliver
<1>2. \A t \in Step : delivered[t] \in Nat /\ handled[t] \in Nat /\ Len(printed[t]) \in Nat
  BY <1>0, LenProperties DEF TypeOK
<1>3. i \in Nat /\ (s \notin truncated => delivered[s] = handled[s] /\ reader[s] = "copying")
  <2>1. i \in Nat
    BY <1>2
  <2>2. s \notin truncated => delivered[s] = handled[s] /\ reader[s] = "copying"
    BY <1>0, <1>1, <1>2 DEF Output, Copied
  <2> QED
    BY <2>1, <2>2
<1>4. NoHandling \/ NextLine(s, i)
  BY <1>1, <1>3 DEF NextLine
<1> HIDE DEF i
<1>5. Turns /\ printed' = printed /\ truncated \subseteq truncated'
  BY <1>1 DEF Turns, processVars, bookVars
<1>6. /\ Stops' /\ Credits' /\ Remembered' /\ Refusals'
      /\ stopped' \subseteq Step /\ refusal' \in Step \cup {"none"} /\ handled' \in [Step -> Nat]
      /\ credited' \subseteq Step \X Nat \X Step
  BY <1>4, <1>5, LinesObeyed
<1>7. delivered' \in [Step -> Nat] /\ delivered'[s] = i /\ \A t \in Step : t # s => delivered'[t] = delivered[t]
  BY <1>0, <1>1, <1>3 DEF TypeOK
<1>8. TypeOK'
  BY <1>0, <1>1, <1>6, <1>7 DEF TypeOK, processVars, bookVars
<1>9. Future' /\ Waiting' /\ Endings'
  BY <1>0, <1>1 DEF Future, Waiting, Endings, At, Cur, backend, Interrupted, Own, kind, processVars, bookVars
<1>10. Blame'
  BY <1>0, <1>1 DEF Blame, Failing, Reason, HasSetenv, Current, Cur, processVars, bookVars
<1>11. FileEntries' /\ NoEntries' /\ Written' /\ Reading'
  BY <1>1, FilesKept DEF processVars, bookVars
<1>12. Output'
  <2> SUFFICES ASSUME NEW t \in Step \ truncated PROVE Copied(t)'
    BY <1>1 DEF Output, bookVars
  <2>1. Copied(t)
    BY <1>0 DEF Output
  <2>3. CASE t # s
    <3>1. handled'[t] = handled[t] /\ delivered'[t] = delivered[t]
      BY <1>0, <1>1, <1>7, <2>3 DEF NoHandling, TypeOK
    <3>3. reader[t] = "none" => t \notin stopped'
      <4>1. CASE NoHandling
        BY <2>1, <4>1 DEF NoHandling, Copied
      <4>2. CASE commandHandler(s, i)
        <5>1. t \in stopped' <=> t \in stopped
          BY <1>0, <1>3, <2>3, <4>2, HandlerEffect
        <5> QED
          BY <2>1, <5>1 DEF Copied
      <4> QED
        BY <1>1, <4>1, <4>2
    <3> QED
      BY <1>1, <2>1, <3>1, <3>3 DEF Copied, Current, Cur, processVars
  <2>4. CASE t = s
    <3>1. delivered[s] = handled[s] /\ reader[s] = "copying" /\ delivered'[s] = delivered[s] + 1 /\ i = delivered[s] + 1
      BY <1>3, <1>7, <2>4 DEF i
    <3>2. \/ handled'[s] = delivered'[s]
          \/ handled'[s] = handled[s] /\ delivered'[s] = Len(printed[s]) /\ s \in unended
      BY <1>0, <1>1, <1>7 DEF NoHandling, TypeOK
    <3>3. /\ handled'[s] <= delivered'[s] /\ delivered'[s] <= Len(printed[s])
          /\ delivered'[s] # handled'[s] => /\ delivered'[s] = handled'[s] + 1 /\ delivered'[s] = Len(printed[s])
                                            /\ s \in unended
      BY <1>1, <1>2, <3>1, <3>2
    <3> QED
      BY <1>1, <2>1, <2>4, <3>1, <3>3 DEF Copied, Current, Cur, processVars
  <2> QED
    BY <2>3, <2>4
<1> QED
  BY <1>6, <1>8, <1>9, <1>10, <1>11, <1>12 DEF IInv

\* A flush handles the line that was held back.
LEMMA FlushHandles ==
    ASSUME IInv, NEW s \in Step, Flush(s), reader[s] \in {"copying", "stray"}
    PROVE  /\ NoHandling \/ NextLine(s, delivered[s])
           /\ s \notin truncated => handled'[s] = delivered[s]
<1>0. TypeOK /\ Output
  BY DEF IInv
<1>1. \A t \in Step : delivered[t] \in Nat /\ handled[t] \in Nat /\ Len(printed[t]) \in Nat
  BY <1>0, LenProperties DEF TypeOK
<1>2. CASE delivered[s] = handled[s]
  BY <1>2 DEF Flush, NoHandling
<1>3. CASE delivered[s] # handled[s]
  <2>1. commandHandler(s, delivered[s]) /\ handled' = [handled EXCEPT ![s] = delivered[s]]
    BY <1>3 DEF Flush
  <2>2. s \notin truncated => delivered[s] = handled[s] + 1 /\ delivered[s] <= Len(printed[s])
    BY <1>0, <1>3 DEF Output, Copied
  <2>3. handled'[s] = delivered[s]
    BY <1>0, <2>1 DEF TypeOK
  <2> QED
    BY <1>1, <2>1, <2>2, <2>3 DEF NextLine
<1> QED
  BY <1>2, <1>3

\* The output of no other step is touched.
LEMMA OthersKept ==
    ASSUME IInv, NEW s \in Step, NEW i, NoHandling \/ NextLine(s, i), NEW t \in Step \ {s}
    PROVE  handled'[t] = handled[t] /\ (t \in stopped' <=> t \in stopped)
<1>0. TypeOK
  BY DEF IInv
<1>1. CASE NoHandling
  BY <1>1 DEF NoHandling
<1>2. CASE NextLine(s, i)
  <2>1. i \in Nat /\ commandHandler(s, i) /\ handled' = [handled EXCEPT ![s] = i]
    BY <1>2 DEF NextLine
  <2>2. t \in stopped' <=> t \in stopped
    BY <1>0, <2>1, HandlerEffect
  <2>3. handled'[t] = handled[t]
    BY <1>0, <2>1 DEF TypeOK
  <2> QED
    BY <2>2, <2>3
<1> QED
  BY <1>1, <1>2

\* The copying of an output ends, at the end of its stream or once it was given up.
LEMMA copyOutputKeeps ==
    ASSUME IInv, NEW s \in Step, copyOutput(s)
    PROVE  IInv'
<1>0. TypeOK /\ Future /\ Waiting /\ Output /\ Endings /\ Blame
  BY DEF IInv
<1>1. /\ reader[s] \in {"copying", "stray"} /\ (reader[s] # "stray" => AtEOF(s))
      /\ Flush(s) /\ reader' = [reader EXCEPT ![s] = "gone"]
      /\ UNCHANGED <<job, at, ctx, timer, result, bookVars, delivered, processVars>>
  BY DEF copyOutput
<1>2. /\ NoHandling \/ NextLine(s, delivered[s])
      /\ s \notin truncated => handled'[s] = delivered[s]
  BY <1>1, FlushHandles
<1>3. Turns /\ printed' = printed /\ truncated \subseteq truncated'
  BY <1>1 DEF Turns, processVars, bookVars
<1>4. /\ Stops' /\ Credits' /\ Remembered' /\ Refusals'
      /\ stopped' \subseteq Step /\ refusal' \in Step \cup {"none"} /\ handled' \in [Step -> Nat]
      /\ credited' \subseteq Step \X Nat \X Step
  BY <1>2, <1>3, LinesObeyed
<1>5. /\ reader' \in [Step -> {"none", "copying", "stray", "gone"}] /\ reader'[s] = "gone"
      /\ \A t \in Step : t # s => reader'[t] = reader[t]
  BY <1>0, <1>1 DEF TypeOK
<1>6. TypeOK'
  BY <1>0, <1>1, <1>4, <1>5 DEF TypeOK, processVars, bookVars
<1>7. s \notin truncated => reader[s] = "copying" /\ AtEOF(s)
  BY <1>0, <1>1 DEF Output, Copied
<1>8. Future'
  <2>1. \A m \in DOMAIN Steps : m > at.n \/ (m = at.n /\ at.phase \in {"reset", "prepare"}) => Steps[m] # s
    BY <1>0, <1>1 DEF Future
  <2> QED
    BY <1>0, <1>1, <1>5, <2>1, Numbering DEF Future, processVars, bookVars
<1>9. Waiting'
  BY <1>0, <1>1, <1>5 DEF Waiting, At, Cur, bookVars
<1>10. Endings'
  <2>1. At(s, "exec") => proc[s] \in {"exited", "failed", "killed"}
    BY <1>0, <1>7 DEF Waiting, AtEOF
  <2>2. \A t \in Step : At(t, "exec")' => At(t, "exec") /\ (t # s => reader'[t] = reader[t])
    BY <1>1, <1>5 DEF At, Cur
  <2> QED
    BY <1>0, <1>1, <2>1, <2>2 DEF Endings, backend, Interrupted, Own, kind, processVars
<1>11. Blame'
  BY <1>0, <1>1 DEF Blame, Failing, Reason, HasSetenv, Current, Cur, processVars, bookVars
<1>12. FileEntries' /\ NoEntries' /\ Written' /\ Reading'
  BY <1>1, FilesKept DEF processVars, bookVars
<1>13. Output'
  <2> SUFFICES ASSUME NEW t \in Step \ truncated PROVE Copied(t)'
    BY <1>1 DEF Output, bookVars
  <2>1. Copied(t)
    BY <1>0 DEF Output
  <2>2. CASE t # s
    <3>1. handled'[t] = handled[t] /\ (t \in stopped' <=> t \in stopped) /\ reader'[t] = reader[t]
      BY <1>2, <1>5, <2>2, OthersKept
    <3> QED
      BY <1>1, <2>1, <3>1 DEF Copied, Current, Cur, processVars
  <2>3. CASE t = s
    <3>1. handled'[s] = delivered[s] /\ delivered[s] = Len(printed[s]) /\ delivered[s] <= Len(printed[s])
      BY <1>2, <1>7, <2>1, <2>3 DEF AtEOF, Copied
    <3>2. handled'[s] <= delivered[s]
      BY <1>0, <3>1 DEF TypeOK
    <3> QED
      BY <1>1, <1>5, <1>7, <2>1, <2>3, <3>1, <3>2 DEF Copied, Current, Cur, processVars
  <2> QED
    BY <2>2, <2>3
<1> QED
  BY <1>4, <1>6, <1>8, <1>9, <1>10, <1>11, <1>12, <1>13 DEF IInv


-----------------------------------------------------------------------------
(* Before the command.                                                     *)

\* A step that has not come to its command: no step that was not cut off has output.
LEMMA NothingYet ==
    ASSUME IInv, at.phase \in {"reset", "prepare"}
    PROVE  \A t \in Step \ truncated : /\ reader[t] = "none" /\ Len(printed[t]) = 0 /\ t \notin stopped
                                       /\ handled[t] = 0 /\ delivered[t] = 0
<1> SUFFICES ASSUME NEW t \in Step \ truncated
             PROVE  /\ reader[t] = "none" /\ Len(printed[t]) = 0 /\ t \notin stopped
                    /\ handled[t] = 0 /\ delivered[t] = 0
  OBVIOUS
<1>1. Copied(t) /\ handled[t] \in Nat /\ delivered[t] \in Nat
  BY DEF IInv, Output, TypeOK
<1>2. reader[t] = "none"
  BY <1>1 DEF Copied
<1>3. Len(printed[t]) = 0 /\ t \notin stopped /\ handled[t] <= delivered[t] /\ delivered[t] <= 0
  BY <1>1, <1>2 DEF Copied
<1> QED
  BY <1>1, <1>2, <1>3

\* There, what the invariant says of the output stays true as long as none comes.
LEMMA NoOutputYet ==
    ASSUME IInv, at.phase \in {"reset", "prepare"}, refusal' \in {"none", refusal},
           UNCHANGED <<printed, unended, reader, delivered, handled, stopped, credited, truncated>>
    PROVE  Output' /\ Stops' /\ Credits' /\ Remembered' /\ Refusals'
<1>1. \A t \in Step \ truncated : /\ reader[t] = "none" /\ Len(printed[t]) = 0 /\ t \notin stopped
                                  /\ handled[t] = 0 /\ delivered[t] = 0
  BY NothingYet
<1>2. Output'
  BY <1>1 DEF Output, Copied
<1>3. Stops' /\ Credits'
  BY DEF IInv, Stops, StoppedAt, Credits, Genuine, Acts
<1>4. Remembered'
  BY <1>1 DEF Remembered
<1>5. Refusals'
  BY DEF IInv, Refusals
<1> QED
  BY <1>2, <1>3, <1>4, <1>5

\* The command files are emptied for the step, or its body ends there.
LEMMA ResetFilesKeeps ==
    ASSUME IInv, NEW s \in Step, ResetFiles(s)
    PROVE  IInv'
<1>0. TypeOK /\ Future /\ FileEntries /\ Reading
  BY DEF IInv
<1>1. /\ at.n <= Len(Steps) /\ Cur = s /\ at.phase = "reset"
      /\ UNCHANGED <<job, ctx, applied, unread, truncated, proc, printed, unended, writes, reader, delivered,
                   handled, stopped, credited>>
  BY DEF ResetFiles, At
<1>2. \A m \in DOMAIN Steps : m > at.n \/ m = at.n => proc[Steps[m]] = "none" /\ reader[Steps[m]] = "none" /\ Steps[m] \notin truncated
  BY <1>0, <1>1 DEF Future
<1>3. at.n \in DOMAIN Steps /\ Steps[at.n] = s
  BY <1>0, <1>1, Numbering DEF TypeOK, Place, Cur
<1>4. CASE /\ file' = [f \in File |-> << >>] /\ at' = [at EXCEPT !.phase = "prepare", !.k = 1]
           /\ UNCHANGED <<result, errors>> /\ timer' \in {"armed", "off"} /\ refusal' = "none"
  <2>1. at'.n = at.n /\ at'.phase = "prepare" /\ at' \in Place
    <3>1. "prepare" \in Phases /\ 1 \in Nat \ {0} /\ at \in Place
      BY <1>0 DEF Phases, TypeOK
    <3>2. at' = [n |-> at.n, phase |-> "prepare", k |-> 1, reads |-> at.reads] /\ at' \in Place
      BY <1>4, <3>1, PlaceMoves
    <3> QED
      BY <3>2
  <2>2. Output' /\ Stops' /\ Credits' /\ Remembered' /\ Refusals'
    BY <1>1, <1>4, NoOutputYet
  <2>3. file' \in [File -> Seq(Entry)] /\ \A f \in File : file'[f] = << >>
    BY <1>4, EmptySeq
  <2>4. TypeOK'
    BY <1>0, <1>1, <1>4, <2>1, <2>3 DEF TypeOK
  <2>5. Future' /\ Waiting' /\ Endings' /\ Blame'
    BY <1>1, <1>2, <2>1 DEF Future, Waiting, Endings, Blame, Failing, At
  <2>6. FileEntries' /\ NoEntries' /\ Written'
    <3>1. \A f \in File : DOMAIN file'[f] = {}
      BY <2>3
    <3> QED
      BY <2>1, <2>3, <3>1 DEF FileEntries, NoEntries, Written
  <2>7. Reading'
    BY <1>0, <1>1, <2>1 DEF Reading
  <2> QED
    BY <2>2, <2>4, <2>5, <2>6, <2>7 DEF IInv
<1>5. CASE /\ errors' \in {errors, errors + 1} /\ result' = [result EXCEPT ![s] = "error"]
           /\ at' = [at EXCEPT !.phase = "clear", !.reads = ReadsUnder] /\ UNCHANGED <<file, timer, refusal>>
  <2>1. at'.n = at.n /\ at'.phase = "clear" /\ at' \in Place
    <3>1. "clear" \in Phases /\ ReadsUnder \in {"step", "own"} /\ at \in Place
      BY <1>0 DEF Phases, ReadsUnder, TypeOK
    <3>2. at' = [n |-> at.n, phase |-> "clear", k |-> at.k, reads |-> ReadsUnder] /\ at' \in Place
      BY <1>5, <3>1, PlaceReads
    <3> QED
      BY <3>2
  <2>2. Output' /\ Stops' /\ Credits' /\ Remembered' /\ Refusals'
    BY <1>1, <1>5, NoOutputYet
  <2>3. errors' \in Nat /\ result' \in [Step -> {"none", "success", "error", "interrupted"}]
    BY <1>0, <1>5 DEF TypeOK
  <2>4. TypeOK'
    BY <1>0, <1>1, <1>5, <2>1, <2>3 DEF TypeOK
  <2>5. Future' /\ Waiting' /\ Endings'
    BY <1>1, <1>2, <2>1 DEF Future, Waiting, Endings, At
  <2>6. Blame'
    <3>1. \A t \in Step : Failing(t)' => t = s
      BY <1>1, <2>1 DEF Failing, Current, Cur
    <3>2. proc'[s] = "none"
      BY <1>1, <1>2, <1>3
    <3> QED
      BY <3>1, <3>2 DEF Blame, Reason
  <2>7. \A f \in File : \A i \in DOMAIN file[f] : file[f][i].own => \E m \in DOMAIN Steps : m < at.n /\ Steps[m] = file[f][i].by
    BY <1>0, <1>1 DEF FileEntries, Entered
  <2>8. FileEntries' /\ NoEntries' /\ Written'
    <3>1. \A m \in DOMAIN Steps : m < at.n => m <= at.n
      BY <1>0, Numbering DEF TypeOK, Place
    <3> QED
      BY <1>5, <2>1, <2>7, <3>1 DEF FileEntries, Entered, NoEntries, Written
  <2>9. \A f \in File : Taken(s, f)'
    <3>1. \A m \in DOMAIN Steps : m < at.n => Steps[m] # s
      BY <1>0, <1>3, Numbering DEF TypeOK
    <3>2. \A f \in File : \A i \in DOMAIN file[f] : ~(file[f][i].own /\ file[f][i].by = s)
      BY <2>7, <3>1
    <3> QED
      BY <1>5, <3>2 DEF Taken, Entries
  <2>10. Reading'
    <3>1. Cur' = s /\ applied' = {}
      BY <1>0, <1>1, <2>1 DEF Reading, Cur
    <3> QED
      BY <2>1, <2>9, <3>1 DEF Reading, Taken
  <2> QED
    BY <2>2, <2>4, <2>5, <2>6, <2>8, <2>10 DEF IInv
<1>6. QED
  BY <1>4, <1>5 DEF ResetFiles, Emptied, Goto, Errs

\* A stage of the preparation passes, ends the body or starts the command.
LEMMA PreparationCases ==
    ASSUME NEW s \in Step, Preparation(s)
    PROVE  /\ At(s, "prepare")
           /\ UNCHANGED <<job, ctx, timer, applied, unread, truncated, printed, unended, file, writes, delivered,
                          handled, stopped, refusal, credited>>
           /\ \/ Passes
              \/ errors' \in {errors, errors + 1} /\ \E e \in {"error", "interrupted"} : Fails(s, e)
              \/ Started(s)
<1>1. PICK k \in {"script", "node", "container"}, n \in 1 .. 7 : Stage(s, k, n)
  BY DEF Preparation, setupShell, setupWorkingDirectory, setupShellCommand, CopyScript, RunScript, populateEnvsFromInput,
         maybeCopyToActionDir, runAction, errKubernetesDocker, dockerActionImage, evalDockerEnv, dockerEntrypoint,
         buildImage, pullImage, newStepContainer, attach
<1>2. \/ Evaluates(s) \/ Calls(s) \/ Started(s) \/ NotStarted(s) \/ (Fails(s, "error") /\ UNCHANGED errors)
  BY DEF Preparation, setupShell, setupWorkingDirectory, setupShellCommand, CopyScript, RunScript, populateEnvsFromInput,
         maybeCopyToActionDir, runAction, errKubernetesDocker, dockerActionImage, evalDockerEnv, dockerEntrypoint,
         buildImage, pullImage, newStepContainer, attach
<1>3. Evaluates(s) \/ Calls(s) \/ NotStarted(s) \/ (Fails(s, "error") /\ UNCHANGED errors) =>
        Passes \/ (errors' \in {errors, errors + 1} /\ \E e \in {"error", "interrupted"} : Fails(s, e))
  BY DEF Evaluates, Calls, NotStarted, Errs
<1> QED
  BY <1>1, <1>2, <1>3 DEF Stage


\* The preparation, stage by stage, up to the start of the command.
LEMMA PreparationKeeps ==
    ASSUME IInv, NEW s \in Step, Preparation(s)
    PROVE  IInv'
<1>0. TypeOK /\ Future /\ Output /\ NoEntries /\ Reading
  BY DEF IInv
<1>1. /\ at.n <= Len(Steps) /\ Cur = s /\ at.phase = "prepare"
      /\ UNCHANGED <<job, ctx, timer, applied, unread, truncated, printed, unended, file, writes, delivered,
                     handled, stopped, refusal, credited>>
      /\ \/ Passes
         \/ errors' \in {errors, errors + 1} /\ \E e \in {"error", "interrupted"} : Fails(s, e)
         \/ Started(s)
  BY PreparationCases DEF At
<1>2. at.n \in 1 .. Len(Steps) /\ Steps[at.n] = s /\ at \in Place /\ at.n \in Nat
  BY <1>0, <1>1, Numbering DEF TypeOK, Cur, Place
<1>3. /\ \A m \in DOMAIN Steps : m > at.n => proc[Steps[m]] = "none" /\ reader[Steps[m]] = "none" /\ Steps[m] \notin truncated
      /\ proc[s] = "none" /\ reader[s] = "none" /\ s \notin truncated
  BY <1>0, <1>1, <1>2, Numbering DEF Future
<1>4. applied' = {} /\ (\A f \in File : file'[f] = << >>) /\ \A f \in File : DOMAIN file'[f] = {}
  BY <1>0, <1>1 DEF Reading, NoEntries
<1>5. CASE Passes
  <2>1. at' = [at EXCEPT !.k = at.k + 1] /\ UNCHANGED <<result, errors, proc, reader>>
    BY <1>5 DEF Passes
  <2>2. at'.n = at.n /\ at'.phase = "prepare" /\ at' \in Place
    <3>1. at.k + 1 \in Nat \ {0} /\ at.phase \in Phases
      BY <1>2 DEF Place
    <3>2. at' = [n |-> at.n, phase |-> at.phase, k |-> at.k + 1, reads |-> at.reads] /\ at' \in Place
      BY <1>2, <2>1, <3>1, PlaceMoves
    <3> QED
      BY <1>1, <3>2
  <2>3. Output' /\ Stops' /\ Credits' /\ Remembered' /\ Refusals'
    BY <1>1, <2>1, NoOutputYet
  <2>4. TypeOK'
    BY <1>0, <1>1, <2>1, <2>2 DEF TypeOK
  <2>5. Future' /\ Waiting' /\ Endings' /\ Blame'
    BY <1>0, <1>1, <2>1, <2>2 DEF Future, Waiting, Endings, Blame, Failing, At
  <2>6. FileEntries' /\ NoEntries' /\ Written' /\ Reading'
    BY <1>4, <2>2 DEF FileEntries, NoEntries, Written, Reading
  <2> QED
    BY <2>3, <2>4, <2>5, <2>6 DEF IInv
<1>6. CASE errors' \in {errors, errors + 1} /\ \E e \in {"error", "interrupted"} : Fails(s, e)
  <2>1. PICK e \in {"error", "interrupted"} : /\ result' = [result EXCEPT ![s] = e]
                                              /\ at' = [at EXCEPT !.phase = "take", !.k = 1]
                                              /\ UNCHANGED <<proc, reader>>
    BY <1>6 DEF Fails, Goto
  <2>2. at'.n = at.n /\ at'.phase = "take" /\ at'.k = 1 /\ at' \in Place
    <3>1. 1 \in Nat \ {0} /\ "take" \in Phases
      BY DEF Phases
    <3>2. at' = [n |-> at.n, phase |-> "take", k |-> 1, reads |-> at.reads] /\ at' \in Place
      BY <1>2, <2>1, <3>1, PlaceMoves
    <3> QED
      BY <3>2
  <2>3. Output' /\ Stops' /\ Credits' /\ Remembered' /\ Refusals'
    BY <1>1, <2>1, NoOutputYet
  <2>4. TypeOK'
    <3>1. errors' \in Nat /\ result' \in [Step -> {"none", "success", "error", "interrupted"}]
      BY <1>0, <1>6, <2>1 DEF TypeOK
    <3> QED
      BY <1>0, <1>1, <2>1, <2>2, <3>1 DEF TypeOK
  <2>5. Future' /\ Waiting' /\ Endings'
    BY <1>1, <1>3, <2>1, <2>2 DEF Future, Waiting, Endings, At
  <2>6. Blame'
    <3>1. \A t \in Step : Failing(t)' => t = s
      BY <1>1, <2>2 DEF Failing, Current, Cur
    <3> QED
      BY <1>3, <2>1, <3>1 DEF Blame, Reason
  <2>7. FileEntries' /\ NoEntries' /\ Written' /\ Reading'
    BY <1>4, <2>2 DEF FileEntries, NoEntries, Written, Reading
  <2> QED
    BY <2>3, <2>4, <2>5, <2>6, <2>7 DEF IInv
<1>7. CASE Started(s)
  <2>1. /\ proc' = [proc EXCEPT ![s] = "running"] /\ reader' = [reader EXCEPT ![s] = "copying"]
        /\ at' = [at EXCEPT !.phase = "exec", !.k = 1] /\ UNCHANGED <<result, errors>>
    BY <1>7 DEF Started, Goto
  <2>2. at'.n = at.n /\ at'.phase = "exec" /\ at' \in Place
    <3>1. 1 \in Nat \ {0} /\ "exec" \in Phases
      BY DEF Phases
    <3>2. at' = [n |-> at.n, phase |-> "exec", k |-> 1, reads |-> at.reads] /\ at' \in Place
      BY <1>2, <2>1, <3>1, PlaceMoves
    <3> QED
      BY <3>2
  <2>3. /\ proc' \in [Step -> {"none", "running", "held", "exited", "failed", "killed"}]
        /\ reader' \in [Step -> {"none", "copying", "stray", "gone"}]
        /\ proc'[s] = "running" /\ reader'[s] = "copying"
        /\ \A t \in Step : t # s => proc'[t] = proc[t] /\ reader'[t] = reader[t]
    BY <1>0, <2>1 DEF TypeOK
  <2>4. TypeOK'
    BY <1>0, <1>1, <2>1, <2>2, <2>3 DEF TypeOK
  <2>5. \A t \in Step \ truncated : /\ reader[t] = "none" /\ Len(printed[t]) = 0 /\ t \notin stopped
                                    /\ handled[t] = 0 /\ delivered[t] = 0
    BY <1>1, NothingYet
  <2>6. Output'
    <3> SUFFICES ASSUME NEW t \in Step \ truncated PROVE Copied(t)'
      BY <1>1 DEF Output
    <3>1. CASE t # s
      <4>1. reader'[t] = "none" /\ Len(printed'[t]) = 0 /\ t \notin stopped' /\ handled'[t] = 0 /\ delivered'[t] = 0
        BY <1>1, <2>3, <2>5, <3>1
      <4> QED
        BY <4>1 DEF Copied
    <3>2. CASE t = s
      <4>1. reader'[s] = "copying" /\ Len(printed'[s]) = 0 /\ handled'[s] = 0 /\ delivered'[s] = 0
        BY <1>1, <2>3, <2>5, <3>2
      <4>2. Current(s)'
        BY <1>1, <2>2 DEF Current, Cur
      <4> QED
        BY <2>2, <3>2, <4>1, <4>2 DEF Copied
    <3> QED
      BY <3>1, <3>2
  <2>7. Stops' /\ Credits' /\ Refusals'
    BY <1>1 DEF IInv, Stops, StoppedAt, Credits, Genuine, Acts, Refusals
  <2>8. Remembered'
    BY <1>1, <2>5 DEF Remembered
  <2>9. Future'
    <3>1. \A m \in DOMAIN Steps : m > at.n => Steps[m] # s
      BY <1>2, Numbering
    <3>2. \A m \in DOMAIN Steps : m > at.n => proc'[Steps[m]] = "none" /\ reader'[Steps[m]] = "none" /\ Steps[m] \notin truncated
      BY <1>3, <2>3, <3>1, Numbering
    <3> QED
      BY <1>1, <2>2, <3>2 DEF Future
  <2>10. Waiting' /\ Endings'
    <3>1. \A t \in Step : At(t, "exec")' => t = s
      BY <1>1, <2>2 DEF At, Cur
    <3> QED
      BY <1>1, <1>3, <2>3, <3>1 DEF Waiting, Endings
  <2>11. Blame'
    BY <2>2 DEF Blame, Failing
  <2>12. FileEntries' /\ NoEntries' /\ Written' /\ Reading'
    BY <1>4, <2>2 DEF FileEntries, NoEntries, Written, Reading
  <2> QED
    BY <2>4, <2>6, <2>7, <2>8, <2>9, <2>10, <2>11, <2>12 DEF IInv
<1> QED
  BY <1>1, <1>5, <1>6, <1>7


-----------------------------------------------------------------------------
(* The end of the command.                                                 *)

\* The output of the step that ends: it has come to its end, or it is cut off.
OutputEnds(s) ==
    /\ reader' \in [Step -> {"none", "copying", "stray", "gone"}] /\ reader'[s] # "none"
    /\ \A t \in Step : t # s => reader'[t] = reader[t]
    /\ truncated \subseteq truncated' /\ truncated' \subseteq truncated \cup {s}
    /\ s \notin truncated' => reader'[s] = "gone" /\ handled'[s] = Len(printed[s]) /\ delivered[s] = Len(printed[s])

\* The step's wait is over, however it came to that.
LEMMA ReturnsKeeps ==
    ASSUME IInv, NEW s \in Step, NEW i, NEW e \in {"success", "error", "interrupted"}, At(s, "exec"), Returns(s, e),
           NoHandling \/ NextLine(s, i), errors' \in {errors, errors + 1}, OutputEnds(s),
           e = "error" /\ errors' = 0 /\ truncated' = {} => proc[s] = "failed"
    PROVE  IInv'
<1>0. TypeOK /\ Future /\ Output /\ FileEntries /\ Written /\ Reading
  BY DEF IInv
<1>1. /\ result' = [result EXCEPT ![s] = e] /\ at' = [at EXCEPT !.phase = "take", !.k = 1]
      /\ UNCHANGED <<job, ctx, timer, applied, unread, proc, printed, unended, file, writes, delivered>>
  BY DEF Returns, Goto
<1>2. at.n <= Len(Steps) /\ Cur = s /\ at.phase = "exec" /\ at \in Place
  BY <1>0 DEF At, TypeOK
<1>3. at'.n = at.n /\ at'.phase = "take" /\ at'.k = 1 /\ at' \in Place
  <2>1. 1 \in Nat \ {0} /\ "take" \in Phases
    BY DEF Phases
  <2>2. at' = [n |-> at.n, phase |-> "take", k |-> 1, reads |-> at.reads] /\ at' \in Place
    BY <1>1, <1>2, <2>1, PlaceMoves
  <2> QED
    BY <2>2
<1>4. Turns
  BY <1>2, <1>3 DEF Turns
<1>5. /\ Stops' /\ Credits' /\ Remembered' /\ Refusals'
      /\ stopped' \subseteq Step /\ refusal' \in Step \cup {"none"} /\ handled' \in [Step -> Nat]
      /\ credited' \subseteq Step \X Nat \X Step
  BY <1>1, <1>4, LinesObeyed DEF OutputEnds
<1>6. TypeOK'
  <2>1. errors' \in Nat /\ result' \in [Step -> {"none", "success", "error", "interrupted"}] /\ truncated' \subseteq Step
    BY <1>0, <1>1 DEF TypeOK, OutputEnds
  <2> QED
    BY <1>0, <1>1, <1>3, <1>5, <2>1 DEF TypeOK, OutputEnds
<1>7. Future'
  <2>1. \A m \in DOMAIN Steps : m > at.n => Steps[m] # s
    BY <1>2, Numbering DEF Place, Cur
  <2>2. \A m \in DOMAIN Steps : m > at.n => proc[Steps[m]] = "none" /\ reader[Steps[m]] = "none" /\ Steps[m] \notin truncated
    BY <1>0 DEF Future
  <2> QED
    BY <1>1, <1>3, <2>1, <2>2, Numbering DEF Future, OutputEnds
<1>8. Waiting' /\ Endings'
  BY <1>3 DEF Waiting, Endings, At
<1>9. Output'
  <2> SUFFICES ASSUME NEW t \in Step \ truncated' PROVE Copied(t)'
    BY DEF Output
  <2>1. Copied(t) /\ (t # s => reader'[t] = reader[t])
    BY <1>0 DEF Output, OutputEnds
  <2>2. Current(t)' <=> Current(t)
    BY <1>3 DEF Current, Cur
  <2>3. CASE t # s
    <3>1. handled'[t] = handled[t] /\ (t \in stopped' <=> t \in stopped) /\ reader'[t] = reader[t]
      BY <2>1, <2>3, OthersKept
    <3>2. reader[t] = "none"
      BY <1>2, <2>1, <2>3 DEF Copied, Current
    <3> QED
      BY <1>1, <2>1, <3>1, <3>2 DEF Copied
  <2>4. CASE t = s
    <3>1. reader'[s] = "gone" /\ handled'[s] = Len(printed[s]) /\ delivered[s] = Len(printed[s])
      BY <2>4 DEF OutputEnds
    <3>2. Current(s) /\ Len(printed[s]) \in Nat
      BY <1>0, <1>2, LenProperties DEF Current, TypeOK
    <3>3. Len(printed[s]) <= Len(printed[s])
      BY <3>2
    <3> QED
      BY <1>1, <1>3, <2>2, <2>4, <3>1, <3>2, <3>3 DEF Copied
  <2> QED
    BY <2>3, <2>4
<1>10. Blame'
  <2> SUFFICES ASSUME NEW t \in Step, Failing(t)' PROVE Reason(t)'
    BY DEF Blame
  <2>1. t = s
    BY <1>2, <1>3 DEF Failing, Current, Cur
  <2>2. result'[s] = e
    BY <1>0, <1>1 DEF TypeOK
  <2>3. proc[s] = "failed"
    BY <2>1, <2>2 DEF Failing
  <2> QED
    BY <1>1, <2>1, <2>3 DEF Reason
<1>11. FileEntries' /\ NoEntries' /\ Written'
  BY <1>0, <1>1, <1>2, <1>3 DEF FileEntries, Entered, Current, Cur, NoEntries, Written
<1>12. Reading'
  BY <1>0, <1>1, <1>2, <1>3 DEF Reading
<1> QED
  BY <1>5, <1>6, <1>7, <1>8, <1>9, <1>10, <1>11, <1>12 DEF IInv

\* A step that still waits for its command has lost nothing of its output.
LEMMA WaitsForAll ==
    ASSUME IInv, NEW s \in Step, At(s, "exec")
    PROVE  /\ s \notin truncated /\ reader[s] \in {"copying", "gone"}
           /\ reader[s] = "gone" => handled[s] = Len(printed[s]) /\ delivered[s] = Len(printed[s])
                                    /\ proc[s] \in {"exited", "failed", "killed"}
           /\ proc[s] = "killed" => backend = "host" /\ Interrupted /\ ~Own(s)
<1>1. s \notin truncated /\ reader[s] # "none"
  BY DEF IInv, Waiting
<1>2. Copied(s) /\ handled[s] \in Nat /\ delivered[s] \in Nat /\ Len(printed[s]) \in Nat
  BY <1>1, LenProperties DEF IInv, Output, TypeOK
<1>3. reader[s] \in {"copying", "gone"}
  BY <1>1, <1>2 DEF Copied
<1>4. reader[s] = "gone" => handled[s] = Len(printed[s]) /\ delivered[s] = Len(printed[s])
  BY <1>2 DEF Copied
<1> QED
  BY <1>1, <1>3, <1>4 DEF IInv, Endings

\* An output that was left behind is cut off.
LEMMA LeftBehind ==
    ASSUME IInv, NEW s \in Step, At(s, "exec"), LeavesReader(s), NoHandling
    PROVE  OutputEnds(s) /\ (truncated' = {} => reader[s] = "gone")
<1>0. TypeOK
  BY DEF IInv
<1>1. /\ s \notin truncated /\ reader[s] \in {"copying", "gone"}
      /\ reader[s] = "gone" => handled[s] = Len(printed[s]) /\ delivered[s] = Len(printed[s])
  BY WaitsForAll
<1>2. /\ reader' \in [Step -> {"none", "copying", "stray", "gone"}]
      /\ reader'[s] = IF reader[s] = "gone" THEN "gone" ELSE "stray"
      /\ \A t \in Step : t # s => reader'[t] = reader[t]
  BY <1>0 DEF TypeOK, LeavesReader
<1>3. truncated' = IF reader[s] = "gone" THEN truncated ELSE truncated \cup {s}
  BY DEF LeavesReader
<1> QED
  BY <1>1, <1>2, <1>3 DEF OutputEnds, NoHandling

\* An output that came to its end is whole.
LEMMA EndedBefore ==
    ASSUME IInv, NEW s \in Step, At(s, "exec"), reader[s] = "gone", UNCHANGED <<reader, truncated>>, NoHandling
    PROVE  OutputEnds(s)
<1>1. handled[s] = Len(printed[s]) /\ delivered[s] = Len(printed[s])
  BY WaitsForAll
<1> QED
  BY <1>1 DEF OutputEnds, NoHandling, IInv, TypeOK

\* One that is flushed is whole if all of it had come.
LEMMA EndsFlushed ==
    ASSUME IInv, NEW s \in Step, At(s, "exec"), Flush(s), reader[s] = "copying", reader' = [reader EXCEPT ![s] = "gone"],
           \/ delivered[s] = Len(printed[s]) /\ UNCHANGED truncated
           \/ truncated' = truncated \cup {s}
    PROVE  OutputEnds(s) /\ (NoHandling \/ NextLine(s, delivered[s]))
<1>0. TypeOK
  BY DEF IInv
<1>1. s \notin truncated
  BY WaitsForAll
<1>2. (NoHandling \/ NextLine(s, delivered[s])) /\ handled'[s] = delivered[s]
  BY <1>1, FlushHandles
<1>3. /\ reader' \in [Step -> {"none", "copying", "stray", "gone"}] /\ reader'[s] = "gone"
      /\ \A t \in Step : t # s => reader'[t] = reader[t]
  BY <1>0 DEF TypeOK
<1> QED
  BY <1>1, <1>2, <1>3 DEF OutputEnds

\* In a container: the exit code, or the interruption.
LEMMA DockerExecKeeps ==
    ASSUME IInv, NEW s \in Step, exec(s) \/ waitForCommand(s)
    PROVE  IInv'
<1>1. At(s, "exec") /\ backend = "docker" /\ NoHandling
  BY DEF exec, waitForCommand, InJob
<1>2. errors \in Nat
  BY DEF IInv, TypeOK
<1>3. CASE exec(s)
  <2>1. reader[s] = "gone" /\ UNCHANGED <<reader, truncated>>
    BY <1>3 DEF exec
  <2>2. OutputEnds(s)
    BY <1>1, <2>1, EndedBefore
  <2>3. proc[s] \in {"exited", "failed"}
    BY <1>1, <2>1, WaitsForAll
  <2>4. CASE Returns(s, ExitOf(s)) /\ UNCHANGED errors
    <3>1. ExitOf(s) \in {"success", "error", "interrupted"} /\ (ExitOf(s) = "error" => proc[s] = "failed")
      BY <2>3 DEF ExitOf
    <3> QED
      BY <1>1, <2>2, <2>4, <3>1, ReturnsKeeps
  <2>5. CASE Returns(s, "error") /\ Errs
    <3>1. errors' = errors + 1 /\ errors' # 0
      BY <1>2, <2>5 DEF Errs
    <3> QED
      BY <1>1, <2>2, <2>5, <3>1, ReturnsKeeps
  <2> QED
    BY <1>3, <2>4, <2>5 DEF exec
<1>4. CASE waitForCommand(s)
  <2>1. Returns(s, "interrupted") /\ LeavesReader(s) /\ UNCHANGED errors
    BY <1>4 DEF waitForCommand
  <2>2. OutputEnds(s)
    BY <1>1, <2>1, LeftBehind
  <2> QED
    BY <1>1, <2>1, <2>2, ReturnsKeeps
<1> QED
  BY <1>3, <1>4

\* The container of a step: its exit, or the interruption.
LEMMA waitKeeps ==
    ASSUME IInv, NEW s \in Step, wait(s)
    PROVE  IInv'
<1>1. At(s, "exec") /\ NoHandling
  BY DEF wait
<1>2. errors \in Nat
  BY DEF IInv, TypeOK
<1>3. ASSUME proc[s] \in {"exited", "failed"}
      PROVE  ExitOf(s) \in {"success", "error", "interrupted"} /\ (ExitOf(s) = "error" => proc[s] = "failed")
  BY <1>3 DEF ExitOf
<1>4. CASE /\ proc[s] \in {"exited", "failed"} /\ reader[s] = "gone" /\ Returns(s, ExitOf(s))
           /\ UNCHANGED <<errors, reader, truncated>>
  <2>1. OutputEnds(s)
    BY <1>1, <1>4, EndedBefore
  <2> QED
    BY <1>1, <1>3, <1>4, <2>1, ReturnsKeeps
<1>5. CASE proc[s] \in {"exited", "failed"} /\ Returns(s, ExitOf(s)) /\ Errs /\ LeavesReader(s)
  <2>1. OutputEnds(s)
    BY <1>1, <1>5, LeftBehind
  <2>2. errors' = errors + 1 /\ errors' # 0
    BY <1>2, <1>5 DEF Errs
  <2> QED
    BY <1>1, <1>3, <1>5, <2>1, <2>2, ReturnsKeeps
<1>6. CASE Returns(s, "interrupted") /\ UNCHANGED errors /\ LeavesReader(s)
  <2>1. OutputEnds(s)
    BY <1>1, <1>6, LeftBehind
  <2> QED
    BY <1>1, <1>6, <2>1, ReturnsKeeps
<1> QED
  BY <1>4, <1>5, <1>6 DEF wait, attachDone

\* On the host: the end of the output, or what has come of it if a process the
\* command left behind holds it open.
LEMMA HostExecKeeps ==
    ASSUME IInv, NEW s \in Step, HostExec(s)
    PROVE  IInv'
<1>1. At(s, "exec") /\ UNCHANGED <<errors, truncated>>
  BY DEF HostExec, InJob
<1> DEFINE e == IF Interrupted /\ proc[s] # "exited" THEN "interrupted" ELSE ExitOf(s)
<1>2. CASE reader[s] = "gone" /\ UNCHANGED reader /\ NoHandling /\ Returns(s, e)
  <2>1. OutputEnds(s)
    BY <1>1, <1>2, EndedBefore
  <2>2. proc[s] \in {"exited", "failed", "killed"} /\ (proc[s] = "killed" => Interrupted)
    BY <1>1, <1>2, WaitsForAll
  <2>3. e \in {"success", "error", "interrupted"} /\ (e = "error" => proc[s] = "failed")
    BY <2>2 DEF ExitOf
  <2> HIDE DEF e
  <2> QED
    BY <1>1, <1>2, <2>1, <2>3, ReturnsKeeps
<1>3. CASE /\ reader[s] = "copying" /\ delivered[s] = Len(printed[s]) /\ Flush(s)
           /\ reader' = [reader EXCEPT ![s] = "gone"] /\ Returns(s, "success")
  <2>1. OutputEnds(s) /\ (NoHandling \/ NextLine(s, delivered[s]))
    BY <1>1, <1>3, EndsFlushed
  <2> QED
    BY <1>1, <1>3, <2>1, ReturnsKeeps
<1> QED
  BY <1>2, <1>3 DEF HostExec

\* In a pod: the exit status, or the end of the context or of the connection.
LEMMA PodExecKeeps ==
    ASSUME IInv, NEW s \in Step, PodExec(s)
    PROVE  IInv'
<1>1. At(s, "exec") /\ backend = "pod" /\ reader[s] = "copying" /\ Flush(s) /\ reader' = [reader EXCEPT ![s] = "gone"]
  BY DEF PodExec, InJob
<1>2. errors \in Nat
  BY DEF IInv, TypeOK
<1>3. CASE AtEOF(s) /\ Returns(s, ExitOf(s)) /\ UNCHANGED <<errors, truncated>>
  <2>1. OutputEnds(s) /\ (NoHandling \/ NextLine(s, delivered[s]))
    BY <1>1, <1>3, EndsFlushed DEF AtEOF
  <2>2. proc[s] \in {"exited", "failed"}
    BY <1>1, <1>3, WaitsForAll DEF AtEOF
  <2>3. ExitOf(s) \in {"success", "error", "interrupted"} /\ (ExitOf(s) = "error" => proc[s] = "failed")
    BY <2>2 DEF ExitOf
  <2> QED
    BY <1>1, <1>3, <2>1, <2>3, ReturnsKeeps
<1>4. ASSUME NEW e \in {"error", "interrupted"}, Returns(s, e), errors' \in {errors, errors + 1}, truncated' = truncated \cup {s}
      PROVE  IInv'
  <2>1. OutputEnds(s) /\ (NoHandling \/ NextLine(s, delivered[s]))
    BY <1>1, <1>4, EndsFlushed
  <2>2. truncated' # {}
    BY <1>4
  <2> QED
    BY <1>1, <1>4, <2>1, <2>2, ReturnsKeeps
<1> QED
  BY <1>3, <1>4 DEF PodExec, Errs


-----------------------------------------------------------------------------
(* After the command.                                                      *)

\* Only the output of the current step can be other than empty or cut off.
LEMMA OnlyCurrent ==
    ASSUME IInv, NEW t \in Step \ truncated, ~Current(t)
    PROVE  reader[t] = "none" /\ Len(printed[t]) = 0 /\ t \notin stopped /\ handled[t] = 0 /\ delivered[t] = 0
<1>1. Copied(t) /\ handled[t] \in Nat /\ delivered[t] \in Nat
  BY DEF IInv, Output, TypeOK
<1>2. reader[t] = "none"
  BY <1>1 DEF Copied
<1>3. Len(printed[t]) = 0 /\ t \notin stopped /\ handled[t] <= delivered[t] /\ delivered[t] <= 0
  BY <1>1, <1>2 DEF Copied
<1> QED
  BY <1>1, <1>2, <1>3

\* The output once the step has done with it.
LEMMA OutputOver ==
    ASSUME IInv, at.n <= Len(Steps), at.phase \in {"take", "files"}, at'.n = at.n, at'.phase \in {"files", "clear"},
           UNCHANGED <<proc, printed, unended, truncated, reader, delivered, handled, stopped, credited>>
    PROVE  Future' /\ Waiting' /\ Output' /\ Stops' /\ Credits' /\ Endings'
<1>1. Future' /\ Waiting' /\ Endings'
  BY DEF IInv, Future, Waiting, Endings, At
<1>2. Output'
  <2> SUFFICES ASSUME NEW t \in Step \ truncated PROVE Copied(t)'
    BY DEF Output
  <2>1. Copied(t)
    BY DEF IInv, Output
  <2> QED
    BY <2>1 DEF Copied, Current, Cur
<1>3. Stops' /\ Credits'
  BY DEF IInv, Stops, StoppedAt, Credits, Genuine, Acts
<1> QED
  BY <1>1, <1>2, <1>3

\* A refused command fails its step.
LEMMA TakeKeeps ==
    ASSUME IInv, NEW s \in Step, takeUnsecureCommandError(s)
    PROVE  IInv'
<1>0. TypeOK /\ Remembered /\ Refusals /\ Blame /\ FileEntries /\ Written /\ Reading
  BY DEF IInv
<1>1. /\ at.n <= Len(Steps) /\ Cur = s /\ at.phase = "take" /\ at' = [at EXCEPT !.phase = "files", !.reads = ReadsUnder]
      /\ result' = [result EXCEPT ![s] = IF result[s] = "success" /\ refusal # "none" THEN "error" ELSE result[s]]
      /\ refusal' = "none"
      /\ UNCHANGED <<job, ctx, timer, bookVars, processVars, reader, delivered, handled, stopped, credited>>
  BY DEF takeUnsecureCommandError, At
<1>2. at'.n = at.n /\ at'.phase = "files" /\ at'.reads = ReadsUnder /\ at'.k = 1 /\ at' \in Place
  <2>1. "files" \in Phases /\ ReadsUnder \in {"step", "own"} /\ at \in Place
    BY <1>0 DEF Phases, ReadsUnder, TypeOK
  <2>2. at' = [n |-> at.n, phase |-> "files", k |-> at.k, reads |-> ReadsUnder] /\ at' \in Place
    BY <1>1, <2>1, PlaceReads
  <2> QED
    BY <1>0, <1>1, <2>2 DEF TypeOK
<1>3. Future' /\ Waiting' /\ Output' /\ Stops' /\ Credits' /\ Endings'
  BY <1>1, <1>2, OutputOver DEF processVars, bookVars
<1>4. /\ result' \in [Step -> {"none", "success", "error", "interrupted"}]
      /\ result'[s] = IF result[s] = "success" /\ refusal # "none" THEN "error" ELSE result[s]
  BY <1>0, <1>1 DEF TypeOK
<1>5. TypeOK'
  <2>1. 1 <= Len(Files)
    BY Numbering
  <2> QED
    BY <1>0, <1>1, <1>2, <1>4, <2>1 DEF TypeOK, processVars, bookVars
<1>6. Remembered'
  <2> SUFFICES ASSUME NEW t \in Step \ truncated, NEW i \in 1 .. handled[t], Acts(t, i, "setenv"), ~Allow
               PROVE  result'[t] # "success"
    BY <1>1, <1>2 DEF Remembered, Acts, StoppedAt, processVars, bookVars
  <2>1. refusal # "none"
    BY <1>0, <1>1 DEF Remembered
  <2>2. t = s
    <3>1. handled[t] # 0
      OBVIOUS
    <3> QED
      BY <1>1, <3>1, OnlyCurrent DEF Current
  <2> QED
    BY <1>4, <2>1, <2>2
<1>7. Refusals'
  BY <1>1 DEF Refusals
<1>8. Blame'
  <2> SUFFICES ASSUME NEW t \in Step, Failing(t)' PROVE Reason(t)'
    BY DEF Blame
  <2>1. t = s /\ result'[s] = "error" /\ errors = 0 /\ truncated = {}
    BY <1>1, <1>2 DEF Failing, Current, Cur, bookVars
  <2>2. Reason(s)
    <3>1. CASE result[s] = "error"
      <4>1. Failing(s)
        BY <1>1, <2>1, <3>1 DEF Failing, Current
      <4> QED
        BY <1>0, <4>1 DEF Blame
    <3>2. CASE refusal # "none"
      BY <1>0, <1>1, <2>1, <3>2 DEF Refusals, Reason
    <3> QED
      BY <1>4, <2>1, <3>1, <3>2
  <2> QED
    BY <1>1, <2>1, <2>2 DEF Reason, HasSetenv, processVars, bookVars
<1>9. FileEntries' /\ NoEntries' /\ Written'
  BY <1>0, <1>1, <1>2 DEF FileEntries, Entered, Current, Cur, NoEntries, Written, processVars
<1>10. Reading'
  <2>1. Readable'
    BY <1>0, <1>1, <1>2 DEF Readable, ReadsUnder, Reached, backend, TypeOK
  <2>2. applied' = {} /\ \A j \in 1 .. 1 - 1 : FALSE
    BY <1>0, <1>1 DEF Reading, bookVars
  <2> QED
    BY <1>2, <2>1, <2>2 DEF Reading
<1> QED
  BY <1>3, <1>5, <1>6, <1>7, <1>8, <1>9, <1>10 DEF IInv

\* A command file is read, in part or not at all.
LEMMA ReadFileKeeps ==
    ASSUME IInv, NEW s \in Step, ReadFile(s)
    PROVE  IInv'
<1>0. TypeOK /\ Remembered /\ Refusals /\ Blame /\ FileEntries /\ Written /\ Reading
  BY DEF IInv
<1>1. /\ at.n <= Len(Steps) /\ Cur = s /\ at.phase = "files"
      /\ UNCHANGED <<job, ctx, timer, truncated, processVars, outputVars>>
  BY DEF ReadFile, At
<1>2. PICK f : f = Files[at.k]
  OBVIOUS
<1>3. \/ /\ Readable
         /\ applied' = applied \cup {file[f][i] : i \in Entries(f)}
         /\ IF Entries(f) = DOMAIN file[f] THEN UNCHANGED result ELSE Failed(s)
         /\ UNCHANGED <<errors, unread>>
      \/ /\ IF Readable THEN Errs ELSE UNCHANGED errors
         /\ unread' = unread \cup IF Readable THEN {<<s, f>>} ELSE {}
         /\ IF f = "path" THEN Failed(s) ELSE UNCHANGED result
         /\ UNCHANGED applied
      \/ /\ Readable /\ Errs /\ unread' = unread \cup {<<s, f>>} /\ Failed(s)
         /\ \E n \in DOMAIN file[f] : applied' = applied \cup {file[f][i] : i \in Entries(f) \cap (1 .. n - 1)}
  BY <1>2 DEF ReadFile
<1>4. /\ at.k \in Nat \ {0} /\ at.k <= Len(Files) /\ at \in Place /\ at.n \in 1 .. Len(Steps) /\ at.n \in Nat
      /\ f \in File
  BY <1>0, <1>1, <1>2, Numbering DEF TypeOK, Place
<1>5. /\ at'.n = at.n /\ at'.reads = at.reads /\ at' \in Place
      /\ \/ at.k < Len(Files) /\ at'.phase = "files" /\ at'.k = at.k + 1
         \/ at.k = Len(Files) /\ at'.phase = "clear"
  <2>1. CASE at.k < Len(Files)
    <3>1. at' = [at EXCEPT !.k = at.k + 1]
      BY <2>1 DEF ReadFile
    <3>2. at.k + 1 \in Nat \ {0} /\ at.phase \in Phases
      BY <1>4 DEF Place
    <3>3. at' = [n |-> at.n, phase |-> at.phase, k |-> at.k + 1, reads |-> at.reads] /\ at' \in Place
      BY <1>4, <3>1, <3>2, PlaceMoves
    <3> QED
      BY <1>1, <2>1, <3>3
  <2>2. CASE ~(at.k < Len(Files))
    <3>1. at' = [at EXCEPT !.phase = "clear", !.k = 1] /\ at.k = Len(Files)
      BY <1>4, <2>2, Numbering DEF ReadFile, Goto
    <3>2. 1 \in Nat \ {0} /\ "clear" \in Phases
      BY DEF Phases
    <3>3. at' = [n |-> at.n, phase |-> "clear", k |-> 1, reads |-> at.reads] /\ at' \in Place
      BY <1>4, <3>1, <3>2, PlaceMoves
    <3> QED
      BY <3>1, <3>3
  <2> QED
    BY <2>1, <2>2
<1>6. Future' /\ Waiting' /\ Output' /\ Stops' /\ Credits' /\ Endings'
  <2>1. at'.phase \in {"files", "clear"}
    BY <1>5
  <2> QED
    BY <1>1, <1>5, <2>1, OutputOver DEF processVars, outputVars
<1>7. /\ result' \in [Step -> {"none", "success", "error", "interrupted"}]
      /\ \A t \in Step : result[t] # "success" => result'[t] = result[t]
      /\ \A t \in Step : result'[t] # "success" \/ result'[t] = result[t]
      /\ result' = result \/ Failed(s)
  <2>1. result' = result \/ Failed(s)
    BY <1>3
  <2>2. CASE result' = result
    BY <1>0, <2>2 DEF TypeOK
  <2>3. CASE Failed(s)
    BY <1>0, <2>3 DEF TypeOK, Failed
  <2> QED
    BY <2>1, <2>2, <2>3
<1>8. /\ applied \subseteq applied' /\ \A e \in applied' \ applied : \E i \in DOMAIN file[f] : e = file[f][i]
      /\ unread \subseteq unread' /\ unread' \subseteq unread \cup {<<s, f>>}
      /\ errors' \in {errors, errors + 1}
  <2>1. Entries(f) \subseteq DOMAIN file[f]
    BY DEF Entries
  <2>2. errors' \in {errors, errors + 1} /\ unread \subseteq unread' /\ unread' \subseteq unread \cup {<<s, f>>}
    BY <1>3 DEF Errs
  <2>3. \/ applied' = applied
        \/ \E S \in SUBSET Entries(f) : applied' = applied \cup {file[f][i] : i \in S}
    <3>1. Entries(f) \in SUBSET Entries(f) /\ \A n : Entries(f) \cap (1 .. n - 1) \in SUBSET Entries(f)
      OBVIOUS
    <3> QED
      BY <1>3, <3>1
  <2> QED
    BY <2>1, <2>2, <2>3
<1>9. TypeOK'
  <2>1. \A i \in DOMAIN file[f] : file[f][i] \in Entry
    BY <1>0, <1>4, ElementOfSeq DEF TypeOK
  <2>2. applied' \subseteq Entry
    <3>1. applied \subseteq Entry
      BY <1>0 DEF TypeOK
    <3>2. ASSUME NEW e \in applied', e \notin applied PROVE e \in Entry
      BY <1>8, <2>1, <3>2
    <3> QED
      BY <3>1, <3>2
  <2>3. unread' \subseteq Step \X File /\ errors' \in Nat
    BY <1>0, <1>4, <1>8 DEF TypeOK
  <2>4. (at'.phase = "files" => at'.k <= Len(Files)) /\ at'.phase # "take"
    BY <1>4, <1>5, Numbering
  <2> QED
    BY <1>0, <1>1, <1>5, <1>7, <2>2, <2>3, <2>4 DEF TypeOK, processVars, outputVars
<1>10. Remembered'
  <2> SUFFICES ASSUME NEW t \in Step \ truncated, NEW i \in 1 .. handled[t], Acts(t, i, "setenv"), ~Allow
               PROVE  result'[t] # "success"
    BY <1>1, <1>5 DEF Remembered, Acts, StoppedAt, processVars, outputVars
  <2>1. result[t] # "success"
    BY <1>0, <1>1 DEF Remembered
  <2> QED
    BY <1>7, <2>1
<1>11. Refusals'
  <2>1. ~(refusal # "none" /\ truncated = {})
    BY <1>0, <1>1 DEF Refusals
  <2> QED
    BY <1>1, <2>1 DEF Refusals, outputVars
<1>12. Blame'
  <2> SUFFICES ASSUME NEW t \in Step, Failing(t)' PROVE Reason(t)'
    BY DEF Blame
  <2>1. t = s /\ result'[s] = "error" /\ errors' = 0 /\ truncated = {}
    BY <1>1, <1>5 DEF Failing, Current, Cur
  <2>2. errors = 0 /\ ~Errs
    BY <1>0, <1>8, <2>1 DEF TypeOK, Errs
  <2>3. CASE result[s] = "error"
    <3>1. Failing(s)
      BY <1>1, <2>1, <2>2, <2>3 DEF Failing, Current
    <3>2. Reason(s)
      BY <1>0, <3>1 DEF Blame
    <3> QED
      BY <1>1, <1>8, <2>1, <3>2 DEF Reason, HasSetenv, processVars
  <2>4. CASE result[s] # "error"
    <3>1. result' # result
      BY <2>1, <2>4
    <3>2. CASE Entries(f) # DOMAIN file[f]
      <4>1. file[f] # << >>
        <5>1. file[f] = << >> => DOMAIN file[f] = {}
          OBVIOUS
        <5> QED
          BY <3>2, <5>1 DEF Entries
      <4>2. \E u \in Step : writes[u] > 0
        BY <1>0, <1>1, <1>4, <4>1 DEF Written
      <4> QED
        BY <1>1, <4>2 DEF Reason, processVars
    <3>3. CASE ~Readable
      <4>1. <<s, f>> \in unread
        BY <1>0, <1>1, <1>4, <3>3 DEF Reading
      <4>2. <<s, f>> \in unread'
        BY <1>8, <4>1
      <4> QED
        BY <1>4, <2>1, <4>2 DEF Reason
    <3> QED
      BY <1>3, <2>2, <3>1, <3>2, <3>3
  <2> QED
    BY <2>3, <2>4
<1>13. \A g \in File : \A i \in DOMAIN file[g] : file[g][i].own => file[g][i].by = s
  BY <1>0, <1>1 DEF FileEntries, Entered, Current
<1>14. FileEntries' /\ NoEntries' /\ Written'
  <2>1. file' = file /\ writes' = writes /\ Cur' = s /\ at'.n <= Len(Steps)
    BY <1>1, <1>5 DEF processVars, Cur
  <2>2. at.n \in DOMAIN Steps /\ Steps[at.n] = s /\ at.n <= at.n
    BY <1>1, <1>4, Numbering DEF Cur
  <2>3. FileEntries'
    BY <1>5, <1>13, <2>1, <2>2 DEF FileEntries, Entered, Current
  <2>4. NoEntries' /\ Written'
    BY <1>0, <1>1, <1>5, <2>1 DEF NoEntries, Written
  <2> QED
    BY <2>3, <2>4
<1>15. Reading'
  <2>1. Cur' = s /\ file' = file
    BY <1>1, <1>5 DEF Cur, processVars
  <2>2. \A g \in File : Taken(s, g) => Taken(s, g)'
    BY <1>8, <2>1 DEF Taken, Entries
  <2>3. Taken(s, f)'
    <3>1. CASE <<s, f>> \in unread'
      BY <3>1 DEF Taken
    <3>2. CASE applied' = applied \cup {file[f][i] : i \in Entries(f)}
      BY <2>1, <3>2 DEF Taken, Entries
    <3>3. CASE ~Readable
      <4>1. <<s, f>> \in unread
        BY <1>0, <1>1, <1>4, <3>3 DEF Reading
      <4> QED
        BY <1>8, <3>1, <4>1
    <3> QED
      BY <1>3, <3>1, <3>2, <3>3
  <2>4. \A e \in applied' : e.own => e.by = s
    BY <1>0, <1>1, <1>4, <1>8, <1>13 DEF Reading
  <2>5. \A j \in 1 .. at.k : Files[j] \in File /\ Taken(s, Files[j])'
    <3> TAKE j \in 1 .. at.k
    <3>1. Files[j] \in File
      BY <1>4, Numbering
    <3>2. CASE j = at.k
      BY <1>2, <2>3, <3>1, <3>2
    <3>3. CASE j # at.k
      <4>1. j \in 1 .. at.k - 1
        BY <1>4, <3>3
      <4>2. Taken(s, Files[j])
        BY <1>0, <1>1, <4>1 DEF Reading
      <4> QED
        BY <2>2, <3>1, <4>2
    <3> QED
      BY <3>2, <3>3
  <2>6. ~Readable' => {s} \X File \subseteq unread'
    <3>1. Readable' <=> Readable
      BY <1>1, <1>5 DEF Readable, Reached, backend
    <3> QED
      BY <1>0, <1>1, <1>8, <3>1 DEF Reading
  <2>7. CASE at'.phase = "files" /\ at'.k = at.k + 1
    <3>1. at'.k - 1 = at.k
      BY <1>4, <2>7
    <3>2. \A j \in 1 .. at'.k - 1 : Taken(Cur, Files[j])'
      BY <2>1, <2>5, <3>1 DEF Taken
    <3> QED
      BY <2>1, <2>4, <2>6, <2>7, <3>2 DEF Reading
  <2>8. CASE at'.phase = "clear" /\ at.k = Len(Files)
    <3>1. \A g \in File : Taken(s, g)'
      BY <2>5, <2>8, Numbering
    <3> QED
      BY <2>1, <2>4, <2>8, <3>1 DEF Reading, Taken
  <2> QED
    BY <1>5, <2>7, <2>8
<1> QED
  BY <1>6, <1>9, <1>10, <1>11, <1>12, <1>14, <1>15 DEF IInv


\* The next step: what can no longer matter is forgotten.
LEMMA NextStepKeeps ==
    ASSUME IInv, NEW s \in Step, NextStep(s)
    PROVE  IInv'
<1>0. TypeOK /\ Future /\ Output /\ Stops /\ Refusals /\ FileEntries
  BY DEF IInv
<1>1. /\ at.n <= Len(Steps) /\ Cur = s /\ at.phase = "clear"
      /\ \/ Emptied /\ UNCHANGED errors
         \/ UNCHANGED file /\ (Errs \/ UNCHANGED errors)
      /\ at' = [n |-> at.n + 1, phase |-> "reset", k |-> 1, reads |-> "step"]
      /\ ctx' = "live" /\ timer' = "off" /\ credited' = {} /\ applied' = {} /\ unread' = {}
      /\ UNCHANGED <<job, truncated, refusal>>
  BY DEF NextStep, At
<1>2. /\ proc' = [proc EXCEPT ![s] = IF Left(s) THEN "running" ELSE "none"]
      /\ \E w : writes' = [writes EXCEPT ![s] = w] /\ w \in {0, writes[s] + Len(printed[s]), writes[s] + delivered[s]}
      /\ delivered' = [delivered EXCEPT ![s] = 0] /\ handled' = [handled EXCEPT ![s] = 0]
      /\ result' = [result EXCEPT ![s] = "none"]
      /\ unended' \subseteq unended /\ stopped' \subseteq stopped /\ stopped \ {s} \subseteq stopped'
      /\ unended \ {s} \subseteq unended'
  BY DEF NextStep
<1>3. \/ /\ Gone(s) /\ printed' = [printed EXCEPT ![s] = << >>] /\ reader' = [reader EXCEPT ![s] = "none"]
         /\ stopped' = stopped \ {s}
      \/ /\ ~Gone(s) /\ printed' = [printed EXCEPT ![s] = SubSeq(printed[s], delivered[s] + 1, Len(printed[s]))]
         /\ reader' = reader
  BY DEF NextStep
<1>4. at.n \in Nat \ {0} /\ at.n + 1 \in Nat \ {0} /\ at.n \in 1 .. Len(Steps) /\ Steps[at.n] = s
  BY <1>0, <1>1, Numbering DEF TypeOK, Place, Cur
<1>5. at'.n = at.n + 1 /\ at'.phase = "reset" /\ at' \in Place /\ at'.n <= Len(Steps) + 1
  BY <1>1, <1>4, Numbering DEF Place, Phases
<1>6. printed[s] \in Seq(Lines) /\ delivered[s] \in Nat /\ writes[s] \in Nat /\ Len(printed[s]) \in Nat
  BY <1>0, LenProperties DEF TypeOK
<1>7. TypeOK'
  <2>1. \E p \in Seq(Lines) : printed' = [printed EXCEPT ![s] = p]
    <3>1. << >> \in Seq(Lines) /\ SubSeq(printed[s], delivered[s] + 1, Len(printed[s])) \in Seq(Lines)
      <4>1. \A j \in delivered[s] + 1 .. Len(printed[s]) : j \in 1 .. Len(printed[s])
        BY <1>6
      <4> QED
        BY <1>6, <4>1, EmptySeq, SubSeqProperties
    <3> QED
      BY <1>3, <3>1
  <2>2. printed' \in [Step -> Seq(Lines)]
    BY <1>0, <2>1 DEF TypeOK
  <2>3. writes' \in [Step -> Nat]
    <3>1. PICK w : writes' = [writes EXCEPT ![s] = w] /\ w \in {0, writes[s] + Len(printed[s]), writes[s] + delivered[s]}
      BY <1>2
    <3>2. w \in Nat
      BY <1>6, <3>1
    <3> QED
      BY <1>0, <3>1, <3>2 DEF TypeOK
  <2>4. file' \in [File -> Seq(Entry)] /\ errors' \in Nat
    <3>1. << >> \in Seq(Entry) /\ file \in [File -> Seq(Entry)] /\ errors \in Nat
      BY <1>0, EmptySeq DEF TypeOK
    <3>2. errors' \in Nat
      BY <1>1, <3>1 DEF Errs
    <3>3. Emptied => file' \in [File -> Seq(Entry)]
      BY <3>1 DEF Emptied
    <3> QED
      BY <1>1, <3>1, <3>2, <3>3
  <2>5. /\ result' \in [Step -> {"none", "success", "error", "interrupted"}]
        /\ proc' \in [Step -> {"none", "running", "held", "exited", "failed", "killed"}]
        /\ reader' \in [Step -> {"none", "copying", "stray", "gone"}]
        /\ delivered' \in [Step -> Nat] /\ handled' \in [Step -> Nat]
        /\ unended' \subseteq Step /\ stopped' \subseteq Step
    BY <1>0, <1>2, <1>3 DEF TypeOK
  <2> QED
    BY <1>0, <1>1, <1>5, <2>2, <2>3, <2>4, <2>5 DEF TypeOK
<1>8. \A t \in Step : t # s => /\ proc'[t] = proc[t] /\ reader'[t] = reader[t] /\ printed'[t] = printed[t]
                               /\ delivered'[t] = delivered[t] /\ handled'[t] = handled[t]
                               /\ (t \in stopped' <=> t \in stopped)
  BY <1>0, <1>2, <1>3 DEF TypeOK
<1>9. s \notin truncated => reader'[s] = "none" /\ printed'[s] = << >> /\ s \notin stopped'
  <2>1. s \notin truncated => Gone(s)
    BY <1>0 DEF Output, Copied, Gone
  <2> QED
    BY <1>0, <1>3, <2>1 DEF TypeOK
<1>10. delivered'[s] = 0 /\ handled'[s] = 0
  BY <1>0, <1>2 DEF TypeOK
<1>11. \A t \in Step \ truncated : /\ reader'[t] = "none" /\ Len(printed'[t]) = 0 /\ t \notin stopped'
                                   /\ handled'[t] = 0 /\ delivered'[t] = 0
  <2> TAKE t \in Step \ truncated
  <2>1. CASE t = s
    <3>1. reader'[s] = "none" /\ printed'[s] = << >> /\ s \notin stopped'
      BY <1>9, <2>1
    <3>2. Len(printed'[s]) = 0
      BY <3>1
    <3> QED
      BY <1>10, <2>1, <3>1, <3>2
  <2>2. CASE t # s
    <3>1. ~Current(t)
      BY <1>1, <2>2 DEF Current
    <3>2. reader[t] = "none" /\ Len(printed[t]) = 0 /\ t \notin stopped /\ handled[t] = 0 /\ delivered[t] = 0
      BY <3>1, OnlyCurrent
    <3> QED
      BY <1>8, <2>2, <3>2
  <2> QED
    BY <2>1, <2>2
<1>12. Output'
  <2> SUFFICES ASSUME NEW t \in Step \ truncated PROVE Copied(t)'
    BY <1>1 DEF Output
  <2>1. reader'[t] = "none" /\ Len(printed'[t]) = 0 /\ t \notin stopped' /\ handled'[t] = 0 /\ delivered'[t] = 0
    BY <1>11
  <2> QED
    BY <2>1 DEF Copied
<1>13. Stops'
  <2> SUFFICES ASSUME NEW t \in Step \ truncated PROVE t \in stopped' <=> StoppedAt(t, handled[t] + 1)'
    BY <1>1 DEF Stops
  <2>1. t \notin stopped' /\ handled'[t] = 0
    BY <1>11
  <2>2. \A j \in 1 .. 0 + 1 - 1 : FALSE
    OBVIOUS
  <2> QED
    BY <2>1, <2>2 DEF StoppedAt
<1>14. Credits' /\ Remembered'
  <2>1. \A t \in Step \ truncated : \A i \in 1 .. handled'[t] : FALSE
    BY <1>11
  <2> QED
    BY <1>1, <2>1 DEF Credits, Remembered
<1>15. Refusals'
  <2>1. ~(refusal # "none" /\ truncated = {})
    BY <1>0, <1>1 DEF Refusals
  <2> QED
    BY <1>1, <2>1 DEF Refusals
<1>16. Waiting' /\ Endings' /\ Blame' /\ NoEntries' /\ Written'
  BY <1>5 DEF Waiting, Endings, Blame, Failing, At, NoEntries, Written
<1>17. Future'
  <2>1. \A m \in DOMAIN Steps : m > at'.n \/ m = at'.n => m > at.n /\ Steps[m] # s /\ Steps[m] \in Step
    BY <1>4, <1>5, Numbering
  <2>2. \A m \in DOMAIN Steps : m > at.n => proc[Steps[m]] = "none" /\ reader[Steps[m]] = "none" /\ Steps[m] \notin truncated
    BY <1>0 DEF Future
  <2> QED
    BY <1>1, <1>8, <2>1, <2>2 DEF Future
<1>18. FileEntries'
  <2>1. CASE UNCHANGED file
    <3>1. \A m \in DOMAIN Steps : m <= at.n => m < at'.n
      BY <1>4, <1>5, Numbering
    <3>2. \A f \in File : \A i \in DOMAIN file[f] : file[f][i].own => \E m \in DOMAIN Steps : m <= at.n /\ Steps[m] = file[f][i].by
      BY <1>0, <1>1 DEF FileEntries, Entered
    <3> QED
      BY <1>5, <2>1, <3>1, <3>2 DEF FileEntries, Entered
  <2>2. CASE Emptied
    <3>1. \A f \in File : file'[f] = << >> /\ DOMAIN file'[f] = {}
      BY <2>2 DEF Emptied
    <3> QED
      BY <3>1 DEF FileEntries
  <2> QED
    BY <1>1, <2>1, <2>2
<1>19. Reading'
  BY <1>1, <1>5 DEF Reading
<1> QED
  BY <1>7, <1>12, <1>13, <1>14, <1>15, <1>16, <1>17, <1>18, <1>19 DEF IInv

-----------------------------------------------------------------------------
(* The theorems.                                                           *)

\* The invariant holds before the first step.
LEMMA InitHolds == Init => IInv
<1> SUFFICES ASSUME Init PROVE IInv
  OBVIOUS
<1>1. /\ at = [n |-> 1, phase |-> "reset", k |-> 1, reads |-> "step"] /\ at.n = 1 /\ at.phase = "reset" /\ at \in Place
  BY DEF Init, Place, Phases
<1>2. << >> \in Seq(Lines) /\ << >> \in Seq(Entry)
  BY EmptySeq
<1>3. TypeOK
  <2>1. 1 <= Len(Steps) + 1
    BY Numbering
  <2> QED
    BY <1>1, <1>2, <2>1 DEF Init, TypeOK
<1>4. \A s \in Step : reader[s] = "none" /\ proc[s] = "none" /\ Len(printed[s]) = 0 /\ handled[s] = 0 /\ delivered[s] = 0
  <2>1. \A s \in Step : printed[s] = << >>
    BY DEF Init
  <2> QED
    BY <2>1 DEF Init
<1>5. Future /\ Waiting /\ Output /\ Endings /\ Blame /\ Refusals
  BY <1>1, <1>4, Numbering DEF Init, Future, Waiting, At, Output, Copied, Endings, Blame, Failing, Refusals
<1>6. Stops /\ Credits /\ Remembered
  <2>1. \A s \in Step : \A j \in 1 .. handled[s] + 1 - 1 : FALSE
    BY <1>4
  <2>2. \A s \in Step : \A j \in 1 .. handled[s] : FALSE
    BY <1>4
  <2> QED
    BY <2>1, <2>2 DEF Init, Stops, StoppedAt, Credits, Remembered
<1>7. FileEntries /\ NoEntries /\ Written /\ Reading
  <2>1. \A f \in File : DOMAIN file[f] = {}
    BY DEF Init
  <2> QED
    BY <1>1, <2>1 DEF Init, FileEntries, NoEntries, Written, Reading
<1> QED
  BY <1>3, <1>5, <1>6, <1>7 DEF IInv

\* Every step of the system keeps it.
LEMMA NextKeeps == IInv /\ [Next]_vars => IInv'
<1> SUFFICES ASSUME IInv, [Next]_vars PROVE IInv'
  OBVIOUS
<1>1. CASE UNCHANGED vars
  <2>1. UNCHANGED <<job, at, ctx, timer, result, bookVars, outputVars, processVars>>
    BY <1>1 DEF vars
  <2>2. Waiting' /\ Output' /\ Stops' /\ Credits' /\ Remembered' /\ Refusals'
    BY <2>1, OutputKept DEF processVars, bookVars
  <2>3. FileEntries' /\ NoEntries' /\ Written' /\ Reading'
    BY <2>1, FilesKept DEF processVars, bookVars
  <2>4. TypeOK'
    BY <2>1 DEF IInv, TypeOK, outputVars, processVars, bookVars
  <2>5. Future' /\ Endings'
    BY <2>1 DEF IInv, Future, Endings, At, Cur, backend, Interrupted, Own, kind, outputVars, processVars, bookVars
  <2>6. Blame'
    BY <2>1 DEF IInv, Blame, Failing, Reason, HasSetenv, Current, Cur, outputVars, processVars, bookVars
  <2> QED
    BY <2>2, <2>3, <2>4, <2>5, <2>6 DEF IInv
<1>2. CASE CtxEnds
  BY <1>2, CtxEndsKeeps
<1>3. CASE StepTimesOut
  BY <1>3, StepTimesOutKeeps
<1>4. CASE Done
  BY <1>1, <1>4 DEF Done
<1>5. ASSUME NEW s \in Step, Command(s) PROVE IInv'
  BY <1>5, WriteLineKeeps, WriteFileKeeps, CommandEndsKeeps DEF Command
<1>6. ASSUME NEW s \in Step, Copying(s) PROVE IInv'
  BY <1>6, DeliverKeeps, copyOutputKeeps DEF Copying
<1>7. ASSUME NEW s \in Step, Body(s) PROVE IInv'
  BY <1>7, ResetFilesKeeps, PreparationKeeps, DockerExecKeeps, waitKeeps, CommandEndsKeeps, HostExecKeeps, PodExecKeeps,
     TakeKeeps, ReadFileKeeps, NextStepKeeps DEF Body
<1> QED
  BY <1>1, <1>2, <1>3, <1>4, <1>5, <1>6, <1>7 DEF Next

\* The inductive invariant holds in every reachable state.
THEOREM Invariance == Spec => []IInv
<1> QED
  BY InitHolds, NextKeeps, PTL DEF Spec

\* The variables of the body keep their types.
THEOREM TypeCorrect == Spec => []TypeOK
<1>1. IInv => TypeOK
  BY DEF IInv
<1> QED
  BY <1>1, Invariance, PTL

\* Nothing of an output that was not cut off is missing when its step is over.
LEMMA AllHandled ==
    ASSUME IInv, NEW s \in Step, Over(s), s \notin truncated
    PROVE  handled[s] = Len(printed[s])
<1>1. Copied(s) /\ at.phase = "clear" /\ handled[s] \in Nat /\ delivered[s] \in Nat
  BY DEF IInv, Output, Over, At, TypeOK
<1>2. reader[s] \in {"none", "gone"}
  BY <1>1 DEF Copied
<1>3. reader[s] = "none" => Len(printed[s]) = 0 /\ handled[s] <= delivered[s] /\ delivered[s] <= 0
  BY <1>1 DEF Copied
<1> QED
  BY <1>1, <1>2, <1>3 DEF Copied

\* A step whose command was not given up ends with all its output handled, up to
\* a last line without newline, in every environment.
THEOREM OutputTheorem == Spec => []OutputIsComplete
<1>1. IInv => OutputIsComplete
  BY AllHandled DEF OutputIsComplete
<1> QED
  BY <1>1, Invariance, PTL

\* Outputs go to the step that printed them, nothing acts between stop-commands
\* and its token, and a refused command fails its own step and no other.
THEOREM CommandsTheorem == Spec => []CommandsObeyed
<1>1. IInv => CommandsObeyed
  <2> SUFFICES ASSUME IInv PROVE CommandsObeyed
    OBVIOUS
  <2>1. \A c \in credited : c[1] \notin truncated => c[3] = c[1] /\ Acts(c[1], c[2], "output")
    BY DEF IInv, Credits, Genuine
  <2>2. ASSUME NEW s \in Step, Over(s), s \notin truncated, NEW i \in DOMAIN printed[s]
        PROVE  /\ Acts(s, i, "output") => <<s, i, s>> \in credited
               /\ Acts(s, i, "setenv") /\ ~Allow => result[s] # "success"
    <3>1. handled[s] = Len(printed[s])
      BY <2>2, AllHandled
    <3>2. i \in 1 .. handled[s]
      BY <3>1, LenProperties DEF IInv, TypeOK
    <3> QED
      BY <2>2, <3>2 DEF IInv, Credits, Remembered, Over, At
  <2>3. ASSUME NEW s \in Step, Over(s), result[s] = "error", errors = 0, truncated = {} PROVE Reason(s)
    BY <2>3 DEF IInv, Blame, Failing, Current, Over, At
  <2> QED
    BY <2>1, <2>2, <2>3 DEF CommandsObeyed, Reason, HasSetenv
<1> QED
  BY <1>1, Invariance, PTL

\* What a step's command wrote to the command files is applied to that step and
\* to no other, unless its file could not be read.
THEOREM FilesTheorem == Spec => []FilesAppliedOnce
<1>1. IInv => FilesAppliedOnce
  <2> SUFFICES ASSUME IInv, NEW s \in Step, Over(s)
               PROVE  (\A e \in applied : e.own => e.by = s) /\ \A f \in File : Taken(s, f)
    BY DEF FilesAppliedOnce, Taken
  <2> QED
    BY DEF IInv, Reading, Over, At
<1> QED
  BY <1>1, Invariance, PTL


=============================================================================
