----------------------- MODULE JobEnvironment_proofs ------------------------
(* Proofs of the safety properties of JobEnvironment, for any set of       *)
(* tasks, any platforms and any number of faults and deaths.               *)
EXTENDS JobEnvironment, SequenceTheorems, TLAPS

-----------------------------------------------------------------------------
(* The inductive invariant.                                                *)

Platforms == {"docker", "kubernetes", "host"}
Places == {"idle", "received", "prepare", "register", "start", "preclean", "steps", "summary", "clean",
           "finish", "script", "revoke", "report", "ended", "dead"}

Record ==
    [backend : {"none"} \cup Platforms, at : Places, stage : Nat, ctx : {"live", "done"},
     pre : BOOLEAN, err : BOOLEAN, proxy : {"none", "probing", "usable", "unusable", "open", "closing"},
     hadProxy : BOOLEAN, create : {"no", "admitted", "late"},
     health : {"none", "starting", "healthy", "unhealthy", "gone"},
     volumes : {"unread", "now", "deferred"}, missed : SUBSET Kinds]

\* Type correctness of what tasks, the daemon and OnIdle share.
TypeOK ==
    /\ task \in [Tasks -> Record]
    /\ world \subseteq Kinds \X Tasks /\ stale \subseteq world
    /\ sweep \in Seq({"dirs", "networks", "volumes", "pods"})
    /\ probe \in {"none", "running", "seen"} /\ faults \in Nat /\ crashes \in Nat

\* The kinds of a task's resources that exist.
Has(t) == {k \in Kinds : <<k, t>> \in world}

\* The kinds of resource the start of a job makes, and those its steps make.
StartMakes(b) ==
    {"cred"} \cup (IF b = "docker" THEN {"job", "svc", "net", "link", "vol"} \cup Workspace
                   ELSE IF b = "kubernetes" THEN {"pod", "secret"} ELSE {"scratch"} \cup Workspace)
StepsMake(b) == StartMakes(b) \cup (IF b = "docker" THEN {"left"} ELSE IF b = "host" THEN {"proc"} ELSE {})

\* What the teardown of the environment leaves to the rest of the task, and
\* what nobody removes.
Deferred(r) == IF r.volumes = "deferred" THEN {"vol"} ELSE {}
Unswept == IF SweepConfig THEN {} ELSE {"left"}

\* A task is in a stage of the pipeline it is going through.
Staged(r) ==
    /\ r.at \in {"register", "start", "preclean", "steps", "summary", "clean"} => r.backend \in Platforms
    /\ r.at = "start" => r.stage \in 1 .. Len(StartStages(r.backend))
    /\ r.at \in {"preclean", "clean"} => r.stage \in 1 .. Len(CleanStages(r.backend))
    /\ r.at = "preclean" => r.backend = "docker"
    /\ r.at \in {"summary", "clean"} => ~r.pre

\* The start: nothing exists before it, and what it makes before a teardown is
\* armed is the credential alone.
Starting(r, has) ==
    /\ r.at \in {"idle", "received", "prepare", "register"} => has = {} /\ r.missed = {}
    /\ r.at \in {"start", "preclean"} => has \subseteq StartMakes(r.backend)
    /\ r.at = "start" => (StartStages(r.backend)[r.stage].armed /\ r.stage > 1) \/ (has \subseteq {"cred"} /\ r.proxy # "open")

\* Creates come through an open proxy, which only a docker job has.
Proxied(r, has) ==
    /\ r.at \in {"idle", "received", "prepare", "register", "start", "preclean"} => r.create = "no"
    /\ r.at \in {"idle", "received", "prepare", "register"} \/ (r.at \notin {"dead", "ended"} /\ r.backend # "docker") => r.proxy = "none"
    /\ r.at \in {"steps", "summary", "clean"} /\ r.backend # "docker" => r.create = "no"
    /\ r.create = "late" => "left" \in r.missed

\* Until the proxy is closed it is open if the job made anything through it.
Serving(r) == r.at \in {"steps", "summary"} \/ (r.at = "clean" /\ (r.backend # "docker" \/ r.stage <= 2))
Running(r, has) ==
    Serving(r) =>
        /\ has \subseteq StepsMake(r.backend)
        /\ (r.create = "admitted" \/ "left" \in has) => r.proxy = "open"

\* Then the stages of the teardown of a docker job follow.
Clearing(r, has) ==
    r.at = "clean" /\ r.backend = "docker" /\ r.stage > 2 =>
        /\ has \subseteq StepsMake("docker") /\ r.proxy # "open"
        /\ (r.create = "admitted" \/ "left" \in has) => r.hadProxy
        /\ r.stage > 3 => r.create # "admitted"
        /\ r.stage > 4 => has \cap {"job", "svc"} = {}
        /\ r.stage > 5 => has \cap {"left"} \subseteq Unswept

\* What is left after the teardown goes one after the other.
Ending(r, has) ==
    /\ r.at \in {"finish", "script", "revoke", "report", "ended"} /\ (r.create = "admitted" \/ r.proxy = "open") =>
          "left" \in r.missed
    /\ r.at = "finish" => has \subseteq {"cred"} \cup Workspace \cup Deferred(r) \cup Unswept
    /\ r.at \in {"script", "revoke"} => has \subseteq {"cred"} \cup Deferred(r) \cup Unswept
    /\ r.at = "report" => has \subseteq Deferred(r) \cup Unswept
    /\ r.at = "ended" => has \subseteq Unswept

\* The claims about what remains leave out the kinds whose removal was missed.
Local(r, has) ==
    /\ Staged(r) /\ Starting(r, has) /\ Proxied(r, has)
    /\ Running(r, has \ r.missed) /\ Clearing(r, has \ r.missed) /\ Ending(r, has \ r.missed)

\* What OnIdle looks at was made by tasks that no longer run.
Swept == sweep # <<>> => \A x \in stale : ~Counted(x[2])

IInv == TypeOK /\ (\A t \in Tasks : Local(task[t], Has(t))) /\ Swept

-----------------------------------------------------------------------------
(* The pipelines.                                                          *)

\* What the stages of a start are: none makes anything before the teardown is
\* armed, and once it is it stays so; the proxy and the removal of an earlier
\* run's remains are a docker job's.
LEMMA StartStageFacts ==
    ASSUME NEW b \in Platforms, NEW n \in 1 .. Len(StartStages(b))
    PROVE  LET s == StartStages(b)[n] IN
           /\ Len(StartStages(b)) \in Nat
           /\ s.makes \subseteq StartMakes(b) \ {"cred"} /\ s.makes \subseteq Kinds
           /\ ~s.armed => s.makes = {}
           /\ s.armed /\ n < Len(StartStages(b)) => StartStages(b)[n + 1].armed
           /\ s.call \in {"proxy", "preclean"} => b = "docker" /\ s.armed
<1>1. CASE b = "docker"
  <2>1. Len(StartStages(b)) = 16 /\ StartStages(b) = DockerStart
    BY <1>1 DEF StartStages, DockerStart
  <2>2. n \in 1 .. 16
    BY <2>1
  <2>4. StartMakes(b) = {"cred", "job", "svc", "net", "link", "vol"} \cup Workspace /\ Workspace \subseteq {"work"}
    BY <1>1 DEF StartMakes, Workspace
  <2>5. \A i \in 1 .. 16 : DockerStart[i].makes \subseteq {"job", "svc", "net", "link", "vol"} \cup Workspace
    BY SMTT(30) DEF DockerStart, Stage, CredentialsStage, EvaluateStage, NetworkStage, ConnectStage, ServicesStage,
           VolumesStage, UnstartedStage, OptionsStage, CreateStage, IdsStage, CopyStage, HealthStage
  <2>6. /\ DockerStart[1].makes = {} /\ DockerStart[1].call = "credentials"
        /\ \A i \in 2 .. 16 : DockerStart[i].armed
    BY DEF DockerStart, Stage, CredentialsStage, EvaluateStage, NetworkStage, ConnectStage, ServicesStage,
           VolumesStage, UnstartedStage, OptionsStage, CreateStage, IdsStage, CopyStage, HealthStage
  <2>8. StartStages(b)[n].makes \subseteq StartMakes(b) \ {"cred"} /\ StartStages(b)[n].makes \subseteq Kinds
    BY <2>1, <2>2, <2>4, <2>5 DEF Kinds
  <2>9. ~StartStages(b)[n].armed => StartStages(b)[n].makes = {}
    <3>1. n \in {1} \/ n \in 2 .. 16
      BY <2>2
    <3> QED
      BY <3>1, <2>1, <2>6
  <2>10. StartStages(b)[n].armed /\ n < Len(StartStages(b)) => StartStages(b)[n + 1].armed
    <3>1. n < 16 => n = 1 \/ n + 1 \in 2 .. 16
      BY <2>2
    <3> QED
      BY <3>1, <2>1, <2>6
  <2>11. StartStages(b)[n].call \in {"proxy", "preclean"} => StartStages(b)[n].armed
    <3>1. n \in {1} \/ n \in 2 .. 16
      BY <2>2
    <3> QED
      BY <3>1, <2>1, <2>6
  <2> QED
    BY <1>1, <2>1, <2>2, <2>8, <2>9, <2>10, <2>11
<1>2. CASE b = "kubernetes"
  <2>1. Len(StartStages(b)) = 10 /\ StartStages(b) = KubernetesStart
    BY <1>2 DEF StartStages, KubernetesStart
  <2>2. n \in 1 .. 10
    BY <2>1
  <2>4. StartMakes(b) = {"cred", "pod", "secret"}
    BY <1>2 DEF StartMakes
  <2>5. \A i \in 1 .. 10 : KubernetesStart[i].makes \subseteq {"pod", "secret"}
    BY DEF KubernetesStart, Stage, ClientStage, EvaluateStage, TemplateStage, ManifestStage, SecretStage,
           PodStage, StartedStage, UnstartedStage, CopyStage, HealthStage
  <2>6. KubernetesStart[1].makes = {} /\ KubernetesStart[2].makes = {} /\ ~KubernetesStart[1].armed
        /\ \A i \in 3 .. 10 : KubernetesStart[i].armed
    BY DEF KubernetesStart, Stage, ClientStage, EvaluateStage, TemplateStage, ManifestStage, SecretStage,
           PodStage, StartedStage, UnstartedStage, CopyStage, HealthStage
  <2>7. \A i \in 1 .. 10 : KubernetesStart[i].call \notin {"proxy", "preclean"}
    BY DEF KubernetesStart, Stage, ClientStage, EvaluateStage, TemplateStage, ManifestStage, SecretStage,
           PodStage, StartedStage, UnstartedStage, CopyStage, HealthStage
  <2>8. StartStages(b)[n].makes \subseteq StartMakes(b) \ {"cred"} /\ StartStages(b)[n].makes \subseteq Kinds
    BY <2>1, <2>2, <2>4, <2>5 DEF Kinds
  <2>9. ~StartStages(b)[n].armed => StartStages(b)[n].makes = {}
    <3>1. n \in {1, 2} \/ n \in 3 .. 10
      BY <2>2
    <3> QED
      BY <3>1, <2>1, <2>6
  <2>10. StartStages(b)[n].armed /\ n < Len(StartStages(b)) => StartStages(b)[n + 1].armed
    <3>1. n < 10 => n = 1 \/ n + 1 \in 3 .. 10
      BY <2>2
    <3> QED
      BY <3>1, <2>1, <2>6
  <2> QED
    BY <1>2, <2>1, <2>2, <2>8, <2>9, <2>10, <2>7
<1>3. CASE b = "host"
  <2>1. Len(StartStages(b)) = 2 /\ StartStages(b) = HostStart
    BY <1>3 DEF StartStages, HostStart
  <2>2. n \in 1 .. 2
    BY <2>1
  <2>4. StartMakes(b) = {"cred", "scratch"} \cup Workspace /\ Workspace \subseteq {"work"}
    BY <1>3 DEF StartMakes, Workspace
  <2>5. \A i \in 1 .. 2 :
            /\ HostStart[i].makes \subseteq {"scratch"} \cup Workspace
            /\ HostStart[i].armed
            /\ HostStart[i].call \notin {"proxy", "preclean"}
    BY DEF HostStart, Stage, CopyStage
  <2>6. /\ StartStages(b)[n].makes \subseteq {"scratch"} \cup Workspace /\ StartStages(b)[n].armed
        /\ StartStages(b)[n].call \notin {"proxy", "preclean"}
    BY <2>1, <2>2, <2>5
  <2>7. {"scratch"} \cup Workspace \subseteq StartMakes(b) \ {"cred"} /\ {"scratch"} \cup Workspace \subseteq Kinds
    BY <2>4 DEF Kinds
  <2>8. n < 2 => n + 1 \in 1 .. 2
    BY <2>2
  <2>9. n < 2 => StartStages(b)[n + 1].armed
    BY <2>1, <2>5, <2>8
  <2> QED
    BY <2>1, <2>6, <2>7, <2>9
<1> QED
  BY <1>1, <1>2, <1>3 DEF Platforms

\* The first stage of every start and of every teardown exists.
LEMMA FirstStages ==
    ASSUME NEW b \in Platforms
    PROVE  /\ Len(StartStages(b)) \in Nat /\ 1 <= Len(StartStages(b))
           /\ Len(CleanStages(b)) \in Nat /\ 1 <= Len(CleanStages(b))
           /\ b = "docker" => Len(StartStages(b)) = 16 /\ Len(CleanStages(b)) = 6 /\ StartStages(b)[3].armed
  BY DEF Platforms, StartStages, CleanStages, DockerStart, KubernetesStart, HostStart, Stage

\* The teardown of each platform.
LEMMA CleanStageFacts ==
    /\ Len(CleanStages("docker")) = 6 /\ Len(CleanStages("kubernetes")) = 2 /\ Len(CleanStages("host")) = 1
    /\ \A n \in 1 .. 6 :
        /\ CleanStages("docker")[n] = "logs" <=> n = 1
        /\ CleanStages("docker")[n] = "closeProxy" <=> n = 2
        /\ CleanStages("docker")[n] = "drainProxy" <=> n = 3
        /\ CleanStages("docker")[n] = "containers" <=> n = 4
        /\ CleanStages("docker")[n] = "labelled" <=> n = 5
        /\ CleanStages("docker")[n] = "rest" <=> n = 6
        /\ CleanStages("docker")[n] \notin {"pod", "scratch"}
    /\ \A n \in 1 .. 2 :
        /\ CleanStages("kubernetes")[n] = "logs" <=> n = 1
        /\ CleanStages("kubernetes")[n] = "pod" <=> n = 2
        /\ CleanStages("kubernetes")[n] \in {"logs", "pod"}
    /\ CleanStages("host")[1] = "scratch"
  BY DEF CleanStages


-----------------------------------------------------------------------------
(* What a task's record becomes.                                           *)

\* A task that is starting, or removes an earlier run's remains to start.
Ready(r, has) ==
    /\ r \in Record /\ r.backend \in Platforms /\ r.stage \in 1 .. Len(StartStages(r.backend))
    /\ has \subseteq StartMakes(r.backend)
    /\ StartStages(r.backend)[r.stage].armed \/ (has \subseteq {"cred"} /\ r.proxy # "open")
    /\ r.create = "no" /\ (r.backend # "docker" => r.proxy = "none")

\* The claims about a task do not depend on resources that are not there: they
\* still hold when some disappear.
LEMMA Shrinks ==
    ASSUME NEW r, NEW has, NEW less, less \subseteq has, Local(r, has)
    PROVE  Local(r, less)
<1>1. Starting(r, less) /\ Proxied(r, less)
  BY DEF Local, Starting, Proxied
<1> DEFINE free == has \ r.missed
           rest == less \ r.missed
<1>2. rest \subseteq free /\ Staged(r) /\ Running(r, free) /\ Clearing(r, free) /\ Ending(r, free)
  BY DEF Local
<1> HIDE DEF free, rest
<1>3. Running(r, rest)
  BY <1>2 DEF Running
<1>4. Clearing(r, rest)
  BY <1>2 DEF Clearing
<1>5. Ending(r, rest)
  BY <1>2 DEF Ending
<1> QED
  BY <1>1, <1>2, <1>3, <1>4, <1>5 DEF Local, rest

\* They hold of what was not missed if they hold of all there is.
LEMMA LeavesOut ==
    ASSUME NEW r, NEW has, Staged(r), Starting(r, has), Proxied(r, has),
           Running(r, has), Clearing(r, has), Ending(r, has)
    PROVE  Local(r, has)
<1> DEFINE free == has \ r.missed
<1>1. free \subseteq has
  OBVIOUS
<1> HIDE DEF free
<1>2. Running(r, free)
  BY <1>1 DEF Running
<1>3. Clearing(r, free)
  BY <1>1 DEF Clearing
<1>4. Ending(r, free)
  BY <1>1 DEF Ending
<1> QED
  BY <1>2, <1>3, <1>4 DEF Local, free

\* A stage of the start that succeeds.
LEMMA NextStageIsLocal ==
    ASSUME NEW r, NEW has, Ready(r, has)
    PROVE  NextStage(r) \in Record /\ Local(NextStage(r), has)
<1> DEFINE b == r.backend
           last == Len(StartStages(b))
<1>1. b \in Platforms /\ r.stage \in 1 .. last /\ r \in Record
  BY DEF Ready
<1>2. last \in Nat /\ (StartStages(b)[r.stage].armed /\ r.stage < last => StartStages(b)[r.stage + 1].armed)
  BY <1>1, StartStageFacts
<1>3. CASE r.stage < last
  <2> DEFINE x == [r EXCEPT !.at = "start", !.stage = r.stage + 1]
  <2>1. NextStage(r) = x
    BY <1>3 DEF NextStage
  <2>2. x \in Record
    <3>1. "start" \in Places /\ r.stage + 1 \in Nat
      BY <1>1, <1>2 DEF Places, Record
    <3> QED
      BY <3>1, <1>1 DEF Record
  <2>3. /\ x.at = "start" /\ x.stage = r.stage + 1 /\ x.backend = b /\ x.create = r.create /\ x.proxy = r.proxy
        /\ x.stage \in 1 .. last
    BY <1>1, <1>2, <1>3 DEF Record
  <2> HIDE DEF x
  <2>4. Staged(x) /\ Starting(x, has) /\ Proxied(x, has)
    BY <2>3, <1>1, <1>2, <1>3 DEF Staged, Starting, Proxied, Ready
  <2>5. Running(x, has) /\ Clearing(x, has) /\ Ending(x, has)
    BY <2>3 DEF Running, Serving, Clearing, Ending
  <2> QED
    BY <2>1, <2>2, <2>4, <2>5, LeavesOut
<1>4. CASE ~(r.stage < last)
  <2> DEFINE x == [r EXCEPT !.at = "steps", !.stage = 0, !.health = "none"]
  <2>1. NextStage(r) = x
    BY <1>4 DEF NextStage
  <2>2. x \in Record
    BY <1>1, ZenonT(40) DEF Record, Places
  <2>3. x.at = "steps" /\ x.backend = b /\ x.create = r.create /\ x.proxy = r.proxy
    BY <1>1 DEF Record
  <2> HIDE DEF x
  <2>4. Staged(x) /\ Starting(x, has) /\ Proxied(x, has)
    BY <2>3, <1>1 DEF Staged, Starting, Proxied, Ready
  <2>5. "left" \notin StartMakes(b) /\ StartMakes(b) \subseteq StepsMake(b)
    BY DEF StartMakes, StepsMake, Workspace
  <2>6. Running(x, has) /\ Clearing(x, has) /\ Ending(x, has)
    BY <2>3, <2>5 DEF Running, Serving, Clearing, Ending, Ready
  <2> QED
    BY <2>1, <2>2, <2>4, <2>6, LeavesOut
<1> QED
  BY <1>3, <1>4

\* A stage of the start that fails.
LEMMA FailedStartIsLocal ==
    ASSUME NEW r, NEW has, Ready(r, has)
    PROVE  FailedStart(r) \in Record /\ Local(FailedStart(r), has)
<1> DEFINE b == r.backend
<1>1. b \in Platforms /\ r \in Record
  BY DEF Ready
<1>2. "left" \notin StartMakes(b) /\ StartMakes(b) \subseteq StepsMake(b)
  BY DEF StartMakes, StepsMake, Workspace
<1>3. CASE StartStages(b)[r.stage].armed
  <2> DEFINE x == [r EXCEPT !.at = "clean", !.stage = 1, !.pre = FALSE, !.err = FALSE, !.ctx = "live", !.health = "none"]
  <2>1. FailedStart(r) = x
    BY <1>3 DEF FailedStart
  <2>2. x \in Record
    <3>1. "clean" \in Places /\ FALSE \in BOOLEAN /\ 1 \in Nat /\ "live" \in {"live", "done"}
      BY DEF Places
    <3>2. "none" \in {"none", "starting", "healthy", "unhealthy", "gone"}
      OBVIOUS
    <3> QED
      BY <3>1, <3>2, <1>1 DEF Record
  <2>3. /\ x.at = "clean" /\ x.stage = 1 /\ x.backend = b /\ x.create = r.create /\ x.proxy = r.proxy
        /\ x.pre = FALSE
    BY <1>1 DEF Record
  <2>4. 1 \in 1 .. Len(CleanStages(b))
    BY <1>1, FirstStages
  <2> HIDE DEF x
  <2>5. Staged(x) /\ Starting(x, has) /\ Proxied(x, has)
    BY <2>3, <2>4, <1>1 DEF Staged, Starting, Proxied, Ready
  <2>6. Running(x, has) /\ Clearing(x, has) /\ Ending(x, has)
    BY <2>3, <1>2 DEF Running, Serving, Clearing, Ending, Ready
  <2> QED
    BY <2>1, <2>2, <2>5, <2>6, LeavesOut
<1>4. CASE ~StartStages(b)[r.stage].armed
  <2> DEFINE x == [r EXCEPT !.at = "finish", !.stage = 0, !.ctx = "live"]
  <2>1. FailedStart(r) = x
    BY <1>4 DEF FailedStart
  <2>2. x \in Record
    BY <1>1 DEF Record, Places
  <2>3. x.at = "finish" /\ x.backend = b /\ x.create = r.create /\ x.proxy = r.proxy
    BY <1>1 DEF Record
  <2> HIDE DEF x
  <2>4. Staged(x) /\ Starting(x, has) /\ Proxied(x, has)
    BY <2>3, <1>1 DEF Staged, Starting, Proxied, Ready
  <2>5. Running(x, has) /\ Clearing(x, has) /\ Ending(x, has)
    BY <2>3, <1>4 DEF Running, Serving, Clearing, Ending, Ready
  <2> QED
    BY <2>1, <2>2, <2>4, <2>5, LeavesOut
<1> QED
  BY <1>3, <1>4


\* A stage of the removal of an earlier run's remains: it goes on, or the start
\* goes on or has failed.
LEMMA PrecleanAdvances ==
    ASSUME NEW x, NEW has, x \in Record, x.at = "preclean", Local(x, has)
    PROVE  Advance(x) \in Record /\ Local(Advance(x), has)
<1>1. /\ x.backend = "docker" /\ x.stage \in 1 .. Len(CleanStages(x.backend)) /\ x.create = "no"
      /\ has \subseteq StartMakes(x.backend)
  BY DEF Local, Staged, Starting, Proxied
<1>2. "docker" \in Platforms
  BY DEF Platforms
<1>3. /\ Len(StartStages("docker")) = 16 /\ Len(CleanStages("docker")) = 6
      /\ StartStages("docker")[3].armed
  BY <1>2, FirstStages
<1>4. CASE x.stage < 6
  <2> DEFINE y == [x EXCEPT !.stage = x.stage + 1]
  <2>1. Advance(x) = y
    BY <1>1, <1>3, <1>4 DEF Advance
  <2>2. y \in Record
    BY DEF Record
  <2>3. y.at = "preclean" /\ y.stage = x.stage + 1 /\ y.backend = "docker" /\ y.create = "no"
    BY <1>1 DEF Record
  <2>4. y.stage \in 1 .. 6
    BY <1>1, <1>3, <1>4, <2>3
  <2> HIDE DEF y
  <2>5. Staged(y) /\ Starting(y, has) /\ Proxied(y, has)
    BY <2>3, <2>4, <1>1, <1>2, <1>3 DEF Staged, Starting, Proxied
  <2>6. Running(y, has) /\ Clearing(y, has) /\ Ending(y, has)
    BY <2>3 DEF Running, Serving, Clearing, Ending
  <2> QED
    BY <2>1, <2>2, <2>5, <2>6, LeavesOut
<1>5. CASE ~(x.stage < 6)
  <2> DEFINE y == [x EXCEPT !.stage = PrecleanStage, !.pre = FALSE]
  <2>1. Advance(x) = FailedStart(y) \/ Advance(x) = NextStage(y)
    BY <1>1, <1>3, <1>5 DEF Advance, CleanDone
  <2>2. y \in Record
    BY DEF Record, PrecleanStage
  <2>3. y.stage = 3 /\ y.backend = "docker" /\ y.create = "no" /\ y.pre = FALSE
    BY <1>1 DEF Record, PrecleanStage
  <2> HIDE DEF y
  <2>4. Ready(y, has)
    BY <2>2, <2>3, <1>1, <1>2, <1>3 DEF Ready
  <2> QED
    BY <2>1, <2>3, <2>4, FailedStartIsLocal, NextStageIsLocal
<1> QED
  BY <1>4, <1>5

\* A stage of the teardown: it goes on, or the environment is done with.
LEMMA CleanAdvances ==
    ASSUME NEW x, NEW has, x \in Record, x.at = "clean", Staged(x), Proxied(x, has)
    PROVE  /\ Advance(x) \in Record
           /\ Staged(Advance(x)) /\ Starting(Advance(x), has) /\ Proxied(Advance(x), has)
           /\ Advance(x).backend = x.backend /\ Advance(x).create = x.create /\ Advance(x).proxy = x.proxy
           /\ Advance(x).hadProxy = x.hadProxy /\ Advance(x).volumes = x.volumes
           /\ Advance(x).missed = x.missed
           /\ IF x.stage < Len(CleanStages(x.backend))
              THEN Advance(x).at = "clean" /\ Advance(x).stage = x.stage + 1
              ELSE Advance(x).at = "finish"
<1> DEFINE last == Len(CleanStages(x.backend))
<1>1. x.backend \in Platforms /\ x.stage \in 1 .. last /\ ~x.pre
  BY DEF Staged
<1>2. last \in Nat
  BY <1>1, FirstStages
<1>3. CASE x.stage < last
  <2> DEFINE y == [x EXCEPT !.stage = x.stage + 1]
  <2>1. Advance(x) = y
    BY <1>3 DEF Advance
  <2>2. y \in Record
    BY DEF Record
  <2>3. /\ y.at = "clean" /\ y.stage = x.stage + 1 /\ y.backend = x.backend /\ y.create = x.create
        /\ y.proxy = x.proxy /\ y.hadProxy = x.hadProxy /\ y.volumes = x.volumes /\ y.missed = x.missed
        /\ y.pre = x.pre
    BY DEF Record
  <2>4. y.stage \in 1 .. last
    BY <1>1, <1>2, <1>3, <2>3
  <2> HIDE DEF y
  <2>5. Staged(y) /\ Starting(y, has) /\ Proxied(y, has)
    BY <2>3, <2>4, <1>1 DEF Staged, Starting, Proxied
  <2> QED
    BY <2>1, <2>2, <2>3, <2>5, <1>3
<1>4. CASE ~(x.stage < last)
  <2> DEFINE y == [x EXCEPT !.at = "finish", !.stage = 0]
  <2>1. Advance(x) = y
    BY <1>4 DEF Advance, CleanDone
  <2>2. y \in Record
    BY DEF Record, Places
  <2>3. /\ y.at = "finish" /\ y.backend = x.backend /\ y.create = x.create
        /\ y.proxy = x.proxy /\ y.hadProxy = x.hadProxy /\ y.volumes = x.volumes /\ y.missed = x.missed
        /\ y.pre = x.pre
    BY DEF Record
  <2> HIDE DEF y
  <2>5. Staged(y) /\ Starting(y, has) /\ Proxied(y, has)
    BY <2>3, <1>1 DEF Staged, Starting, Proxied
  <2> QED
    BY <2>1, <2>2, <2>3, <2>5, <1>4
<1> QED
  BY <1>3, <1>4

-----------------------------------------------------------------------------
(* What becomes of the resources.                                          *)

\* A call that makes resources of a task.
LEMMA Makes ==
    ASSUME NEW t \in Tasks, NEW m, m \subseteq Kinds, world' = world \cup Own(t, m)
    PROVE  /\ Has(t)' = Has(t) \cup m
           /\ \A u \in Tasks \ {t} : Has(u)' = Has(u)
           /\ world \subseteq world' /\ (world \subseteq Kinds \X Tasks => world' \subseteq Kinds \X Tasks)
<1>1. \A k, u : <<k, u>> \in world' <=> (<<k, u>> \in world \/ (k \in m /\ u = t))
  BY DEF Own
<1>2. Has(t)' = Has(t) \cup m
  BY <1>1 DEF Has
<1>3. \A u \in Tasks \ {t} : Has(u)' = Has(u)
  BY <1>1 DEF Has
<1>4. world \subseteq world' /\ (world \subseteq Kinds \X Tasks => world' \subseteq Kinds \X Tasks)
  BY DEF Own
<1> QED
  BY <1>2, <1>3, <1>4

\* A call that removes resources of a task.
LEMMA Removes ==
    ASSUME NEW t \in Tasks, NEW m, world' = world \ Own(t, m)
    PROVE  /\ Has(t)' = Has(t) \ m
           /\ \A u \in Tasks \ {t} : Has(u)' = Has(u)
           /\ world' \subseteq world
<1>1. \A k, u : <<k, u>> \in world' <=> (<<k, u>> \in world /\ ~(k \in m /\ u = t))
  BY DEF Own
<1> QED
  BY <1>1 DEF Has

\* What the runner does to its other tasks when it serves one: nothing.  The
\* resources of the task are made and removed under its own name, and only a
\* task without resources starts to be counted.
LEMMA TaskMoves ==
    ASSUME IInv, NEW t \in Tasks, NEW x \in Record, task' = [task EXCEPT ![t] = x],
           Local(x, Has(t)'), \A u \in Tasks \ {t} : Has(u)' \subseteq Has(u),
           world' \subseteq Kinds \X Tasks, stale' \subseteq stale, stale' \subseteq world', sweep' = sweep,
           Counted(t) \/ Has(t) = {} \/ ~Counted(t)',
           probe' \in {"none", "running", "seen"}, faults' \in Nat, crashes' \in Nat
    PROVE  IInv'
<1>1. task' \in [Tasks -> Record] /\ task'[t] = x /\ \A u \in Tasks \ {t} : task'[u] = task[u]
  BY DEF IInv, TypeOK
<1>2. TypeOK'
  BY <1>1 DEF IInv, TypeOK
<1>3. ASSUME NEW u \in Tasks
      PROVE  Local(task'[u], Has(u)')
  <2>1. CASE u = t
    BY <2>1, <1>1
  <2>2. CASE u # t
    <3>1. Local(task[u], Has(u)) /\ task'[u] = task[u] /\ Has(u)' \subseteq Has(u)
      BY <2>2, <1>1 DEF IInv
    <3> QED
      BY <3>1, Shrinks
  <2> QED
    BY <2>1, <2>2
<1>4. Swept'
  <2> SUFFICES ASSUME sweep # <<>>, NEW r \in stale' PROVE ~Counted(r[2])'
    BY DEF Swept
  <2>1. r \in stale /\ r \in world /\ ~Counted(r[2]) /\ r \in Kinds \X Tasks
    BY DEF IInv, TypeOK, Swept
  <2>2. CASE r[2] = t
    <3>1. r[1] \in Has(t)
      BY <2>1, <2>2 DEF Has
    <3> QED
      BY <3>1, <2>1, <2>2
  <2>3. CASE r[2] # t
    BY <2>1, <2>3, <1>1 DEF Counted
  <2> QED
    BY <2>2, <2>3
<1>5. (\A u \in Tasks : Local(task[u], Has(u)))'
  BY <1>3
<1> QED
  BY <1>2, <1>4, <1>5 DEF IInv


-----------------------------------------------------------------------------
(* The steps of a task keep the invariant.                                 *)

\* A call that may fail counts the fault.
LEMMA FaultIsCounted ==
    ASSUME IInv, (faults' = faults) \/ Fault
    PROVE  faults' \in Nat
  BY DEF IInv, TypeOK, Fault

\* Steps that leave the resources alone.
LEMMA TaskOnly ==
    ASSUME IInv, NEW t \in Tasks, NEW x \in Record, task' = [task EXCEPT ![t] = x],
           Local(x, Has(t)), UNCHANGED <<world, stale, sweep, crashes>>,
           Counted(t) \/ Has(t) = {} \/ ~Counted(t)',
           probe' \in {"none", "running", "seen"}, (faults' = faults) \/ Fault
    PROVE  IInv'
<1>1. \A u \in Tasks : Has(u)' = Has(u)
  BY DEF Has
<1>2. world \subseteq Kinds \X Tasks /\ stale \subseteq world /\ crashes \in Nat
  BY DEF IInv, TypeOK
<1>3. faults' \in Nat
  BY FaultIsCounted
<1>4. Local(x, Has(t)')
  BY <1>1
<1> QED
  BY <1>1, <1>2, <1>3, <1>4, TaskMoves

\* Before the start: the task is received, counted and planned.
LEMMA BeforeStart ==
    ASSUME IInv, NEW t \in Tasks, Receive(t) \/ Run(t) \/ Prepare(t) \/ generateWorkflowFails(t)
    PROVE  IInv'
<1> DEFINE r == task[t]
<1>1. r \in Record /\ Local(r, Has(t)) /\ probe \in {"none", "running", "seen"}
  BY DEF IInv, TypeOK
<1>2. CASE Receive(t)
  <2> DEFINE x == [r EXCEPT !.at = "received"]
  <2>1. x \in Record /\ task' = [task EXCEPT ![t] = x] /\ r.at = "idle"
    BY <1>1, <1>2 DEF Receive, Set, At, Record, Places, IInv, TypeOK
  <2>2. x.at = "received" /\ x.create = r.create /\ x.proxy = r.proxy /\ x.missed = r.missed
    BY <1>1 DEF Record
  <2> HIDE DEF x
  <2>3. Local(x, Has(t))
    BY <1>1, <2>1, <2>2 DEF Local, Staged, Starting, Proxied, Running, Serving, Clearing, Ending
  <2>4. Has(t) = {}
    BY <1>1, <2>1 DEF Local, Starting
  <2> QED
    BY <1>1, <1>2, <2>1, <2>3, <2>4, TaskOnly DEF Receive
<1>3. CASE Run(t)
  <2> DEFINE x == [r EXCEPT !.at = "prepare"]
  <2>1. x \in Record /\ task' = [task EXCEPT ![t] = x] /\ r.at = "received"
    BY <1>1, <1>3 DEF Run, Set, At, Record, Places, IInv, TypeOK
  <2>2. x.at = "prepare" /\ x.create = r.create /\ x.proxy = r.proxy /\ x.missed = r.missed
    BY <1>1 DEF Record
  <2> HIDE DEF x
  <2>3. Local(x, Has(t))
    BY <1>1, <2>1, <2>2 DEF Local, Staged, Starting, Proxied, Running, Serving, Clearing, Ending
  <2>4. Has(t) = {}
    BY <1>1, <2>1 DEF Local, Starting
  <2> QED
    BY <1>1, <1>3, <2>1, <2>3, <2>4, TaskOnly DEF Run
<1>4. CASE Prepare(t)
  <2>1. PICK b \in Backends : task' = [task EXCEPT ![t].at = "register", ![t].backend = b]
    BY <1>4 DEF Prepare
  <2> DEFINE x == [r EXCEPT !.at = "register", !.backend = b]
  <2>2. b \in Platforms
    BY EnvironmentAssumption DEF Platforms
  <2>3. x \in Record
    BY <1>1, <2>2 DEF Record, Places
  <2>4. task' = [task EXCEPT ![t] = x] /\ r.at = "prepare"
    BY <1>4, <2>1 DEF Prepare, At, IInv, TypeOK
  <2>5. x.at = "register" /\ x.create = r.create /\ x.proxy = r.proxy /\ x.missed = r.missed /\ x.backend = b
    BY <1>1 DEF Record
  <2> HIDE DEF x
  <2>6. Local(x, Has(t))
    BY <1>1, <2>2, <2>4, <2>5 DEF Local, Staged, Starting, Proxied, Running, Serving, Clearing, Ending
  <2>7. Has(t) = {}
    BY <1>1, <2>4 DEF Local, Starting
  <2> QED
    BY <1>1, <1>4, <2>3, <2>4, <2>6, <2>7, TaskOnly DEF Prepare
<1>5. CASE generateWorkflowFails(t)
  <2> DEFINE x == [r EXCEPT !.at = "report"]
  <2>1. x \in Record /\ task' = [task EXCEPT ![t] = x] /\ r.at = "prepare"
    BY <1>1, <1>5 DEF generateWorkflowFails, Set, At, Record, Places, IInv, TypeOK
  <2>2. x.at = "report" /\ x.create = r.create /\ x.proxy = r.proxy /\ x.missed = r.missed
    BY <1>1 DEF Record
  <2> HIDE DEF x
  <2>3. Local(x, Has(t))
    BY <1>1, <2>1, <2>2 DEF Local, Staged, Starting, Proxied, Running, Serving, Clearing, Ending
  <2>4. Has(t) = {}
    BY <1>1, <2>1 DEF Local, Starting
  <2> QED
    BY <1>1, <1>5, <2>1, <2>3, <2>4, TaskOnly DEF generateWorkflowFails
<1> QED
  BY <1>2, <1>3, <1>4, <1>5

\* The credential, which is the first thing that exists of a task, and a
\* configuration that is refused.
LEMMA Registering ==
    ASSUME IInv, NEW t \in Tasks, registerCacheForTask(t) \/ NewFails(t)
    PROVE  IInv'
<1> DEFINE r == task[t]
<1>1. /\ r \in Record /\ Local(r, Has(t)) /\ probe \in {"none", "running", "seen"}
      /\ world \subseteq Kinds \X Tasks /\ stale \subseteq world /\ crashes \in Nat
  BY DEF IInv, TypeOK
<1>2. CASE registerCacheForTask(t)
  <2>1. PICK kept \in SUBSET Token : postInternalCache(t, Token, kept)
    BY <1>2 DEF registerCacheForTask
  <2>2. kept \subseteq {"cred"} /\ kept \subseteq Kinds
    BY DEF Token, Kinds
  <2>3. r.at = "register" /\ Has(t) = {} /\ r.backend \in Platforms /\ r.create = "no" /\ r.proxy = "none"
    BY <1>1, <1>2 DEF registerCacheForTask, At, Local, Starting, Staged, Proxied
  <2>4. world \ Own(t, {"cred"}) = world
    <3>1. <<"cred", t>> \notin world
      BY <2>3 DEF Has, Kinds
    <3> QED
      BY <3>1 DEF Own
  <2>5. world' = world \cup Own(t, kept)
    BY <2>1, <2>4 DEF postInternalCache
  <2>6. /\ Has(t)' \subseteq {"cred"} /\ (\A u \in Tasks \ {t} : Has(u)' = Has(u))
        /\ world \subseteq world' /\ world' \subseteq Kinds \X Tasks
    <3>1. /\ Has(t)' = Has(t) \cup kept /\ (\A u \in Tasks \ {t} : Has(u)' = Has(u))
          /\ world \subseteq world' /\ (world \subseteq Kinds \X Tasks => world' \subseteq Kinds \X Tasks)
      BY <2>2, <2>5, Makes
    <3> QED
      BY <3>1, <1>1, <2>2, <2>3
  <2> DEFINE x == [r EXCEPT !.at = "start", !.stage = 1]
  <2>7. x \in Record /\ task' = [task EXCEPT ![t] = x]
    BY <1>1, <1>2 DEF registerCacheForTask, Record, Places, IInv, TypeOK
  <2>8. /\ x.at = "start" /\ x.stage = 1 /\ x.create = r.create /\ x.proxy = r.proxy /\ x.missed = r.missed
        /\ x.backend = r.backend
    BY <1>1 DEF Record
  <2>9. 1 \in 1 .. Len(StartStages(r.backend))
    BY <2>3, FirstStages
  <2> HIDE DEF x
  <2>10. Local(x, Has(t)')
    <3>1. Has(t)' \subseteq StartMakes(r.backend)
      BY <2>6 DEF StartMakes
    <3> QED
      BY <2>3, <2>6, <2>8, <2>9, <3>1 DEF Local, Staged, Starting, Proxied, Running, Serving, Clearing, Ending
  <2>11. faults' \in Nat
    BY <2>1, FaultIsCounted DEF postInternalCache
  <2> QED
    BY <1>1, <1>2, <2>3, <2>6, <2>7, <2>10, <2>11, TaskMoves DEF registerCacheForTask
<1>3. CASE NewFails(t)
  <2> DEFINE x == [r EXCEPT !.at = "revoke", !.stage = 0]
  <2>1. x \in Record /\ task' = [task EXCEPT ![t] = x] /\ r.at = "start" /\ r.stage = 1
    BY <1>1, <1>3 DEF NewFails, At, Record, Places, IInv, TypeOK
  <2>2. x.at = "revoke" /\ x.create = r.create /\ x.proxy = r.proxy /\ x.backend = r.backend /\ x.missed = r.missed
    BY <1>1 DEF Record
  <2> HIDE DEF x
  <2>3. Local(x, Has(t))
    BY <1>1, <2>1, <2>2 DEF Local, Staged, Starting, Proxied, Running, Serving, Clearing, Ending
  <2>4. Counted(t)
    BY <2>1 DEF Counted
  <2> QED
    BY <1>1, <1>3, <2>1, <2>3, <2>4, TaskOnly DEF NewFails
<1> QED
  BY <1>2, <1>3


\* A stage of the start, whether its call was answered or not: the next stage
\* follows, or the teardown of what it may have made.
LEMMA StartMoves ==
    ASSUME IInv, NEW t \in Tasks, At(t, "start"), NEW y \in Record, NEW made,
           y.backend = task[t].backend, y.stage = task[t].stage, y.create = task[t].create,
           y.backend # "docker" => y.proxy = "none", Call(t).armed \/ y.proxy # "open",
           made \subseteq Call(t).makes, world' = world \cup Own(t, made),
           task' = [task EXCEPT ![t] = NextStage(y)] \/ task' = [task EXCEPT ![t] = FailedStart(y)],
           UNCHANGED <<stale, sweep, crashes>>,
           probe' \in {"none", "running", "seen"}, (faults' = faults) \/ Fault
    PROVE  IInv'
<1> DEFINE r == task[t]
<1>1. /\ r \in Record /\ Local(r, Has(t)) /\ r.at = "start"
      /\ world \subseteq Kinds \X Tasks /\ stale \subseteq world /\ crashes \in Nat
  BY DEF IInv, TypeOK, At
<1>2. /\ r.backend \in Platforms /\ r.stage \in 1 .. Len(StartStages(r.backend))
      /\ Has(t) \subseteq StartMakes(r.backend) /\ r.create = "no"
      /\ StartStages(r.backend)[r.stage].armed \/ Has(t) \subseteq {"cred"}
      /\ StartStages(r.backend)[r.stage].armed \/ y.proxy # "open"
  BY <1>1 DEF Local, Staged, Starting, Proxied, Call
<1>3. /\ made \subseteq StartMakes(r.backend) /\ made \subseteq Kinds
      /\ StartStages(r.backend)[r.stage].armed \/ made = {}
  BY <1>2, StartStageFacts DEF Call
<1>4. /\ Has(t)' = Has(t) \cup made /\ (\A u \in Tasks \ {t} : Has(u)' = Has(u))
      /\ world \subseteq world' /\ (world \subseteq Kinds \X Tasks => world' \subseteq Kinds \X Tasks)
  BY <1>3, Makes
<1>5. Ready(y, Has(t)')
  BY <1>2, <1>3, <1>4 DEF Ready
<1>6. /\ NextStage(y) \in Record /\ Local(NextStage(y), Has(t)')
      /\ FailedStart(y) \in Record /\ Local(FailedStart(y), Has(t)')
  BY <1>5, NextStageIsLocal, FailedStartIsLocal
<1>7. Counted(t)
  BY <1>1 DEF Counted
<1>8. faults' \in Nat
  BY FaultIsCounted
<1>9. stale' \subseteq stale /\ stale' \subseteq world' /\ world' \subseteq Kinds \X Tasks /\ crashes' \in Nat
  BY <1>1, <1>4
<1>10. \A u \in Tasks \ {t} : Has(u)' \subseteq Has(u)
  BY <1>4
<1> QED
  BY <1>6, <1>7, <1>8, <1>9, <1>10, TaskMoves

\* The stages whose calls make what the job needs.
LEMMA StartCalls ==
    ASSUME IInv, NEW t \in Tasks, StartStage(t) \/ StartFails(t) \/ Tolerated(t)
    PROVE  IInv'
<1> DEFINE r == task[t]
<1>1. /\ r \in Record /\ Local(r, Has(t)) /\ probe \in {"none", "running", "seen"} /\ r.at = "start"
      /\ At(t, "start") /\ task \in [Tasks -> Record]
  BY DEF IInv, TypeOK, StartStage, StartFails, Tolerated, At
<1>2. (r.backend # "docker" => r.proxy = "none") /\ (Call(t).armed \/ r.proxy # "open")
  BY <1>1 DEF Local, Proxied, Starting, Call
<1>3. CASE StartStage(t)
  <2>1. PICK h \in IF Call(t).makes \cap {"svc", "pod"} # {} THEN {"none", "starting"} ELSE {r.health} :
            task' = [task EXCEPT ![t] = NextStage([@ EXCEPT !.health = h])]
    BY <1>3 DEF StartStage
  <2> DEFINE y == [r EXCEPT !.health = h]
  <2>2. h \in {"none", "starting", "healthy", "unhealthy", "gone"}
    BY <1>1 DEF Record
  <2>3. y \in Record
    BY <1>1, <2>2 DEF Record
  <2>4. y.backend = r.backend /\ y.stage = r.stage /\ y.create = r.create /\ y.proxy = r.proxy
    BY <1>1 DEF Record
  <2>5. task' = [task EXCEPT ![t] = NextStage(y)]
    BY <2>1, <1>1
  <2> HIDE DEF y
  <2>6. world' = world \cup Own(t, Call(t).makes) /\ UNCHANGED <<stale, sweep, crashes, probe, faults>>
    BY <1>3 DEF StartStage
  <2> QED
    BY <1>1, <1>2, <2>3, <2>4, <2>5, <2>6, StartMoves
<1>4. CASE StartFails(t)
  <2>1. PICK made \in LostAnswer(Call(t).makes) : world' = world \cup Own(t, made)
    BY <1>4 DEF StartFails
  <2>2. task' = [task EXCEPT ![t] = FailedStart(r)]
    BY <1>1, <1>4 DEF StartFails
  <2>3. UNCHANGED <<stale, sweep, crashes, probe>> /\ ((faults' = faults) \/ Fault)
    BY <1>4 DEF StartFails
  <2> QED
    BY <1>1, <1>2, <2>1, <2>2, <2>3, StartMoves DEF LostAnswer
<1>5. CASE Tolerated(t)
  <2>1. PICK made \in LostAnswer(Call(t).makes) :
            world' = world \cup Own(t, made) /\ ((faults' = faults) \/ Fault)
    BY <1>5 DEF Tolerated
  <2>2. task' = [task EXCEPT ![t] = NextStage(r)]
    BY <1>1, <1>5 DEF Tolerated
  <2>3. UNCHANGED <<stale, sweep, crashes, probe>>
    BY <1>5 DEF Tolerated
  <2> QED
    BY <1>1, <1>2, <2>1, <2>2, <2>3, StartMoves DEF LostAnswer
<1> QED
  BY <1>3, <1>4, <1>5

\* The stages that make nothing: the image, the proxy and the services' health.
LEMMA StartWaits ==
    ASSUME IInv, NEW t \in Tasks,
           PullImage(t) \/ StartDockerProxy(t) \/ WaitUntilHealthy(t) \/ ServiceReadyTimeout(t)
    PROVE  IInv'
<1> DEFINE r == task[t]
<1>1. /\ r \in Record /\ Local(r, Has(t)) /\ probe \in {"none", "running", "seen"}
      /\ At(t, "start") /\ r.at = "start" /\ task \in [Tasks -> Record] /\ UNCHANGED <<world, stale, sweep, crashes>>
  BY DEF IInv, TypeOK, PullImage, StartDockerProxy, Probing, WaitUntilHealthy, ServiceReadyTimeout, At
<1>2. world' = world \cup Own(t, {}) /\ {} \subseteq Call(t).makes
  BY <1>1 DEF Own
<1>3. (r.backend # "docker" => r.proxy = "none") /\ (Call(t).armed \/ r.proxy # "open")
  BY <1>1 DEF Local, Proxied, Starting, Call
<1>4. CASE PullImage(t)
  <2>1. task' = [task EXCEPT ![t] = NextStage(r)] \/ task' = [task EXCEPT ![t] = FailedStart(r)]
    BY <1>1, <1>4 DEF PullImage
  <2>2. probe' = probe /\ ((faults' = faults) \/ Fault)
    BY <1>4 DEF PullImage
  <2> QED
    BY <1>1, <1>2, <1>3, <2>1, <2>2, StartMoves
<1>5. CASE StartDockerProxy(t)
  <2>1. PICK p \in {"open", "none"} : task' = [task EXCEPT ![t] = NextStage([@ EXCEPT !.proxy = p])]
    BY <1>5 DEF StartDockerProxy
  <2> DEFINE y == [r EXCEPT !.proxy = p]
  <2>2. y \in Record
    BY <1>1 DEF Record
  <2>3. y.backend = r.backend /\ y.stage = r.stage /\ y.create = r.create
    BY <1>1 DEF Record
  <2>4. task' = [task EXCEPT ![t] = NextStage(y)]
    BY <2>1, <1>1
  <2>5. r.backend = "docker" /\ Call(t).armed
    <3>1. r.backend \in Platforms /\ r.stage \in 1 .. Len(StartStages(r.backend))
      BY <1>1 DEF Local, Staged
    <3>2. StartStages(r.backend)[r.stage].call = "proxy"
      BY <1>5 DEF StartDockerProxy, Probing, Call
    <3> QED
      BY <3>1, <3>2, StartStageFacts DEF Call
  <2>6. probe' \in {"none", "running", "seen"} /\ ((faults' = faults) \/ Fault)
    BY <1>1, <1>5 DEF StartDockerProxy
  <2> HIDE DEF y
  <2> QED
    BY <1>1, <1>2, <2>2, <2>3, <2>4, <2>5, <2>6, StartMoves
<1>6. CASE WaitUntilHealthy(t)
  <2>1. task' = [task EXCEPT ![t] = NextStage(r)] \/ task' = [task EXCEPT ![t] = FailedStart(r)]
    BY <1>1, <1>6 DEF WaitUntilHealthy
  <2>2. probe' = probe /\ faults' = faults
    BY <1>6 DEF WaitUntilHealthy
  <2> QED
    BY <1>1, <1>2, <1>3, <2>1, <2>2, StartMoves
<1>7. CASE ServiceReadyTimeout(t)
  <2>1. task' = [task EXCEPT ![t] = FailedStart(r)]
    BY <1>1, <1>7 DEF ServiceReadyTimeout
  <2>2. probe' = probe /\ faults' = faults
    BY <1>7 DEF ServiceReadyTimeout
  <2> QED
    BY <1>1, <1>2, <1>3, <2>1, <2>2, StartMoves
<1> QED
  BY <1>4, <1>5, <1>6, <1>7

\* What happens to a task while it starts: its context ends, the remains of an
\* earlier run are looked for, the proxy's directory probed, a service's health
\* read.
LEMMA StartEvents ==
    ASSUME IInv, NEW t \in Tasks, CtxDone(t) \/ Preclean(t) \/ probeDockerProxyDirectory(t) \/ HealthChanges(t)
    PROVE  IInv'
<1> DEFINE r == task[t]
<1>1. /\ r \in Record /\ Local(r, Has(t)) /\ probe \in {"none", "running", "seen"} /\ task \in [Tasks -> Record]
  BY DEF IInv, TypeOK
<1>2. CASE CtxDone(t)
  <2> DEFINE x == [r EXCEPT !.ctx = "done"]
  <2>1. x \in Record /\ task' = [task EXCEPT ![t] = x] /\ r.at \in {"start", "preclean"}
    BY <1>1, <1>2 DEF CtxDone, Set, Record
  <2>2. /\ x.at = r.at /\ x.stage = r.stage /\ x.backend = r.backend /\ x.create = r.create /\ x.proxy = r.proxy
        /\ x.missed = r.missed /\ x.pre = r.pre
    BY <1>1 DEF Record
  <2> HIDE DEF x
  <2>3. Local(x, Has(t))
    BY <1>1, <2>1, <2>2 DEF Local, Staged, Starting, Proxied, Running, Serving, Clearing, Ending
  <2>4. Counted(t)
    BY <2>1 DEF Counted
  <2> QED
    BY <1>1, <1>2, <2>1, <2>3, <2>4, TaskOnly DEF CtxDone
<1>3. CASE Preclean(t)
  <2> DEFINE x == [r EXCEPT !.at = "preclean", !.stage = 1, !.pre = TRUE, !.err = FALSE]
  <2>1. x \in Record
    BY <1>1 DEF Record, Places
  <2>2. task' = [task EXCEPT ![t] = x] /\ r.at = "start"
    BY <1>1, <1>3 DEF Preclean, At
  <2>3. /\ x.at = "preclean" /\ x.stage = 1 /\ x.backend = r.backend /\ x.create = r.create /\ x.proxy = r.proxy
        /\ x.missed = r.missed
    BY <1>1 DEF Record
  <2>4. r.backend \in Platforms /\ r.stage \in 1 .. Len(StartStages(r.backend))
    BY <1>1, <2>2 DEF Local, Staged
  <2>5. r.backend = "docker"
    <3>1. StartStages(r.backend)[r.stage].call = "preclean"
      BY <1>3 DEF Preclean, Call
    <3> QED
      BY <2>4, <3>1, StartStageFacts
  <2>6. 1 \in 1 .. Len(CleanStages(r.backend))
    BY <2>4, FirstStages
  <2> HIDE DEF x
  <2>7. Local(x, Has(t))
    BY <1>1, <2>2, <2>3, <2>4, <2>5, <2>6 DEF Local, Staged, Starting, Proxied, Running, Serving, Clearing, Ending
  <2>8. Counted(t)
    BY <2>2 DEF Counted
  <2> QED
    BY <1>1, <1>3, <2>1, <2>2, <2>7, <2>8, TaskOnly DEF Preclean
<1>4. CASE probeDockerProxyDirectory(t)
  <2>1. PICK p \in {"usable", "probing"} : Set(t, "proxy", p)
    BY <1>4 DEF probeDockerProxyDirectory
  <2> DEFINE x == [r EXCEPT !.proxy = p]
  <2>2. x \in Record /\ task' = [task EXCEPT ![t] = x] /\ r.at = "start"
    BY <1>1, <1>4, <2>1 DEF probeDockerProxyDirectory, Probing, At, Set, Record
  <2>3. /\ x.at = r.at /\ x.stage = r.stage /\ x.backend = r.backend /\ x.create = r.create
        /\ x.missed = r.missed /\ x.pre = r.pre /\ x.proxy # "open"
    BY <1>1 DEF Record
  <2>4. r.backend = "docker"
    <3>1. r.backend \in Platforms /\ r.stage \in 1 .. Len(StartStages(r.backend))
      BY <1>1, <2>2 DEF Local, Staged
    <3>2. StartStages(r.backend)[r.stage].call = "proxy"
      BY <1>4 DEF probeDockerProxyDirectory, Probing, Call
    <3> QED
      BY <3>1, <3>2, StartStageFacts
  <2> HIDE DEF x
  <2>5. Local(x, Has(t))
    BY <1>1, <2>2, <2>3, <2>4 DEF Local, Staged, Starting, Proxied, Running, Serving, Clearing, Ending
  <2>6. Counted(t)
    BY <2>2 DEF Counted
  <2>7. probe' \in {"none", "running", "seen"}
    BY <1>1, <1>4 DEF probeDockerProxyDirectory
  <2> QED
    BY <1>1, <1>4, <2>2, <2>5, <2>6, <2>7, TaskOnly DEF probeDockerProxyDirectory
<1>5. CASE HealthChanges(t)
  <2>1. PICK h \in {"healthy", "unhealthy", "gone"} : Set(t, "health", h)
    BY <1>5 DEF HealthChanges
  <2> DEFINE x == [r EXCEPT !.health = h]
  <2>2. x \in Record /\ task' = [task EXCEPT ![t] = x] /\ r.at = "start"
    BY <1>1, <1>5, <2>1 DEF HealthChanges, At, Set, Record
  <2>3. /\ x.at = r.at /\ x.stage = r.stage /\ x.backend = r.backend /\ x.create = r.create
        /\ x.missed = r.missed /\ x.pre = r.pre /\ x.proxy = r.proxy
    BY <1>1 DEF Record
  <2> HIDE DEF x
  <2>5. Local(x, Has(t))
    BY <1>1, <2>2, <2>3 DEF Local, Staged, Starting, Proxied, Running, Serving, Clearing, Ending
  <2>6. Counted(t)
    BY <2>2 DEF Counted
  <2> QED
    BY <1>1, <1>5, <2>2, <2>5, <2>6, TaskOnly DEF HealthChanges
<1> QED
  BY <1>2, <1>3, <1>4, <1>5


\* The steps end, or panic, and their summaries are uploaded.
LEMMA StepsLeave ==
    ASSUME IInv, NEW t \in Tasks,
           StepsEnd(t) \/ tryUploadJobSummary(t) \/ uploadJobSummary(t) \/ StepPanics(t)
    PROVE  IInv'
<1> DEFINE r == task[t]
<1>1. /\ r \in Record /\ Local(r, Has(t)) /\ probe \in {"none", "running", "seen"} /\ task \in [Tasks -> Record]
  BY DEF IInv, TypeOK
<1>2. r.at \in {"steps", "summary"} /\ Counted(t)
  BY DEF StepsEnd, tryUploadJobSummary, uploadJobSummary, StepPanics, At, Counted
<1>3. r.backend \in Platforms /\ 1 \in 1 .. Len(CleanStages(r.backend))
  BY <1>1, <1>2, FirstStages DEF Local, Staged
<1>4. CASE StepsEnd(t)
  <2> DEFINE x == [r EXCEPT !.at = "summary", !.stage = 1, !.pre = FALSE, !.err = FALSE]
  <2>1. x \in Record
    BY <1>1 DEF Record, Places
  <2>2. task' = [task EXCEPT ![t] = x]
    BY <1>1, <1>4 DEF StepsEnd
  <2>3. /\ x.at = "summary" /\ x.backend = r.backend /\ x.create = r.create /\ x.proxy = r.proxy
        /\ x.missed = r.missed /\ x.pre = FALSE
    BY <1>1 DEF Record
  <2> HIDE DEF x
  <2>4. Local(x, Has(t))
    BY <1>1, <1>2, <2>3 DEF Local, Staged, Starting, Proxied, Running, Serving, Clearing, Ending
  <2> QED
    BY <1>1, <1>2, <1>4, <2>1, <2>2, <2>4, TaskOnly DEF StepsEnd
<1>5. CASE tryUploadJobSummary(t)
  <2> DEFINE x == [r EXCEPT !.at = "clean", !.stage = 1]
  <2>1. x \in Record
    BY <1>1 DEF Record, Places
  <2>2. task' = [task EXCEPT ![t] = x]
    BY <1>1, <1>5 DEF tryUploadJobSummary
  <2>3. /\ x.at = "clean" /\ x.stage = 1 /\ x.backend = r.backend /\ x.create = r.create /\ x.proxy = r.proxy
        /\ x.missed = r.missed /\ x.pre = r.pre
    BY <1>1 DEF Record
  <2>4. ~r.pre
    BY <1>1, <1>5 DEF Local, Staged, tryUploadJobSummary, At
  <2> HIDE DEF x
  <2>5. Local(x, Has(t))
    BY <1>1, <1>2, <1>3, <2>3, <2>4 DEF Local, Staged, Starting, Proxied, Running, Serving, Clearing, Ending
  <2> QED
    BY <1>1, <1>2, <1>5, <2>1, <2>2, <2>5, TaskOnly DEF tryUploadJobSummary
<1>6. CASE uploadJobSummary(t)
  <2> DEFINE x == [r EXCEPT !.stage = 2]
  <2>1. x \in Record /\ task' = [task EXCEPT ![t] = x] /\ r.at = "summary"
    BY <1>1, <1>6 DEF Record, uploadJobSummary, Set, At
  <2>3. /\ x.at = r.at /\ x.backend = r.backend /\ x.create = r.create /\ x.proxy = r.proxy
        /\ x.missed = r.missed /\ x.pre = r.pre
    BY <1>1 DEF Record
  <2> HIDE DEF x
  <2>4. Local(x, Has(t))
    BY <1>1, <2>1, <2>3 DEF Local, Staged, Starting, Proxied, Running, Serving, Clearing, Ending
  <2> QED
    BY <1>1, <1>2, <1>6, <2>1, <2>4, TaskOnly DEF uploadJobSummary
<1>7. CASE StepPanics(t)
  <2> DEFINE m == r.missed \cup OfTheJob
             x == [r EXCEPT !.at = "finish", !.stage = 0, !.missed = m]
  <2>1. task' = [task EXCEPT ![t] = x] /\ r.at = "steps"
    BY <1>1, <1>7 DEF StepPanics, At
  <2>2. m \in SUBSET Kinds /\ "left" \in m /\ r.missed \subseteq m /\ OfTheJob \subseteq m
    BY <1>1 DEF Record, OfTheJob, Kinds
  <2> HIDE DEF m
  <2>3. x \in Record
    BY <1>1, <2>2 DEF Record, Places
  <2>4. x.at = "finish" /\ x.missed = m /\ x.backend = r.backend /\ x.proxy = r.proxy /\ x.create = r.create
    BY <1>1 DEF Record
  <2> HIDE DEF x
  <2>5. Has(t) \ r.missed \subseteq StepsMake(r.backend)
    BY <1>1, <2>1 DEF Local, Running, Serving
  <2>6. StepsMake(r.backend) \ OfTheJob \subseteq {"cred"} \cup Workspace
    BY DEF StepsMake, StartMakes, OfTheJob, Kinds
  <2>7. Has(t) \ m \subseteq {"cred"} \cup Workspace
    BY <2>2, <2>5, <2>6
  <2>8. Local(x, Has(t))
    BY <1>1, <1>2, <2>2, <2>4, <2>7 DEF Local, Staged, Starting, Proxied, Running, Serving, Clearing, Ending
  <2> QED
    BY <1>1, <1>2, <1>7, <2>1, <2>3, <2>8, TaskOnly DEF StepPanics
<1> QED
  BY <1>4, <1>5, <1>6, <1>7

\* What the steps make: processes on the host, and whatever a create that the
\* proxy admitted makes, at once or late.
LEMMA StepsMakeThings ==
    ASSUME IInv, NEW t \in Tasks, StepForks(t) \/ AdmitCreate(t) \/ CreateTakesEffect(t)
    PROVE  IInv'
<1> DEFINE r == task[t]
<1>1. /\ r \in Record /\ Local(r, Has(t)) /\ probe \in {"none", "running", "seen"} /\ task \in [Tasks -> Record]
      /\ world \subseteq Kinds \X Tasks /\ stale \subseteq world /\ crashes \in Nat /\ faults \in Nat
  BY DEF IInv, TypeOK
<1>2. CASE StepForks(t)
  <2>1. r.at = "steps" /\ r.backend = "host" /\ world' = world \cup Own(t, {"proc"}) /\ {"proc"} \subseteq Kinds
        /\ UNCHANGED <<task, stale, sweep, probe, faults, crashes>>
    BY <1>2 DEF StepForks, At, Kinds
  <2>2. /\ Has(t)' = Has(t) \cup {"proc"} /\ (\A u \in Tasks \ {t} : Has(u)' = Has(u))
        /\ world \subseteq world' /\ (world \subseteq Kinds \X Tasks => world' \subseteq Kinds \X Tasks)
    BY <2>1, Makes
  <2>3. Local(r, Has(t)')
    <3>1. "proc" \in StepsMake("host")
      BY DEF StepsMake
    <3>2. Staged(r) /\ Starting(r, Has(t)') /\ Proxied(r, Has(t)')
      BY <1>1, <2>1 DEF Local, Staged, Starting, Proxied
    <3>3. Running(r, Has(t)' \ r.missed)
      BY <1>1, <2>1, <2>2, <3>1 DEF Local, Running
    <3>4. Clearing(r, Has(t)' \ r.missed) /\ Ending(r, Has(t)' \ r.missed)
      BY <2>1 DEF Clearing, Ending
    <3> QED
      BY <3>2, <3>3, <3>4 DEF Local
  <2>4. task' = [task EXCEPT ![t] = r] /\ Counted(t)
    BY <1>1, <2>1 DEF Counted
  <2>5. stale' \subseteq stale /\ stale' \subseteq world' /\ world' \subseteq Kinds \X Tasks /\ crashes' \in Nat
        /\ faults' \in Nat /\ probe' \in {"none", "running", "seen"} /\ sweep' = sweep
    BY <1>1, <2>1, <2>2
  <2>6. \A u \in Tasks \ {t} : Has(u)' \subseteq Has(u)
    BY <2>2
  <2> QED
    BY <1>1, <2>3, <2>4, <2>5, <2>6, TaskMoves
<1>3. CASE AdmitCreate(t)
  <2> DEFINE x == [r EXCEPT !.create = "admitted"]
  <2>1. x \in Record /\ task' = [task EXCEPT ![t] = x]
    BY <1>1, <1>3 DEF AdmitCreate, Set, Record
  <2>2. r.at \notin {"start", "preclean"} /\ r.proxy = "open"
    BY <1>3 DEF AdmitCreate
  <2>3. /\ x.at = r.at /\ x.stage = r.stage /\ x.backend = r.backend /\ x.create = "admitted" /\ x.proxy = r.proxy
        /\ x.missed = r.missed /\ x.pre = r.pre /\ x.hadProxy = r.hadProxy /\ x.volumes = r.volumes
    BY <1>1 DEF Record
  <2>4. /\ r.at \notin {"dead", "ended"} => r.backend = "docker"
        /\ r.at \notin {"idle", "received", "prepare", "register"}
    BY <1>1, <2>2 DEF Local, Proxied
  <2> HIDE DEF x
  <2>5. Local(x, Has(t))
    <3>1. Staged(x) /\ Starting(x, Has(t)) /\ Proxied(x, Has(t))
      BY <1>1, <2>2, <2>3, <2>4 DEF Local, Staged, Starting, Proxied
    <3>2. Running(x, Has(t) \ x.missed)
      BY <1>1, <2>2, <2>3 DEF Local, Running, Serving
    <3>3. Clearing(x, Has(t) \ x.missed)
      BY <1>1, <2>2, <2>3 DEF Local, Clearing
    <3>4. Ending(x, Has(t) \ x.missed)
      BY <1>1, <2>2, <2>3 DEF Local, Ending, Deferred
    <3> QED
      BY <3>1, <3>2, <3>3, <3>4 DEF Local
  <2>6. Counted(t) \/ ~Counted(t)'
    BY <1>1, <2>1, <2>3 DEF Counted
  <2> QED
    BY <1>1, <1>3, <2>1, <2>5, <2>6, TaskOnly DEF AdmitCreate
<1>4. CASE CreateTakesEffect(t)
  <2>1. PICK made \in SUBSET {"left"} : world' = world \cup Own(t, made)
    BY <1>4 DEF CreateTakesEffect
  <2>2. made \subseteq Kinds /\ made \subseteq {"left"}
    BY DEF Kinds
  <2>3. /\ Has(t)' = Has(t) \cup made /\ (\A u \in Tasks \ {t} : Has(u)' = Has(u))
        /\ world \subseteq world' /\ (world \subseteq Kinds \X Tasks => world' \subseteq Kinds \X Tasks)
    BY <2>1, <2>2, Makes
  <2> DEFINE x == [r EXCEPT !.create = "no"]
  <2>4. x \in Record /\ task' = [task EXCEPT ![t] = x] /\ r.create # "no"
    BY <1>1, <1>4 DEF CreateTakesEffect, Set, Record
  <2>5. /\ x.at = r.at /\ x.stage = r.stage /\ x.backend = r.backend /\ x.create = "no" /\ x.proxy = r.proxy
        /\ x.missed = r.missed /\ x.pre = r.pre /\ x.hadProxy = r.hadProxy /\ x.volumes = r.volumes
    BY <1>1 DEF Record
  <2> HIDE DEF x
  <2>6. Local(x, Has(t)')
    <3>1. Staged(x) /\ Starting(x, Has(t)') /\ Proxied(x, Has(t)')
      BY <1>1, <2>4, <2>5 DEF Local, Staged, Starting, Proxied
    <3>2. "left" \in StepsMake("docker")
      BY DEF StepsMake
    <3>3. CASE "left" \in r.missed
      <4>1. Has(t)' \ x.missed = Has(t) \ r.missed
        BY <2>2, <2>3, <2>5, <3>3
      <4>2. Running(x, Has(t) \ r.missed)
        BY <1>1, <2>5, <3>3 DEF Local, Running, Serving
      <4>3. Clearing(x, Has(t) \ r.missed)
        BY <1>1, <2>5, <3>3 DEF Local, Clearing
      <4>4. Ending(x, Has(t) \ r.missed)
        BY <1>1, <2>5, <3>3 DEF Local, Ending, Deferred
      <4> QED
        BY <3>1, <4>1, <4>2, <4>3, <4>4 DEF Local
    <3>4. CASE "left" \notin r.missed
      <4> DEFINE free == Has(t) \ r.missed
                 next == Has(t)' \ x.missed
      <4>1. next \subseteq free \cup {"left"} /\ r.create = "admitted"
        BY <1>1, <2>2, <2>3, <2>4, <2>5, <3>4 DEF Local, Proxied, Record
      <4>2. Running(r, free) /\ Clearing(r, free) /\ Ending(r, free) /\ Proxied(r, Has(t)) /\ r.stage \in Nat
        BY <1>1 DEF Local, Record
      <4> HIDE DEF free, next
      <4>3. Running(x, next)
        BY <2>5, <3>2, <4>1, <4>2 DEF Running, Serving, Proxied
      <4>4. Clearing(x, next)
        <5>1. SUFFICES ASSUME x.at = "clean", x.backend = "docker", x.stage > 2
                       PROVE  Clearing(x, next)
          BY DEF Clearing
        <5>2. free \subseteq StepsMake("docker") /\ r.proxy # "open" /\ r.hadProxy /\ ~(r.stage > 3)
          BY <2>5, <4>1, <4>2, <5>1 DEF Clearing
        <5>3. ~(x.stage > 4) /\ ~(x.stage > 5)
          BY <2>5, <4>2, <5>2
        <5> QED
          BY <2>5, <3>2, <4>1, <5>2, <5>3 DEF Clearing
      <4>5. Ending(x, next)
        BY <2>5, <3>4, <4>1, <4>2 DEF Ending
      <4> QED
        BY <3>1, <4>3, <4>4, <4>5 DEF Local, next
    <3> QED
      BY <3>3, <3>4
  <2>7. Counted(t) \/ ~Counted(t)'
    BY <1>1, <2>4, <2>5 DEF Counted
  <2>8. stale' \subseteq stale /\ stale' \subseteq world' /\ world' \subseteq Kinds \X Tasks /\ crashes' \in Nat
        /\ faults' \in Nat /\ probe' \in {"none", "running", "seen"} /\ sweep' = sweep
    BY <1>1, <1>4, <2>3 DEF CreateTakesEffect
  <2>9. \A u \in Tasks \ {t} : Has(u)' \subseteq Has(u)
    BY <2>3
  <2> QED
    BY <1>1, <2>4, <2>6, <2>7, <2>8, <2>9, TaskMoves
<1> QED
  BY <1>2, <1>3, <1>4


\* A stage of a teardown, of this run's resources or an earlier one's.
LEMMA CleanMoves ==
    ASSUME IInv, NEW t \in Tasks, NEW x \in Record, task' = [task EXCEPT ![t] = Advance(x)],
           task[t].at \in {"preclean", "clean"}, x.at = task[t].at, x.backend = task[t].backend,
           x.stage = task[t].stage, x.pre = task[t].pre,
           task[t].at = "preclean" => x.create = "no",
           task[t].at = "clean" => Proxied(x, Has(t)'),
           task[t].at = "clean" =>
               /\ Running(Advance(x), Has(t)' \ x.missed) /\ Clearing(Advance(x), Has(t)' \ x.missed)
               /\ Ending(Advance(x), Has(t)' \ x.missed),
           Has(t)' \subseteq Has(t), \A u \in Tasks \ {t} : Has(u)' = Has(u),
           world' \subseteq world, stale' \subseteq stale, stale' \subseteq world', UNCHANGED <<sweep, probe, crashes>>,
           (faults' = faults) \/ Fault
    PROVE  IInv'
<1> DEFINE r == task[t]
<1>1. r \in Record /\ Local(r, Has(t)) /\ Local(r, Has(t)') /\ Counted(t)
  BY Shrinks DEF IInv, TypeOK, Counted
<1>2. Staged(x)
  BY <1>1 DEF Local, Staged
<1>3. Advance(x) \in Record /\ Local(Advance(x), Has(t)')
  <2>1. CASE r.at = "preclean"
    <3>1. Starting(x, Has(t)') /\ Proxied(x, Has(t)')
      BY <1>1, <2>1 DEF Local, Staged, Starting, Proxied
    <3>2. Running(x, Has(t)') /\ Clearing(x, Has(t)') /\ Ending(x, Has(t)')
      BY <2>1 DEF Running, Serving, Clearing, Ending
    <3>3. Local(x, Has(t)')
      BY <3>1, <3>2, <1>2, LeavesOut
    <3> QED
      BY <2>1, <3>3, PrecleanAdvances
  <2>2. CASE r.at = "clean"
    <3>1. /\ Advance(x) \in Record
          /\ Staged(Advance(x)) /\ Starting(Advance(x), Has(t)') /\ Proxied(Advance(x), Has(t)')
          /\ Advance(x).missed = x.missed
      BY <2>2, <1>2, CleanAdvances
    <3> QED
      BY <2>2, <3>1 DEF Local
  <2> QED
    BY <2>1, <2>2
<1>4. faults' \in Nat
  BY FaultIsCounted
<1>5. /\ world' \subseteq Kinds \X Tasks /\ crashes' \in Nat /\ probe' \in {"none", "running", "seen"}
      /\ sweep' = sweep
  BY DEF IInv, TypeOK
<1>6. \A u \in Tasks \ {t} : Has(u)' \subseteq Has(u)
  OBVIOUS
<1> QED
  BY <1>1, <1>3, <1>4, <1>5, <1>6, TaskMoves

\* Removing resources of the given kinds: what stays this run has missed.
LEMMA RemoveEffect ==
    ASSUME IInv, NEW t \in Tasks, NEW kinds, kinds \subseteq Kinds, Remove(t, kinds)
    PROVE  \E x \in Record :
               /\ task' = [task EXCEPT ![t] = Advance(x)]
               /\ x.at = task[t].at /\ x.backend = task[t].backend /\ x.stage = task[t].stage
               /\ x.pre = task[t].pre /\ x.create = task[t].create /\ x.proxy = task[t].proxy
               /\ x.hadProxy = task[t].hadProxy /\ x.volumes = task[t].volumes
               /\ task[t].missed \subseteq x.missed
               /\ ~task[t].pre => Has(t)' \ x.missed = (Has(t) \ task[t].missed) \ kinds
               /\ Has(t)' \subseteq Has(t) /\ (\A u \in Tasks \ {t} : Has(u)' = Has(u))
               /\ world' \subseteq world /\ stale' \subseteq stale /\ stale' \subseteq world'
               /\ UNCHANGED <<sweep, probe, crashes>> /\ ((faults' = faults) \/ Fault)
<1> DEFINE r == task[t]
<1>1. PICK kept \in SUBSET kinds :
        /\ IF kept = {} THEN UNCHANGED faults ELSE Fault
        /\ world' = world \ Own(t, kinds \ kept) /\ stale' = stale \cap world'
        /\ task' = [task EXCEPT ![t] =
               Advance([@ EXCEPT !.err = task[t].err \/ kept # {},
                                 !.missed = task[t].missed \cup (IF task[t].pre THEN {} ELSE kept)])]
        /\ UNCHANGED <<sweep, probe, crashes>>
  BY DEF Remove
<1>2. r \in Record /\ task \in [Tasks -> Record]
  BY DEF IInv, TypeOK
<1> DEFINE e == r.err \/ kept # {}
           d == r.missed \cup (IF r.pre THEN {} ELSE kept)
           x == [r EXCEPT !.err = e, !.missed = d]
<1>3. e \in BOOLEAN /\ d \in SUBSET Kinds
  BY <1>2 DEF Record
<1>4. task' = [task EXCEPT ![t] = Advance(x)]
  BY <1>1, <1>2
<1>6. r.missed \subseteq d /\ (~r.pre => d = r.missed \cup kept)
  OBVIOUS
<1> HIDE DEF e, d
<1>7. x \in Record
  BY <1>2, <1>3 DEF Record
<1>8. /\ x.at = r.at /\ x.backend = r.backend /\ x.stage = r.stage /\ x.pre = r.pre /\ x.create = r.create
      /\ x.proxy = r.proxy /\ x.hadProxy = r.hadProxy /\ x.volumes = r.volumes /\ x.missed = d
  BY <1>2 DEF Record
<1> HIDE DEF x
<1>9. Has(t)' = Has(t) \ (kinds \ kept) /\ (\A u \in Tasks \ {t} : Has(u)' = Has(u)) /\ world' \subseteq world
  BY <1>1, Removes
<1>10. ~r.pre => Has(t)' \ d = (Has(t) \ r.missed) \ kinds
  BY <1>6, <1>9
<1>11. (faults' = faults) \/ Fault
  BY <1>1
<1>12. stale' \subseteq stale /\ stale' \subseteq world' /\ UNCHANGED <<sweep, probe, crashes>> /\ Has(t)' \subseteq Has(t)
  BY <1>1, <1>9
<1> QED
  BY <1>4, <1>6, <1>7, <1>8, <1>9, <1>10, <1>11, <1>12

\* A task in a stage of its teardown.
LEMMA InTeardown ==
    ASSUME IInv, NEW t \in Tasks, NEW call, Cleaning(t, call)
    PROVE  /\ task[t] \in Record /\ Local(task[t], Has(t)) /\ task \in [Tasks -> Record]
           /\ task[t].at \in {"preclean", "clean"} /\ task[t].backend \in Platforms
           /\ CleanStages(task[t].backend)[task[t].stage] = call
           /\ task[t].at = "preclean" => task[t].backend = "docker" /\ task[t].create = "no"
           /\ task[t].at = "clean" => ~task[t].pre
           /\ task[t].backend = "docker" => task[t].stage \in 1 .. 6
           /\ task[t].backend = "kubernetes" => task[t].stage \in 1 .. 2
           /\ task[t].backend = "host" => task[t].stage = 1
<1>1. task[t] \in Record /\ Local(task[t], Has(t)) /\ task \in [Tasks -> Record]
  BY DEF IInv, TypeOK
<1>2. task[t].at \in {"preclean", "clean"} /\ CleanStages(task[t].backend)[task[t].stage] = call
  BY DEF Cleaning, Clean
<1>3. /\ task[t].stage \in 1 .. Len(CleanStages(task[t].backend)) /\ task[t].backend \in Platforms
      /\ task[t].at = "preclean" => task[t].backend = "docker" /\ task[t].create = "no"
      /\ task[t].at = "clean" => ~task[t].pre
  BY <1>1, <1>2 DEF Local, Staged, Proxied
<1> QED
  BY <1>1, <1>2, <1>3, CleanStageFacts


\* The first stages: the services' logs, and the proxy, which is closed before
\* anything is removed.
LEMMA ProxyStages ==
    ASSUME IInv, NEW t \in Tasks, PrintServiceLogs(t) \/ CloseProxy(t) \/ DrainProxy(t)
    PROVE  IInv'
<1> DEFINE r == task[t]
<1>1. UNCHANGED <<world, stale, sweep, probe, crashes>> /\ ((faults' = faults) \/ Fault)
  BY DEF PrintServiceLogs, CloseProxy, DrainProxy
<1>2. /\ Has(t)' = Has(t) /\ (\A u \in Tasks \ {t} : Has(u)' = Has(u))
      /\ world' \subseteq world /\ stale' \subseteq stale /\ stale' \subseteq world'
  BY <1>1 DEF Has, IInv, TypeOK
<1>3. CASE PrintServiceLogs(t)
  <2>1. /\ r \in Record /\ Local(r, Has(t)) /\ task \in [Tasks -> Record]
        /\ r.at \in {"preclean", "clean"} /\ r.backend \in Platforms
        /\ CleanStages(r.backend)[r.stage] = "logs"
        /\ r.at = "preclean" => r.backend = "docker" /\ r.create = "no"
        /\ r.backend = "docker" => r.stage \in 1 .. 6
        /\ r.backend = "kubernetes" => r.stage \in 1 .. 2
        /\ r.backend = "host" => r.stage = 1
    BY <1>3, InTeardown DEF PrintServiceLogs
  <2>2. r.stage = 1 /\ r.stage < Len(CleanStages(r.backend))
    BY <2>1, CleanStageFacts DEF Platforms
  <2>3. task' = [task EXCEPT ![t] = Advance(r)]
    BY <1>3, <2>1 DEF PrintServiceLogs
  <2>4. Proxied(r, Has(t)') /\ Staged(r)
    BY <1>2, <2>1 DEF Local
  <2>5. ASSUME r.at = "clean"
        PROVE  /\ Running(Advance(r), Has(t)' \ r.missed) /\ Clearing(Advance(r), Has(t)' \ r.missed)
               /\ Ending(Advance(r), Has(t)' \ r.missed)
    <3> DEFINE y == Advance(r)
               less == Has(t)' \ r.missed
    <3>1. y.backend = r.backend /\ y.create = r.create /\ y.proxy = r.proxy /\ y.at = "clean" /\ y.stage = 2
      BY <2>1, <2>2, <2>4, <2>5, CleanAdvances
    <3>2. Running(r, less) /\ Serving(r)
      BY <1>2, <2>1, <2>2, <2>5 DEF Local, Serving
    <3> HIDE DEF y, less
    <3>3. Running(y, less)
      BY <3>1, <3>2 DEF Running
    <3>4. Clearing(y, less) /\ Ending(y, less)
      BY <3>1 DEF Clearing, Ending
    <3> QED
      BY <3>3, <3>4 DEF y, less
  <2> QED
    BY <1>1, <1>2, <2>1, <2>3, <2>4, <2>5, CleanMoves
<1>4. CASE CloseProxy(t)
  <2>1. /\ r \in Record /\ Local(r, Has(t)) /\ task \in [Tasks -> Record]
        /\ r.at \in {"preclean", "clean"} /\ r.backend \in Platforms
        /\ CleanStages(r.backend)[r.stage] = "closeProxy"
        /\ r.at = "preclean" => r.backend = "docker" /\ r.create = "no"
        /\ r.backend = "docker" => r.stage \in 1 .. 6
        /\ r.backend = "kubernetes" => r.stage \in 1 .. 2
        /\ r.backend = "host" => r.stage = 1
    BY <1>4, InTeardown DEF CloseProxy
  <2>2. r.backend = "docker" /\ r.stage = 2 /\ r.stage < Len(CleanStages(r.backend))
    BY <2>1, CleanStageFacts DEF Platforms
  <2> DEFINE h == r.hadProxy \/ r.proxy = "open"
             p == IF r.proxy = "open" THEN "closing" ELSE "none"
             x == [r EXCEPT !.hadProxy = h, !.proxy = p]
  <2>3. task' = [task EXCEPT ![t] = Advance(x)]
    BY <1>4, <2>1 DEF CloseProxy
  <2>4. h \in BOOLEAN /\ p \in {"closing", "none"} /\ (r.proxy = "open" => h)
    BY <2>1 DEF Record
  <2> HIDE DEF h, p
  <2>5. x \in Record
    BY <2>1, <2>4 DEF Record
  <2>6. /\ x.at = r.at /\ x.backend = r.backend /\ x.stage = r.stage /\ x.pre = r.pre /\ x.create = r.create
        /\ x.missed = r.missed /\ x.hadProxy = h /\ x.proxy = p
    BY <2>1 DEF Record
  <2> HIDE DEF x
  <2>7. Proxied(x, Has(t)') /\ Staged(x)
    BY <2>1, <2>2, <2>6 DEF Local, Proxied, Staged
  <2>8. ASSUME r.at = "clean"
        PROVE  /\ Running(Advance(x), Has(t)' \ x.missed) /\ Clearing(Advance(x), Has(t)' \ x.missed)
               /\ Ending(Advance(x), Has(t)' \ x.missed)
    <3> DEFINE y == Advance(x)
               less == Has(t)' \ x.missed
    <3>1. /\ y.backend = "docker" /\ y.create = r.create /\ y.proxy = p /\ y.hadProxy = h /\ y.at = "clean"
          /\ y.stage = 3
      BY <2>2, <2>5, <2>6, <2>7, <2>8, CleanAdvances
    <3>2. Running(r, less) /\ Serving(r)
      BY <1>2, <2>1, <2>2, <2>6, <2>8 DEF Local, Serving
    <3> HIDE DEF y, less
    <3>3. Clearing(y, less)
      BY <3>1, <3>2, <2>2, <2>4 DEF Running, Clearing
    <3>4. Running(y, less) /\ Ending(y, less)
      BY <3>1 DEF Running, Serving, Ending
    <3> QED
      BY <3>3, <3>4 DEF y, less
  <2> QED
    BY <1>1, <1>2, <2>1, <2>3, <2>5, <2>6, <2>7, <2>8, CleanMoves
<1>5. CASE DrainProxy(t)
  <2>1. /\ r \in Record /\ Local(r, Has(t)) /\ task \in [Tasks -> Record]
        /\ r.at \in {"preclean", "clean"} /\ r.backend \in Platforms
        /\ CleanStages(r.backend)[r.stage] = "drainProxy"
        /\ r.at = "preclean" => r.backend = "docker" /\ r.create = "no"
        /\ r.backend = "docker" => r.stage \in 1 .. 6
        /\ r.backend = "kubernetes" => r.stage \in 1 .. 2
        /\ r.backend = "host" => r.stage = 1
    BY <1>5, InTeardown DEF DrainProxy
  <2>2. r.backend = "docker" /\ r.stage = 3 /\ r.stage < Len(CleanStages(r.backend))
    BY <2>1, CleanStageFacts DEF Platforms
  <2>3. CASE r.create # "admitted"
    <3> DEFINE x == [r EXCEPT !.proxy = "none"]
    <3>1. task' = [task EXCEPT ![t] = Advance(x)]
      BY <1>5, <2>1, <2>3 DEF DrainProxy
    <3>2. x \in Record
      BY <2>1 DEF Record
    <3>3. /\ x.at = r.at /\ x.backend = r.backend /\ x.stage = r.stage /\ x.pre = r.pre /\ x.create = r.create
          /\ x.missed = r.missed /\ x.hadProxy = r.hadProxy /\ x.proxy = "none"
      BY <2>1 DEF Record
    <3> HIDE DEF x
    <3>4. Proxied(x, Has(t)') /\ Staged(x)
      BY <2>1, <2>2, <3>3 DEF Local, Proxied, Staged
    <3>5. ASSUME r.at = "clean"
          PROVE  /\ Running(Advance(x), Has(t)' \ x.missed) /\ Clearing(Advance(x), Has(t)' \ x.missed)
                 /\ Ending(Advance(x), Has(t)' \ x.missed)
      <4> DEFINE y == Advance(x)
                 less == Has(t)' \ x.missed
      <4>1. /\ y.backend = "docker" /\ y.create = r.create /\ y.proxy = "none" /\ y.hadProxy = r.hadProxy
            /\ y.at = "clean" /\ y.stage = 4
        BY <2>2, <3>2, <3>3, <3>4, <3>5, CleanAdvances
      <4>2. Clearing(r, less)
        BY <1>2, <2>1, <3>3 DEF Local
      <4> HIDE DEF y, less
      <4>3. Clearing(y, less)
        BY <4>1, <4>2, <2>2, <2>3, <3>5 DEF Clearing
      <4>4. Running(y, less) /\ Ending(y, less)
        BY <4>1 DEF Running, Serving, Ending
      <4> QED
        BY <4>3, <4>4 DEF y, less
    <3> QED
      BY <1>1, <1>2, <2>1, <3>1, <3>2, <3>3, <3>4, <3>5, CleanMoves
  <2>4. CASE r.create = "admitted"
    <3> DEFINE d == r.missed \cup {"left"}
               x == [r EXCEPT !.proxy = "none", !.create = "late", !.err = TRUE, !.missed = d]
    <3>1. task' = [task EXCEPT ![t] = Advance(x)]
      BY <1>5, <2>1, <2>4 DEF DrainProxy
    <3>2. d \in SUBSET Kinds /\ r.missed \subseteq d /\ "left" \in d
      BY <2>1 DEF Record, Kinds
    <3> HIDE DEF d
    <3>3. x \in Record
      BY <2>1, <3>2 DEF Record
    <3>4. /\ x.at = r.at /\ x.backend = r.backend /\ x.stage = r.stage /\ x.pre = r.pre /\ x.create = "late"
          /\ x.missed = d /\ x.hadProxy = r.hadProxy /\ x.proxy = "none"
      BY <2>1 DEF Record
    <3> HIDE DEF x
    <3>5. Proxied(x, Has(t)') /\ Staged(x)
      BY <2>1, <2>2, <2>4, <3>2, <3>4 DEF Local, Proxied, Staged
    <3>6. ASSUME r.at = "clean"
          PROVE  /\ Running(Advance(x), Has(t)' \ x.missed) /\ Clearing(Advance(x), Has(t)' \ x.missed)
                 /\ Ending(Advance(x), Has(t)' \ x.missed)
      <4> DEFINE y == Advance(x)
                 has == Has(t) \ r.missed
                 less == Has(t)' \ x.missed
      <4>1. /\ y.backend = "docker" /\ y.create = "late" /\ y.proxy = "none" /\ y.hadProxy = r.hadProxy
            /\ y.at = "clean" /\ y.stage = 4
        BY <2>2, <3>3, <3>4, <3>5, <3>6, CleanAdvances
      <4>2. Clearing(r, has) /\ less \subseteq has
        BY <1>2, <2>1, <3>2, <3>4 DEF Local
      <4> HIDE DEF y, has, less
      <4>3. Clearing(y, less)
        BY <4>1, <4>2, <2>2, <3>6 DEF Clearing
      <4>4. Running(y, less) /\ Ending(y, less)
        BY <4>1 DEF Running, Serving, Ending
      <4> QED
        BY <4>3, <4>4 DEF y, less
    <3> QED
      BY <1>1, <1>2, <2>1, <2>4, <3>1, <3>3, <3>4, <3>5, <3>6, CleanMoves
  <2> QED
    BY <2>3, <2>4
<1> QED
  BY <1>3, <1>4, <1>5


\* The stages that remove, by name or by label.
LEMMA RemovingStages ==
    ASSUME IInv, NEW t \in Tasks, RemoveContainers(t) \/ RemoveLabelled(t) \/ RemovePod(t) \/ RemoveHost(t)
    PROVE  IInv'
<1> DEFINE r == task[t]
           labelled == IF SweepConfig /\ (r.pre \/ r.hadProxy) THEN {"left"} ELSE {}
<1>1. \E call \in {"containers", "labelled", "pod", "scratch"}, kinds \in SUBSET Kinds :
        /\ Cleaning(t, call) /\ Remove(t, kinds)
        /\ call = "containers" => kinds = {"job", "svc"}
        /\ call = "labelled" => kinds = labelled
        /\ call = "pod" => kinds = {"pod", "secret"}
        /\ call = "scratch" => kinds = {"scratch", "proc"} \cup Workspace
  <2>1. /\ {"job", "svc"} \in SUBSET Kinds /\ labelled \in SUBSET Kinds /\ {"pod", "secret"} \in SUBSET Kinds
        /\ {"scratch", "proc"} \cup Workspace \in SUBSET Kinds
    BY DEF Kinds, Workspace
  <2> HIDE DEF labelled
  <2>2. CASE RemoveContainers(t)
    BY <2>1, <2>2 DEF RemoveContainers
  <2>3. CASE RemoveLabelled(t)
    BY <2>1, <2>3 DEF RemoveLabelled, labelled
  <2>4. CASE RemovePod(t)
    BY <2>1, <2>4 DEF RemovePod
  <2>5. CASE RemoveHost(t)
    BY <2>1, <2>5 DEF RemoveHost
  <2> QED
    BY <2>2, <2>3, <2>4, <2>5
<1>2. PICK call \in {"containers", "labelled", "pod", "scratch"}, kinds \in SUBSET Kinds :
        /\ Cleaning(t, call) /\ Remove(t, kinds)
        /\ call = "containers" => kinds = {"job", "svc"}
        /\ call = "labelled" => kinds = labelled
        /\ call = "pod" => kinds = {"pod", "secret"}
        /\ call = "scratch" => kinds = {"scratch", "proc"} \cup Workspace
  BY <1>1
<1>3. /\ r \in Record /\ Local(r, Has(t)) /\ task \in [Tasks -> Record]
      /\ r.at \in {"preclean", "clean"} /\ r.backend \in Platforms
      /\ CleanStages(r.backend)[r.stage] = call
      /\ r.at = "preclean" => r.backend = "docker" /\ r.create = "no"
      /\ r.at = "clean" => ~r.pre
      /\ r.backend = "docker" => r.stage \in 1 .. 6
      /\ r.backend = "kubernetes" => r.stage \in 1 .. 2
      /\ r.backend = "host" => r.stage = 1
  BY <1>2, InTeardown
<1>4. PICK x \in Record :
        /\ task' = [task EXCEPT ![t] = Advance(x)]
        /\ x.at = r.at /\ x.backend = r.backend /\ x.stage = r.stage
        /\ x.pre = r.pre /\ x.create = r.create /\ x.proxy = r.proxy
        /\ x.hadProxy = r.hadProxy /\ x.volumes = r.volumes
        /\ r.missed \subseteq x.missed
        /\ ~r.pre => Has(t)' \ x.missed = (Has(t) \ r.missed) \ kinds
        /\ Has(t)' \subseteq Has(t) /\ (\A u \in Tasks \ {t} : Has(u)' = Has(u))
        /\ world' \subseteq world /\ stale' \subseteq stale /\ stale' \subseteq world'
        /\ UNCHANGED <<sweep, probe, crashes>> /\ ((faults' = faults) \/ Fault)
  BY <1>2, RemoveEffect
<1>5. r.at = "clean" => Proxied(x, Has(t)') /\ Staged(x)
  BY <1>3, <1>4 DEF Local, Proxied, Staged
<1>6. ASSUME r.at = "clean"
      PROVE  /\ Running(Advance(x), Has(t)' \ x.missed) /\ Clearing(Advance(x), Has(t)' \ x.missed)
             /\ Ending(Advance(x), Has(t)' \ x.missed)
  <2> DEFINE y == Advance(x)
             has == Has(t) \ r.missed
             less == Has(t)' \ x.missed
  <2>1. /\ y.backend = r.backend /\ y.create = r.create /\ y.proxy = r.proxy /\ y.hadProxy = r.hadProxy
        /\ y.volumes = r.volumes
        /\ IF r.stage < Len(CleanStages(r.backend)) THEN y.at = "clean" /\ y.stage = r.stage + 1 ELSE y.at = "finish"
    BY <1>4, <1>5, <1>6, CleanAdvances
  <2>2. less = has \ kinds /\ less \subseteq has
    BY <1>3, <1>4, <1>6
  <2>3. Running(r, has) /\ Clearing(r, has) /\ Proxied(r, Has(t)) /\ r.stage \in Nat
    BY <1>3 DEF Local, Record
  <2> HIDE DEF y, has, less
  <2>4. CASE call = "containers"
    <3>1. r.backend = "docker" /\ r.stage = 4 /\ y.at = "clean" /\ y.stage = 5 /\ kinds = {"job", "svc"}
      BY <1>2, <1>3, <2>1, <2>4, CleanStageFacts DEF Platforms
    <3>2. Clearing(y, less)
      BY <1>6, <2>1, <2>2, <2>3, <3>1 DEF Clearing
    <3>3. Running(y, less) /\ Ending(y, less)
      BY <2>1, <3>1 DEF Running, Serving, Ending
    <3> QED
      BY <3>2, <3>3 DEF y, less
  <2>5. CASE call = "labelled"
    <3>1. r.backend = "docker" /\ r.stage = 5 /\ y.at = "clean" /\ y.stage = 6 /\ kinds = labelled
      BY <1>2, <1>3, <2>1, <2>5, CleanStageFacts DEF Platforms
    <3>2. /\ has \subseteq StepsMake("docker") /\ r.proxy # "open" /\ ("left" \in has => r.hadProxy)
          /\ r.create # "admitted" /\ has \cap {"job", "svc"} = {}
      BY <1>6, <2>3, <3>1 DEF Clearing
    <3>3. less \cap {"left"} \subseteq Unswept
      BY <2>2, <3>1, <3>2 DEF Unswept
    <3>4. Clearing(y, less)
      BY <2>1, <2>2, <3>1, <3>2, <3>3 DEF Clearing
    <3>5. Running(y, less) /\ Ending(y, less)
      BY <2>1, <3>1 DEF Running, Serving, Ending
    <3> QED
      BY <3>4, <3>5 DEF y, less
  <2>6. CASE call = "pod"
    <3>1. r.backend = "kubernetes" /\ y.at = "finish" /\ kinds = {"pod", "secret"}
      <4>1. r.backend # "docker" /\ r.backend # "host"
        BY <1>3, <2>6, CleanStageFacts
      <4>2. r.backend = "kubernetes"
        BY <1>3, <4>1 DEF Platforms
      <4>3. r.stage = 2 /\ Len(CleanStages(r.backend)) = 2
        BY <1>3, <2>6, <4>2, CleanStageFacts
      <4>4. ~(r.stage < Len(CleanStages(r.backend)))
        BY <4>3
      <4> QED
        BY <1>2, <2>1, <2>6, <4>2, <4>4
    <3>2. has \subseteq {"cred", "pod", "secret"} /\ r.create = "no" /\ r.proxy = "none"
      BY <1>6, <2>3, <3>1 DEF Running, Serving, StepsMake, StartMakes, Proxied
    <3>3. Ending(y, less)
      BY <2>1, <2>2, <3>1, <3>2 DEF Ending
    <3>4. Running(y, less) /\ Clearing(y, less)
      BY <3>1 DEF Running, Serving, Clearing
    <3> QED
      BY <3>3, <3>4 DEF y, less
  <2>7. CASE call = "scratch"
    <3>1. r.backend = "host" /\ y.at = "finish" /\ kinds = {"scratch", "proc"} \cup Workspace
      <4>1. r.backend # "docker" /\ r.backend # "kubernetes"
        BY <1>3, <2>7, CleanStageFacts
      <4>2. r.backend = "host"
        BY <1>3, <4>1 DEF Platforms
      <4>3. r.stage = 1 /\ Len(CleanStages(r.backend)) = 1
        BY <1>3, <4>2, CleanStageFacts
      <4>4. ~(r.stage < Len(CleanStages(r.backend)))
        BY <4>3
      <4> QED
        BY <1>2, <2>1, <2>7, <4>2, <4>4
    <3>2. has \subseteq {"cred", "scratch", "proc"} \cup Workspace /\ r.create = "no" /\ r.proxy = "none"
      BY <1>6, <2>3, <3>1 DEF Running, Serving, StepsMake, StartMakes, Proxied
    <3>3. Ending(y, less)
      BY <2>1, <2>2, <3>1, <3>2 DEF Ending
    <3>4. Running(y, less) /\ Clearing(y, less)
      BY <3>1 DEF Running, Serving, Clearing
    <3> QED
      BY <3>3, <3>4 DEF y, less
  <2> QED
    BY <2>4, <2>5, <2>6, <2>7
<1> QED
  BY <1>3, <1>4, <1>5, <1>6, CleanMoves

\* The last stage of a docker job's teardown: the network and the volumes.
LEMMA RemovingRest ==
    ASSUME IInv, NEW t \in Tasks, RemoveRest(t)
    PROVE  IInv'
<1> DEFINE r == task[t]
           All(when) == {"net", "link"} \cup (IF when = "now" THEN {"vol"} ELSE {})
           Endpoints(kept) == Own(t, {"job", "svc"} \cup (kept \cap {"link"})) \cap world # {}
           Failed(when, kept) == kept \cup (IF <<"job", t>> \in world THEN All(when) \cap {"vol"} ELSE {})
           Stays(when, kept) == Failed(when, kept) \cup (IF Endpoints(kept) THEN {"net"} ELSE {})
           Body(when, kept) ==
            /\ IF kept = {} THEN UNCHANGED faults ELSE Fault
            /\ world' = world \ Own(t, All(when) \ Stays(when, kept)) /\ stale' = stale \cap world'
            /\ task' = [task EXCEPT ![t] =
                   Advance([@ EXCEPT !.err = r.err \/ Failed(when, kept) # {},
                                     !.missed = r.missed \cup (IF r.pre THEN {} ELSE Stays(when, kept)),
                                     !.volumes = IF r.pre THEN r.volumes ELSE when])]
<1>1. PICK when \in IF r.pre THEN {"now"} ELSE {IF script THEN "now" ELSE "deferred" : script \in Scripts} :
        /\ Cleaning(t, "rest") /\ (\E kept \in SUBSET All(when) : Body(when, kept))
        /\ UNCHANGED <<sweep, probe, crashes>>
  BY Zenon DEF RemoveRest
<1>2. when \in {"now", "deferred"}
  OBVIOUS
<1>3. PICK kept \in SUBSET All(when) : Body(when, kept)
  BY <1>1
<1>4. /\ r \in Record /\ Local(r, Has(t)) /\ task \in [Tasks -> Record]
      /\ r.at \in {"preclean", "clean"} /\ r.backend \in Platforms
      /\ CleanStages(r.backend)[r.stage] = "rest"
      /\ r.at = "preclean" => r.backend = "docker" /\ r.create = "no"
      /\ r.at = "clean" => ~r.pre
      /\ r.backend = "docker" => r.stage \in 1 .. 6
      /\ r.backend = "kubernetes" => r.stage \in 1 .. 2
      /\ r.backend = "host" => r.stage = 1
  BY <1>1, InTeardown
<1>5. r.backend = "docker" /\ r.stage = 6 /\ ~(r.stage < Len(CleanStages(r.backend)))
  <2>1. r.backend # "kubernetes" /\ r.backend # "host"
    BY <1>4, CleanStageFacts
  <2>2. r.backend = "docker"
    BY <1>4, <2>1 DEF Platforms
  <2>3. r.stage = 6
    BY <1>4, <2>2, CleanStageFacts
  <2>4. Len(CleanStages(r.backend)) = 6
    BY <2>2, CleanStageFacts
  <2>5. ~(6 < 6)
    OBVIOUS
  <2> QED
    BY <2>2, <2>3, <2>4, <2>5
<1> DEFINE stays == Stays(when, kept)
           e == r.err \/ Failed(when, kept) # {}
           d == r.missed \cup (IF r.pre THEN {} ELSE stays)
           v == IF r.pre THEN r.volumes ELSE when
           x == [r EXCEPT !.err = e, !.missed = d, !.volumes = v]
<1>6. e \in BOOLEAN /\ d \in SUBSET Kinds /\ v \in {"unread", "now", "deferred"}
  <2>1. stays \subseteq {"net", "link", "vol"}
    OBVIOUS
  <2>2. stays \subseteq Kinds
    BY <2>1 DEF Kinds
  <2> QED
    BY <1>4, <2>2 DEF Record
<1>7. /\ task' = [task EXCEPT ![t] = Advance(x)] /\ world' = world \ Own(t, All(when) \ stays)
      /\ stale' = stale \cap world' /\ ((faults' = faults) \/ Fault)
  BY <1>3, <1>4
<1>8. r.missed \subseteq d /\ (~r.pre => d = r.missed \cup stays /\ v = when)
  OBVIOUS
<1> HIDE DEF e, d, v, stays
<1>9. x \in Record
  <2> DEFINE z == [r EXCEPT !.err = e, !.missed = d]
  <2>1. z \in Record
    BY <1>4, <1>6 DEF Record
  <2>2. x = [z EXCEPT !.volumes = v]
    BY <1>4 DEF Record
  <2> HIDE DEF x, z
  <2> QED
    BY <1>6, <2>1, <2>2 DEF Record
<1>10. /\ x.at = r.at /\ x.backend = r.backend /\ x.stage = r.stage /\ x.pre = r.pre /\ x.create = r.create
       /\ x.proxy = r.proxy /\ x.hadProxy = r.hadProxy /\ x.volumes = v /\ x.missed = d
  BY <1>4 DEF Record
<1> HIDE DEF x
<1>11. /\ Has(t)' = Has(t) \ (All(when) \ stays) /\ (\A u \in Tasks \ {t} : Has(u)' = Has(u))
       /\ world' \subseteq world
  BY <1>7, Removes
<1>12. r.at = "clean" => Proxied(x, Has(t)') /\ Staged(x)
  BY <1>4, <1>8, <1>10 DEF Local, Proxied, Staged
<1>13. ASSUME r.at = "clean"
       PROVE  /\ Running(Advance(x), Has(t)' \ x.missed) /\ Clearing(Advance(x), Has(t)' \ x.missed)
              /\ Ending(Advance(x), Has(t)' \ x.missed)
  <2> DEFINE y == Advance(x)
             has == Has(t) \ r.missed
             less == Has(t)' \ x.missed
  <2>1. y.backend = "docker" /\ y.create = r.create /\ y.proxy = r.proxy /\ y.volumes = when /\ y.at = "finish"
    <3>1. x.at = "clean" /\ Staged(x) /\ Proxied(x, Has(t)') /\ v = when
      BY <1>4, <1>8, <1>10, <1>12, <1>13
    <3>2. x.backend = "docker" /\ x.create = r.create /\ x.proxy = r.proxy /\ x.volumes = when
      BY <1>5, <1>10, <3>1
    <3>3. ~(x.stage < Len(CleanStages(x.backend)))
      BY <1>5, <1>10
    <3>4. /\ y.backend = x.backend /\ y.create = x.create /\ y.proxy = x.proxy /\ y.volumes = x.volumes
          /\ IF x.stage < Len(CleanStages(x.backend)) THEN y.at = "clean" ELSE y.at = "finish"
      BY <1>9, <3>1, CleanAdvances
    <3> HIDE DEF y
    <3> QED
      BY <3>2, <3>3, <3>4
  <2>2. less \subseteq has \ All(when)
    BY <1>4, <1>8, <1>10, <1>11, <1>13
  <2>3. /\ has \subseteq StepsMake("docker") /\ r.create # "admitted" /\ r.proxy # "open"
        /\ has \cap {"job", "svc"} = {} /\ has \cap {"left"} \subseteq Unswept
    BY <1>4, <1>5, <1>13 DEF Local, Clearing
  <2> HIDE DEF y, has, less
  <2>4. less \subseteq {"cred"} \cup Workspace \cup (IF when = "deferred" THEN {"vol"} ELSE {}) \cup Unswept
    BY <2>2, <2>3 DEF StepsMake, StartMakes
  <2>5. Ending(y, less)
    BY <2>1, <2>3, <2>4 DEF Ending, Deferred
  <2>6. Running(y, less) /\ Clearing(y, less)
    BY <2>1 DEF Running, Serving, Clearing
  <2> QED
    BY <2>5, <2>6 DEF y, less
<1>14. stale' \subseteq stale /\ stale' \subseteq world' /\ Has(t)' \subseteq Has(t)
  BY <1>7, <1>11
<1> QED
  BY <1>1, <1>4, <1>7, <1>9, <1>10, <1>11, <1>12, <1>13, <1>14, CleanMoves


\* The end of a task: its workspace, its script, its credential and, after the
\* report, its volumes.
LEMMA EndOfTask ==
    ASSUME IInv, NEW t \in Tasks, Finish(t) \/ runPostTaskScript(t) \/ revokeCache(t) \/ Report(t)
    PROVE  IInv'
<1> DEFINE r == task[t]
<1>1. /\ r \in Record /\ Local(r, Has(t)) /\ probe \in {"none", "running", "seen"} /\ task \in [Tasks -> Record]
      /\ world \subseteq Kinds \X Tasks /\ stale \subseteq world /\ crashes \in Nat
  BY DEF IInv, TypeOK
<1>2. CASE Finish(t)
  <2>1. PICK kept \in SUBSET Workspace, script \in Scripts :
        /\ IF kept = {} THEN UNCHANGED faults ELSE Fault
        /\ world' = world \ Own(t, Workspace \ kept) /\ stale' = stale \cap world'
        /\ task' = [task EXCEPT ![t].at = IF script THEN "script" ELSE "revoke", ![t].missed = @ \cup kept]
    BY <1>2 DEF Finish
  <2> DEFINE p == IF script THEN "script" ELSE "revoke"
             d == r.missed \cup kept
             x == [r EXCEPT !.at = p, !.missed = d]
  <2>2. task' = [task EXCEPT ![t] = x] /\ r.at = "finish" /\ UNCHANGED <<sweep, probe, crashes>>
    BY <1>1, <1>2, <2>1 DEF Finish, At
  <2>3. d \in SUBSET Kinds /\ p \in {"script", "revoke"} /\ p \in Places
    BY <1>1 DEF Record, Places, Workspace, Kinds
  <2>4. d = r.missed \cup kept
    OBVIOUS
  <2>5. (faults' = faults) \/ Fault
    BY <2>1
  <2> HIDE DEF d, p
  <2>6. x \in Record
    BY <1>1, <2>3 DEF Record
  <2>7. /\ x.at = p /\ x.missed = d /\ x.backend = r.backend /\ x.create = r.create /\ x.proxy = r.proxy
        /\ x.volumes = r.volumes
    BY <1>1 DEF Record
  <2> HIDE DEF x
  <2>8. /\ Has(t)' = Has(t) \ (Workspace \ kept) /\ (\A u \in Tasks \ {t} : Has(u)' = Has(u)) /\ world' \subseteq world
    BY <2>1, Removes
  <2>9. Local(x, Has(t)')
    <3>1. Staged(x) /\ Starting(x, Has(t)') /\ Proxied(x, Has(t)')
      BY <1>1, <2>2, <2>3, <2>4, <2>7 DEF Local, Staged, Starting, Proxied
    <3>2. Ending(x, Has(t)' \ x.missed)
      <4> DEFINE has == Has(t) \ r.missed
                 less == Has(t)' \ x.missed
      <4>1. less = has \ Workspace /\ Ending(r, has) /\ r.missed \subseteq x.missed
        BY <1>1, <2>4, <2>7, <2>8 DEF Local
      <4> HIDE DEF has, less
      <4>2. Ending(x, less)
        BY <4>1, <2>2, <2>3, <2>7 DEF Ending, Deferred
      <4> QED
        BY <4>2 DEF less
    <3>3. Running(x, Has(t)' \ x.missed) /\ Clearing(x, Has(t)' \ x.missed)
      BY <2>3, <2>7 DEF Running, Serving, Clearing
    <3> QED
      BY <3>1, <3>2, <3>3 DEF Local
  <2>10. Counted(t) /\ faults' \in Nat
    BY <2>2, <2>5, FaultIsCounted DEF Counted
  <2>11. stale' \subseteq stale /\ stale' \subseteq world' /\ world' \subseteq Kinds \X Tasks
    BY <1>1, <2>1, <2>8
  <2> QED
    BY <1>1, <2>2, <2>6, <2>8, <2>9, <2>10, <2>11, TaskMoves
<1>3. CASE runPostTaskScript(t)
  <2> DEFINE x == [r EXCEPT !.at = "revoke"]
  <2>1. x \in Record /\ task' = [task EXCEPT ![t] = x] /\ r.at = "script"
    BY <1>1, <1>3 DEF runPostTaskScript, Set, At, Record, Places
  <2>2. /\ x.at = "revoke" /\ x.create = r.create /\ x.proxy = r.proxy /\ x.backend = r.backend
        /\ x.missed = r.missed /\ x.volumes = r.volumes
    BY <1>1 DEF Record
  <2> HIDE DEF x
  <2>3. Local(x, Has(t))
    BY <1>1, <2>1, <2>2 DEF Local, Staged, Starting, Proxied, Running, Serving, Clearing, Ending, Deferred
  <2>4. Counted(t)
    BY <2>1 DEF Counted
  <2> QED
    BY <1>1, <1>3, <2>1, <2>3, <2>4, TaskOnly DEF runPostTaskScript
<1>4. CASE revokeCache(t)
  <2>1. PICK kept \in SUBSET {k \in Token : <<k, t>> \in world} :
        /\ postInternalCache(t, {}, kept)
        /\ task' = [task EXCEPT ![t].at = "report", ![t].missed = @ \cup kept]
        /\ stale' = stale \cap world'
    BY <1>4 DEF revokeCache
  <2> DEFINE d == r.missed \cup kept
             x == [r EXCEPT !.at = "report", !.missed = d]
  <2>2. task' = [task EXCEPT ![t] = x] /\ r.at = "revoke" /\ UNCHANGED <<sweep, probe, crashes>>
    BY <1>1, <1>4, <2>1 DEF revokeCache, At
  <2>3. d \in SUBSET Kinds /\ "report" \in Places
    BY <1>1 DEF Record, Places, Token, Kinds
  <2>4. d = r.missed \cup kept
    OBVIOUS
  <2> HIDE DEF d
  <2>5. x \in Record
    BY <1>1, <2>3 DEF Record
  <2>6. /\ x.at = "report" /\ x.missed = d /\ x.backend = r.backend /\ x.create = r.create /\ x.proxy = r.proxy
        /\ x.volumes = r.volumes
    BY <1>1 DEF Record
  <2> HIDE DEF x
  <2>7. kept \subseteq {"cred"} /\ kept \subseteq Has(t) /\ (\A k \in kept : <<k, t>> \in world)
    BY DEF Token, Has, Kinds
  <2>8. world' = world \ Own(t, {"cred"} \ kept)
    <3>1. world' = (world \ Own(t, {"cred"})) \cup Own(t, kept)
      BY <2>1 DEF postInternalCache
    <3>2. \A y \in Own(t, kept) : y \in world /\ y \notin Own(t, {"cred"} \ kept)
      <4>1. \A y \in Own(t, kept) : y[1] \in kept /\ y = <<y[1], t>>
        BY DEF Own
      <4>2. \A y \in Own(t, {"cred"} \ kept) : y[1] \notin kept
        BY DEF Own
      <4> QED
        BY <2>7, <4>1, <4>2
    <3>3. \A y \in Own(t, {"cred"}) : y \in Own(t, kept) \/ y \in Own(t, {"cred"} \ kept)
      BY DEF Own
    <3>4. \A y \in Own(t, {"cred"} \ kept) : y \in Own(t, {"cred"})
      BY DEF Own
    <3> QED
      BY <3>1, <3>2, <3>3, <3>4
  <2>9. /\ Has(t)' = Has(t) \ ({"cred"} \ kept) /\ (\A u \in Tasks \ {t} : Has(u)' = Has(u)) /\ world' \subseteq world
    BY <2>8, Removes
  <2>10. Local(x, Has(t)')
    <3>1. Staged(x) /\ Starting(x, Has(t)') /\ Proxied(x, Has(t)')
      BY <1>1, <2>2, <2>4, <2>6 DEF Local, Staged, Starting, Proxied
    <3>2. Ending(x, Has(t)' \ x.missed)
      <4> DEFINE has == Has(t) \ r.missed
                 less == Has(t)' \ x.missed
      <4>1. less = has \ {"cred"} /\ Ending(r, has) /\ r.missed \subseteq x.missed
        BY <1>1, <2>4, <2>6, <2>7, <2>9 DEF Local
      <4> HIDE DEF has, less
      <4>2. Ending(x, less)
        BY <4>1, <2>2, <2>6 DEF Ending, Deferred
      <4> QED
        BY <4>2 DEF less
    <3>3. Running(x, Has(t)' \ x.missed) /\ Clearing(x, Has(t)' \ x.missed)
      BY <2>6 DEF Running, Serving, Clearing
    <3> QED
      BY <3>1, <3>2, <3>3 DEF Local
  <2>11. (faults' = faults) \/ Fault
    BY <2>1 DEF postInternalCache
  <2>12. Counted(t) /\ faults' \in Nat
    BY <2>2, <2>11, FaultIsCounted DEF Counted
  <2>13. stale' \subseteq stale /\ stale' \subseteq world' /\ world' \subseteq Kinds \X Tasks
    BY <1>1, <2>1, <2>9
  <2> QED
    BY <1>1, <2>2, <2>5, <2>9, <2>10, <2>12, <2>13, TaskMoves
<1>5. CASE Report(t)
  <2> DEFINE volumes == IF r.volumes = "deferred" THEN {"vol"} ELSE {}
             Failed(kept) == kept \cup (IF <<"job", t>> \in world THEN volumes ELSE {})
  <2>1. PICK kept \in SUBSET volumes :
        /\ IF kept = {} THEN UNCHANGED faults ELSE Fault
        /\ world' = world \ Own(t, volumes \ Failed(kept)) /\ stale' = stale \cap world'
        /\ task' = [task EXCEPT ![t] = [Fresh EXCEPT !.at = "ended", !.create = r.create, !.proxy = r.proxy,
                                                     !.missed = r.missed \cup Failed(kept)]]
    BY <1>5 DEF Report
  <2> DEFINE d == r.missed \cup Failed(kept)
             x == [Fresh EXCEPT !.at = "ended", !.create = r.create, !.proxy = r.proxy, !.missed = d]
  <2>2. task' = [task EXCEPT ![t] = x] /\ r.at = "report" /\ UNCHANGED <<sweep, probe, crashes>>
    BY <1>5, <2>1 DEF Report, At
  <2>3. /\ d \in SUBSET Kinds /\ r.create \in {"no", "admitted", "late"}
        /\ r.proxy \in {"none", "probing", "usable", "unusable", "open", "closing"}
    BY <1>1 DEF Record, Kinds
  <2>4. r.missed \subseteq d
    OBVIOUS
  <2>5. /\ Has(t)' = Has(t) \ (volumes \ Failed(kept)) /\ (\A u \in Tasks \ {t} : Has(u)' = Has(u))
        /\ world' \subseteq world
    BY <2>1, Removes
  <2>6. Has(t)' \ d \subseteq (Has(t) \ r.missed) \ Deferred(r)
    BY <2>5 DEF Deferred
  <2> HIDE DEF d
  <2>7. x \in Record
    BY <2>3 DEF Record, Places, Fresh
  <2>8. x.at = "ended" /\ x.missed = d /\ x.create = r.create /\ x.proxy = r.proxy
    BY DEF Fresh
  <2> HIDE DEF x
  <2>9. Local(x, Has(t)')
    <3>1. Staged(x) /\ Starting(x, Has(t)') /\ Proxied(x, Has(t)')
      BY <1>1, <2>4, <2>8 DEF Local, Staged, Starting, Proxied
    <3>2. Ending(x, Has(t)' \ x.missed)
      <4> DEFINE has == Has(t) \ r.missed
                 less == Has(t)' \ x.missed
      <4>1. less \subseteq has \ Deferred(r) /\ Ending(r, has) /\ r.missed \subseteq x.missed
        BY <1>1, <2>4, <2>6, <2>8 DEF Local
      <4> HIDE DEF has, less
      <4>2. Ending(x, less)
        BY <4>1, <2>2, <2>8 DEF Ending
      <4> QED
        BY <4>2 DEF less
    <3>3. Running(x, Has(t)' \ x.missed) /\ Clearing(x, Has(t)' \ x.missed)
      BY <2>8 DEF Running, Serving, Clearing
    <3> QED
      BY <3>1, <3>2, <3>3 DEF Local
  <2>10. (faults' = faults) \/ Fault
    BY <2>1
  <2>11. Counted(t) /\ faults' \in Nat
    BY <2>2, <2>10, FaultIsCounted DEF Counted
  <2>12. stale' \subseteq stale /\ stale' \subseteq world' /\ world' \subseteq Kinds \X Tasks
    BY <1>1, <2>1, <2>5
  <2> QED
    BY <1>1, <2>2, <2>5, <2>7, <2>9, <2>11, <2>12, TaskMoves
<1> QED
  BY <1>2, <1>3, <1>4, <1>5


-----------------------------------------------------------------------------
(* What nobody's task does: the daemon, OnIdle, time and the runner's death. *)

\* The state of the tasks stays the same or becomes another of their own, and
\* resources only disappear.
LEMMA OnlyRemoves ==
    ASSUME IInv, task' = task, world' \subseteq world, stale' \subseteq world',
           (stale' \subseteq stale /\ sweep' = sweep) \/ (stale' \subseteq stale /\ sweep # <<>>)
               \/ (sweep' = <<>>) \/ (\A t \in Tasks : ~Counted(t)),
           sweep' \in Seq({"dirs", "networks", "volumes", "pods"}),
           probe' \in {"none", "running", "seen"}, faults' \in Nat, crashes' \in Nat
    PROVE  IInv'
<1>1. TypeOK'
  BY DEF IInv, TypeOK
<1>2. ASSUME NEW u \in Tasks
      PROVE  Local(task'[u], Has(u)')
  <2>1. Has(u)' \subseteq Has(u)
    BY DEF Has
  <2> QED
    BY <2>1, Shrinks DEF IInv
<1>3. Swept'
  <2>1. \A t \in Tasks : Counted(t)' = Counted(t)
    BY DEF Counted
  <2>2. \A x \in stale' : x[2] \in Tasks
    BY DEF IInv, TypeOK
  <2> QED
    BY <2>1, <2>2 DEF Swept, IInv
<1>4. (\A u \in Tasks : Local(task[u], Has(u)))'
  BY <1>2
<1> QED
  BY <1>1, <1>3, <1>4 DEF IInv

\* The stages of OnIdle remove old resources, or what hangs on them.
LEMMA Sweeps ==
    ASSUME IInv, Sweeper
    PROVE  IInv'
<1>1. /\ task \in [Tasks -> Record] /\ world \subseteq Kinds \X Tasks /\ stale \subseteq world
      /\ sweep \in Seq({"dirs", "networks", "volumes", "pods"})
      /\ probe \in {"none", "running", "seen"} /\ faults \in Nat /\ crashes \in Nat
  BY DEF IInv, TypeOK
<1>2. sweep # <<>> => Tail(sweep) \in Seq({"dirs", "networks", "volumes", "pods"})
  BY <1>1
<1>3. CASE OnIdle
  <2>1. <<"dirs", "networks", "volumes", "pods">> \in Seq({"dirs", "networks", "volumes", "pods"})
    OBVIOUS
  <2> QED
    BY <1>1, <1>3, <2>1, OnlyRemoves DEF OnIdle
<1>4. ASSUME NEW rs, sweep # <<>>, SweepRemoves(rs) PROVE IInv'
  <2>1. /\ world' \subseteq world /\ stale' \subseteq world' /\ stale' \subseteq stale
        /\ UNCHANGED <<task, probe, faults, crashes>> /\ sweep' = Tail(sweep)
    BY <1>1, <1>4 DEF SweepRemoves
  <2> QED
    BY <1>1, <1>2, <1>4, <2>1, OnlyRemoves
<1>5. CASE CleanupStaleDirs
  BY <1>4, <1>5 DEF CleanupStaleDirs, Sweeping
<1>6. CASE RemoveOrphanNetworks
  BY <1>4, <1>6 DEF RemoveOrphanNetworks, Sweeping
<1>7. CASE RemoveOrphanJobVolumes
  BY <1>4, <1>7 DEF RemoveOrphanJobVolumes, Sweeping
<1>8. CASE RemoveOrphanPods
  <2>1. CASE \E rs : SweepRemoves(rs)
    BY <1>4, <1>8, <2>1 DEF RemoveOrphanPods, Sweeping
  <2>2. CASE Fault /\ sweep' = Tail(sweep) /\ UNCHANGED <<task, world, stale, probe, crashes>>
    <3>1. faults' \in Nat
      BY <2>2, FaultIsCounted
    <3>2. sweep # <<>>
      BY <1>8 DEF RemoveOrphanPods, Sweeping
    <3> QED
      BY <1>1, <1>2, <2>2, <3>1, <3>2, OnlyRemoves
  <2> QED
    BY <1>8, <2>1, <2>2 DEF RemoveOrphanPods
<1> QED
  BY <1>3, <1>5, <1>6, <1>7, <1>8 DEF Sweeper

\* Time passes and containers come to their end.
LEMMA Environment ==
    ASSUME IInv, GrowOld \/ \E t \in Tasks : ContainerExpires(t) \/ ServiceEnds(t)
    PROVE  IInv'
<1>1. /\ task \in [Tasks -> Record] /\ world \subseteq Kinds \X Tasks /\ stale \subseteq world
      /\ sweep \in Seq({"dirs", "networks", "volumes", "pods"})
      /\ probe \in {"none", "running", "seen"} /\ faults \in Nat /\ crashes \in Nat
  BY DEF IInv, TypeOK
<1>2. CASE GrowOld
  BY <1>1, <1>2, OnlyRemoves DEF GrowOld
<1>3. CASE \E t \in Tasks : ContainerExpires(t) \/ ServiceEnds(t)
  <2>1. world' \subseteq world /\ stale' \subseteq stale /\ stale' \subseteq world' /\ UNCHANGED <<task, sweep, probe, faults, crashes>>
    BY <1>3 DEF ContainerExpires, ServiceEnds
  <2> QED
    BY <1>1, <2>1, OnlyRemoves
<1> QED
  BY <1>2, <1>3

\* The probe's answer reaches the tasks that wait for it, whether or not they
\* are still starting; it opens no proxy.
LEMMA ProbeAnswers ==
    ASSUME IInv, daemonSeesDir
    PROVE  IInv'
<1>1. PICK found \in {"usable", "unusable", "none"} :
        /\ IF found = "none" THEN Fault ELSE UNCHANGED faults
        /\ probe' = IF found = "usable" THEN "seen" ELSE "none"
        /\ task' = [t \in Tasks |-> [task[t] EXCEPT !.proxy = IF @ = "probing" THEN found ELSE @]]
  BY DEF daemonSeesDir
<1>2. UNCHANGED <<world, stale, sweep, crashes>> /\ ((faults' = faults) \/ Fault)
  BY <1>1 DEF daemonSeesDir
<1>3. ASSUME NEW u \in Tasks
      PROVE  /\ task'[u] \in Record /\ Local(task'[u], Has(u)') /\ task'[u].at = task[u].at
  <2> DEFINE r == task[u]
             p == IF r.proxy = "probing" THEN found ELSE r.proxy
             x == [r EXCEPT !.proxy = p]
  <2>1. r \in Record /\ Local(r, Has(u)) /\ task'[u] = x
    BY <1>1 DEF IInv, TypeOK
  <2>2. p \in {"none", "probing", "usable", "unusable", "open", "closing"} /\ (p = "open" <=> r.proxy = "open")
        /\ (r.proxy = "none" => p = "none")
    BY <2>1 DEF Record
  <2> HIDE DEF p
  <2>3. x \in Record
    BY <2>1, <2>2 DEF Record
  <2>4. /\ x.at = r.at /\ x.stage = r.stage /\ x.backend = r.backend /\ x.create = r.create /\ x.proxy = p
        /\ x.missed = r.missed /\ x.pre = r.pre /\ x.hadProxy = r.hadProxy /\ x.volumes = r.volumes
    BY <2>1 DEF Record
  <2> HIDE DEF x
  <2>5. Has(u)' = Has(u)
    BY <1>2 DEF Has
  <2> HIDE DEF r
  <2>6. Staged(x) /\ Starting(x, Has(u)) /\ Proxied(x, Has(u))
    BY <2>1, <2>2, <2>4 DEF Local, Staged, Starting, Proxied
  <2>7. Running(x, Has(u) \ x.missed)
    BY <2>1, <2>2, <2>4 DEF Local, Running, Serving
  <2>8. Clearing(x, Has(u) \ x.missed)
    BY <2>1, <2>2, <2>4 DEF Local, Clearing
  <2>9. Ending(x, Has(u) \ x.missed)
    BY <2>1, <2>2, <2>4 DEF Local, Ending, Deferred
  <2> QED
    BY <2>1, <2>3, <2>4, <2>5, <2>6, <2>7, <2>8, <2>9 DEF Local, r
<1>4. faults' \in Nat
  BY <1>2, FaultIsCounted
<1>5. TypeOK'
  <2>1. task' \in [Tasks -> Record]
    BY <1>1, <1>3
  <2>2. probe' \in {"none", "running", "seen"}
    BY <1>1
  <2> QED
    BY <1>2, <1>4, <2>1, <2>2 DEF IInv, TypeOK
<1>6. Swept'
  <2>1. \A t \in Tasks : Counted(t)' = Counted(t)
    BY <1>3 DEF Counted
  <2>2. \A x \in stale : x[2] \in Tasks
    BY DEF IInv, TypeOK
  <2> QED
    BY <1>2, <2>1, <2>2 DEF Swept, IInv
<1>7. (\A u \in Tasks : Local(task[u], Has(u)))'
  BY <1>3
<1> QED
  BY <1>5, <1>6, <1>7 DEF IInv

\* A runner that dies forgets its tasks, and nothing is claimed of them.
LEMMA Dies ==
    ASSUME IInv, Crash
    PROVE  IInv'
<1>1. [Fresh EXCEPT !.at = "dead"] \in Record
  BY DEF Record, Fresh, Places
<1>2. ASSUME NEW u \in Tasks
      PROVE  task'[u] \in Record /\ Local(task'[u], Has(u)')
  <2>1. Has(u)' = Has(u)
    BY DEF Has, Crash
  <2>2. CASE task[u].at \in {"idle", "ended"}
    <3> DEFINE r == task[u]
               x == [r EXCEPT !.proxy = "none"]
    <3>1. task'[u] = x /\ r \in Record /\ Local(r, Has(u))
      BY <2>2 DEF Crash, IInv, TypeOK
    <3>2. x \in Record
      BY <3>1 DEF Record
    <3>3. x.at = r.at /\ x.create = r.create /\ x.proxy = "none" /\ x.missed = r.missed
      BY <3>1 DEF Record
    <3> HIDE DEF x
    <3>4. Local(x, Has(u))
      BY <2>2, <3>1, <3>3 DEF Local, Staged, Starting, Proxied, Running, Serving, Clearing, Ending
    <3> QED
      BY <2>1, <3>1, <3>2, <3>4
  <2>3. CASE task[u].at \notin {"idle", "ended"}
    <3> DEFINE x == [Fresh EXCEPT !.at = "dead"]
    <3>1. task'[u] = x
      BY <2>3 DEF Crash
    <3>2. x.at = "dead" /\ x.create = "no"
      BY DEF Fresh
    <3> HIDE DEF x
    <3>3. Local(x, Has(u)')
      BY <3>2 DEF Local, Staged, Starting, Proxied, Running, Serving, Clearing, Ending
    <3> QED
      BY <1>1, <3>1, <3>3 DEF x
  <2> QED
    BY <2>2, <2>3
<1>3. task' \in [Tasks -> Record]
  <2>1. task' = [u \in Tasks |-> task'[u]]
    BY DEF Crash
  <2> QED
    BY <1>2, <2>1
<1>4. TypeOK'
  <2>1. <<>> \in Seq({"dirs", "networks", "volumes", "pods"})
    OBVIOUS
  <2>2. crashes' \in Nat /\ probe' \in {"none", "running", "seen"} /\ sweep' = <<>>
    BY DEF Crash, IInv, TypeOK
  <2> QED
    BY <1>3, <2>1, <2>2 DEF Crash, IInv, TypeOK
<1>5. Swept'
  BY DEF Crash, Swept
<1>6. (\A u \in Tasks : Local(task[u], Has(u)))'
  BY <1>2
<1> QED
  BY <1>4, <1>5, <1>6 DEF IInv

-----------------------------------------------------------------------------
(* The theorems.                                                           *)

\* Nothing exists at first.
LEMMA InitHolds == Init => IInv
<1> SUFFICES ASSUME Init PROVE IInv
  OBVIOUS
<1>1. Fresh \in Record
  BY DEF Fresh, Record, Places
<1>2. TypeOK
  BY <1>1 DEF Init, TypeOK
<1>3. ASSUME NEW t \in Tasks PROVE Local(task[t], Has(t))
  <2>1. Has(t) = {} /\ task[t] = Fresh
    BY DEF Has, Init
  <2>2. Fresh.at = "idle" /\ Fresh.create = "no" /\ Fresh.proxy = "none" /\ Fresh.missed = {}
    BY DEF Fresh
  <2> QED
    BY <2>1, <2>2 DEF Local, Staged, Starting, Proxied, Running, Serving, Clearing, Ending
<1> QED
  BY <1>2, <1>3 DEF IInv, Swept, Init

\* Every step keeps the invariant.
LEMMA NextKeeps == IInv /\ [Next]_vars => IInv'
<1> SUFFICES ASSUME IInv, [Next]_vars PROVE IInv'
  OBVIOUS
<1>1. CASE UNCHANGED vars
  BY <1>1 DEF vars, IInv, TypeOK, Swept, Counted, Has, Local, Staged, Starting, Proxied, Running, Serving, Clearing,
              Ending, Deferred
<1>2. CASE \E t \in Tasks :
              \/ TaskStep(t) \/ Receive(t) \/ CtxDone(t) \/ HealthChanges(t)
              \/ StepPanics(t) \/ StepForks(t) \/ AdmitCreate(t) \/ CreateTakesEffect(t)
  <2>1. PICK t \in Tasks :
              \/ TaskStep(t) \/ Receive(t) \/ CtxDone(t) \/ HealthChanges(t)
              \/ StepPanics(t) \/ StepForks(t) \/ AdmitCreate(t) \/ CreateTakesEffect(t)
    BY <1>2
  <2>2. CASE Receive(t) \/ Run(t) \/ Prepare(t) \/ generateWorkflowFails(t)
    BY <2>2, BeforeStart
  <2>3. CASE registerCacheForTask(t) \/ NewFails(t)
    BY <2>3, Registering
  <2>4. CASE StartStage(t) \/ StartFails(t) \/ Tolerated(t)
    BY <2>4, StartCalls
  <2>5. CASE PullImage(t) \/ StartDockerProxy(t) \/ WaitUntilHealthy(t) \/ ServiceReadyTimeout(t)
    BY <2>5, StartWaits
  <2>6. CASE CtxDone(t) \/ Preclean(t) \/ probeDockerProxyDirectory(t) \/ HealthChanges(t)
    BY <2>6, StartEvents
  <2>7. CASE StepsEnd(t) \/ tryUploadJobSummary(t) \/ uploadJobSummary(t) \/ StepPanics(t)
    BY <2>7, StepsLeave
  <2>8. CASE StepForks(t) \/ AdmitCreate(t) \/ CreateTakesEffect(t)
    BY <2>8, StepsMakeThings
  <2>9. CASE PrintServiceLogs(t) \/ CloseProxy(t) \/ DrainProxy(t)
    BY <2>9, ProxyStages
  <2>10. CASE RemoveContainers(t) \/ RemoveLabelled(t) \/ RemovePod(t) \/ RemoveHost(t)
    BY <2>10, RemovingStages
  <2>11. CASE RemoveRest(t)
    BY <2>11, RemovingRest
  <2>12. CASE Finish(t) \/ runPostTaskScript(t) \/ revokeCache(t) \/ Report(t)
    BY <2>12, EndOfTask
  <2> QED
    BY <2>1, <2>2, <2>3, <2>4, <2>5, <2>6, <2>7, <2>8, <2>9, <2>10, <2>11, <2>12 DEF TaskStep
<1>3. CASE (\E t \in Tasks : ContainerExpires(t) \/ ServiceEnds(t)) \/ GrowOld
  BY <1>3, Environment
<1>4. CASE daemonSeesDir
  BY <1>4, ProbeAnswers
<1>5. CASE Sweeper
  BY <1>5, Sweeps
<1>6. CASE Crash
  BY <1>6, Dies
<1> QED
  BY <1>1, <1>2, <1>3, <1>4, <1>5, <1>6 DEF Next

\* The invariant holds in every reachable state.
THEOREM Invariance == Spec => []IInv
  BY InitHolds, NextKeeps, PTL DEF Spec

\* Type correctness of the job environments' model.
THEOREM TypeCorrect == Spec => []TypeOK
<1>1. IInv => TypeOK
  BY DEF IInv
<1> QED
  BY <1>1, Invariance, PTL

\* A task that ended leaves only what a failed removal, a drain that timed out
\* or a panic made it miss, kind by kind: for any number of tasks at once,
\* faults and deaths of the runner.
THEOREM TeardownTheorem == Spec => []TeardownLeavesNothing
<1>1. IInv => TeardownLeavesNothing
  <2> SUFFICES ASSUME IInv, NEW t \in Tasks, task[t].at = "ended"
               PROVE  Own(t, Kinds) \cap world \subseteq Own(t, task[t].missed \cup Unswept)
    BY DEF TeardownLeavesNothing, At, Unswept
  <2>1. Has(t) \ task[t].missed \subseteq Unswept
    BY DEF IInv, Local, Ending
  <2>2. \A x \in Own(t, Kinds) \cap world : x[1] \in Has(t) /\ x[2] = t /\ x = <<x[1], x[2]>>
    BY DEF Own, Has
  <2> QED
    BY <2>1, <2>2 DEF Own
<1> QED
  BY <1>1, Invariance, PTL

\* What OnIdle removes belongs to no task that is running, although tasks may
\* start while it removes.
THEOREM SweepTheorem == Spec => SweepSparesLive
<1>1. IInv /\ [Next]_vars => [sweep # <<>> /\ sweep' = Tail(sweep) => \A r \in world \ world' : ~Counted(r[2])]_vars
  <2> SUFFICES ASSUME IInv, Next, sweep # <<>>, sweep' = Tail(sweep), NEW r \in world \ world'
               PROVE  ~Counted(r[2])
    BY DEF vars
  <2>1. sweep \in Seq({"dirs", "networks", "volumes", "pods"}) /\ \A x \in stale : ~Counted(x[2])
    BY DEF IInv, TypeOK, Swept
  <2>2. Tail(sweep) # sweep
    <3>1. Len(sweep) \in Nat /\ Len(sweep) # 0 /\ Len(Tail(sweep)) = Len(sweep) - 1
      BY <2>1
    <3>2. \A n \in Nat : n - 1 # n
      OBVIOUS
    <3> HIDE <2>1
    <3>3. Len(Tail(sweep)) # Len(sweep)
      BY <3>1, <3>2
    <3> QED
      BY <3>3
  <2>3. Sweeper \/ Crash
    <3>1. ASSUME NEW t \in Tasks, Receive(t) \/ Run(t) \/ Prepare(t) \/ generateWorkflowFails(t)
                 \/ registerCacheForTask(t) \/ NewFails(t) \/ CtxDone(t) \/ HealthChanges(t)
          PROVE  sweep' = sweep
      BY <3>1 DEF Receive, Run, Prepare, generateWorkflowFails, registerCacheForTask, NewFails, CtxDone, HealthChanges
    <3>2. ASSUME NEW t \in Tasks, StartStage(t) \/ StartFails(t) \/ Tolerated(t) \/ Preclean(t) \/ PullImage(t)
                 \/ probeDockerProxyDirectory(t) \/ StartDockerProxy(t) \/ WaitUntilHealthy(t) \/ ServiceReadyTimeout(t)
          PROVE  sweep' = sweep
      BY <3>2 DEF StartStage, StartFails, Tolerated, Preclean, PullImage, probeDockerProxyDirectory, StartDockerProxy,
                  WaitUntilHealthy, ServiceReadyTimeout
    <3>3. ASSUME NEW t \in Tasks, StepsEnd(t) \/ tryUploadJobSummary(t) \/ uploadJobSummary(t) \/ StepPanics(t)
                 \/ StepForks(t) \/ AdmitCreate(t) \/ CreateTakesEffect(t) \/ PrintServiceLogs(t) \/ CloseProxy(t)
                 \/ DrainProxy(t)
          PROVE  sweep' = sweep
      BY <3>3 DEF StepsEnd, tryUploadJobSummary, uploadJobSummary, StepPanics, StepForks, AdmitCreate,
                  CreateTakesEffect, PrintServiceLogs, CloseProxy, DrainProxy
    <3>4. ASSUME NEW t \in Tasks, RemoveContainers(t) \/ RemoveLabelled(t) \/ RemovePod(t) \/ RemoveHost(t)
          PROVE  sweep' = sweep
      BY <3>4 DEF RemoveContainers, RemoveLabelled, RemovePod, RemoveHost, Remove
    <3>5. ASSUME NEW t \in Tasks, RemoveRest(t) PROVE sweep' = sweep
      BY <3>5, Zenon DEF RemoveRest
    <3>6. ASSUME NEW t \in Tasks, Finish(t) \/ runPostTaskScript(t) \/ revokeCache(t) \/ Report(t)
                 \/ ContainerExpires(t) \/ ServiceEnds(t)
          PROVE  sweep' = sweep
      BY <3>6 DEF Finish, runPostTaskScript, revokeCache, Report, ContainerExpires, ServiceEnds
    <3>7. daemonSeesDir \/ GrowOld => sweep' = sweep
      BY DEF daemonSeesDir, GrowOld
    <3> QED
      BY <2>2, <3>1, <3>2, <3>3, <3>4, <3>5, <3>6, <3>7 DEF Next, TaskStep
  <2>4. ~Crash
    BY DEF Crash
  <2>5. ~OnIdle
    BY DEF OnIdle
  <2>6. CASE CleanupStaleDirs
    BY <2>1, <2>6 DEF CleanupStaleDirs, SweepRemoves, Candidates
  <2>7. CASE RemoveOrphanNetworks
    BY <2>1, <2>7 DEF RemoveOrphanNetworks, SweepRemoves, Candidates
  <2>8. CASE RemoveOrphanJobVolumes
    BY <2>1, <2>8 DEF RemoveOrphanJobVolumes, SweepRemoves, Candidates
  <2>9. CASE RemoveOrphanPods
    BY <2>1, <2>9 DEF RemoveOrphanPods, SweepRemoves, Candidates
  <2> QED
    BY <2>3, <2>4, <2>5, <2>6, <2>7, <2>8, <2>9 DEF Sweeper
<1> QED
  BY <1>1, Invariance, PTL DEF Spec, SweepSparesLive


=============================================================================
