--------------------------- MODULE JobEnvironment ---------------------------
(***************************************************************************)
(* What a task makes outside the runner's own process, and who removes it: *)
(* the containers, network and volumes of a docker job, what the job makes *)
(* itself through the docker proxy, the pod and secret of a Kubernetes     *)
(* job, the scratch directory and processes of a host job, the task's      *)
(* workspace and its credential on an external cache server.               *)
(*                                                                         *)
(* Start (startContainer) and teardown (cleanUpJobContainer) are pipelines *)
(* of calls, each of which may fail, or take effect and lose its answer.   *)
(* OnIdle sweeps what earlier tasks left behind while a task that was just *)
(* received is starting; the runner may die at any moment.                 *)
(***************************************************************************)
EXTENDS Naturals, Sequences, FiniteSets

CONSTANTS
    Tasks,          \* task identifiers; a resource's name holds its task's
    Backends,       \* the platforms tasks may be labelled for
    SweepConfig,    \* container.sweep
    BindWorkdir,    \* container.bind_workdir: each task has a workspace directory of its own
    Scripts,        \* whether a post-task script may be configured
    ExternalCache,  \* cache.external_server is set
    CacheContainer, \* jobs reach the cache through a container put on their network
    MaxFaults,      \* bound: calls that fail or lose their answer
    MaxCrashes      \* bound: deaths of the runner process

ASSUME EnvironmentAssumption ==
    /\ Backends \subseteq {"docker", "kubernetes", "host"}
    /\ SweepConfig \in BOOLEAN /\ BindWorkdir \in BOOLEAN /\ Scripts \subseteq BOOLEAN /\ ExternalCache \in BOOLEAN
    /\ CacheContainer \in BOOLEAN
    /\ MaxFaults \in Nat /\ MaxCrashes \in Nat

VARIABLES
    task,       \* what the runner knows of each task
    world,      \* the resources that exist: pairs of a kind and a task
    stale,      \* those older than the age OnIdle removes them at
    sweep,      \* the stages OnIdle still has to go through
    probe,      \* dockerProxyProbes: can the daemon see the proxy's directory
    faults, crashes

vars == <<task, world, stale, sweep, probe, faults, crashes>>

Kinds == {"job", "svc", "net", "vol", "left", "pod", "secret", "scratch", "proc", "work", "cred", "link"}
Own(t, kinds) == kinds \X {t}

\* A workspace that is not the task's alone is nobody's to remove.
Workspace == IF BindWorkdir THEN {"work"} ELSE {}

\* What only the job's own teardown removes.
OfTheJob == Kinds \ {"work", "cred"}

-----------------------------------------------------------------------------
(* The pipelines.  A stage names its call and the kinds of resource that   *)
(* call makes; "armed" says that cleanUpJobContainer is set by then.       *)

Stage(call, makes, armed) == [call |-> call, makes |-> makes, armed |-> armed]

CredentialsStage == Stage("credentials", {}, FALSE)
EvaluateStage(armed) == Stage("evaluate", {}, armed)
NetworkStage == Stage("network", {"net"}, TRUE)
ConnectStage == Stage("connect", IF CacheContainer THEN {"link"} ELSE {}, TRUE)
ServicesStage == Stage("services", {"svc"}, TRUE)
VolumesStage == Stage("volumes", {"vol"}, TRUE)
UnstartedStage == Stage("unstarted", {}, TRUE)
OptionsStage == Stage("options", {}, TRUE)
CreateStage == Stage("create", {"job"} \cup Workspace, TRUE)
IdsStage == Stage("ids", {}, TRUE)
CopyStage(makes) == Stage("copy", makes, TRUE)
HealthStage == Stage("health", {}, TRUE)

DockerStart == <<
    CredentialsStage, EvaluateStage(TRUE), Stage("preclean", {}, TRUE),
    Stage("pull", {}, TRUE), Stage("proxy", {}, TRUE), NetworkStage, ConnectStage, ServicesStage,
    UnstartedStage, VolumesStage, OptionsStage, CreateStage, Stage("start", {}, TRUE), IdsStage,
    CopyStage({}), HealthStage >>

ClientStage == Stage("client", {}, FALSE)
TemplateStage == Stage("template", {}, TRUE)
ManifestStage == Stage("manifest", {}, TRUE)
SecretStage == Stage("secret", {"secret"}, TRUE)
PodStage == Stage("pod", {"pod"}, TRUE)
StartedStage == Stage("start", {}, TRUE)

KubernetesStart == <<
    ClientStage, EvaluateStage(FALSE), TemplateStage, ManifestStage, SecretStage, PodStage,
    StartedStage, CopyStage({}), UnstartedStage, HealthStage >>

HostStart == << Stage("mkdir", {"scratch"}, TRUE), CopyStage(Workspace) >>

PrecleanStage == 3

StartStages(backend) ==
    IF backend = "docker" THEN DockerStart
    ELSE IF backend = "kubernetes" THEN KubernetesStart ELSE HostStart

CleanStages(backend) ==
    IF backend = "docker" THEN <<"logs", "closeProxy", "drainProxy", "containers", "labelled", "rest">>
    ELSE IF backend = "kubernetes" THEN <<"logs", "pod">> ELSE <<"scratch">>

Fresh ==
    [backend |-> "none", at |-> "idle", stage |-> 0, ctx |-> "live", pre |-> FALSE, err |-> FALSE,
     proxy |-> "none", hadProxy |-> FALSE, create |-> "no", health |-> "none",
     volumes |-> "unread", missed |-> {}]

Init ==
    /\ task = [t \in Tasks |-> Fresh]
    /\ world = {} /\ stale = {} /\ sweep = <<>> /\ probe = "none" /\ faults = 0 /\ crashes = 0

At(t, place) == task[t].at = place
Call(t) == StartStages(task[t].backend)[task[t].stage]
Clean(t) == CleanStages(task[t].backend)[task[t].stage]
Set(t, field, value) == task' = [task EXCEPT ![t][field] = value]
Fault == faults < MaxFaults /\ faults' = faults + 1

\* Between the moment Run counts the task and the moment it has returned.
Counted(t) == task[t].at \in {"prepare", "register", "start", "preclean", "steps", "summary", "clean",
                              "finish", "script", "revoke", "report"}

-----------------------------------------------------------------------------
(* A task comes in, its goroutine calls Run, the server cancels it or its  *)
(* timeout expires.                                                        *)

\* OnIdle runs on the poller's goroutine, so nothing is received meanwhile.
Receive(t) ==
    /\ At(t, "idle") /\ sweep = <<>>
    /\ Set(t, "at", "received")
    /\ UNCHANGED <<world, stale, sweep, probe, faults, crashes>>

Run(t) ==
    /\ At(t, "received")
    /\ Set(t, "at", "prepare")
    /\ UNCHANGED <<world, stale, sweep, probe, faults, crashes>>

\* Later it only ends the steps sooner: teardown has contexts of its own.
CtxDone(t) ==
    /\ task[t].at \in {"start", "preclean"} /\ task[t].ctx = "live"
    /\ Set(t, "ctx", "done")
    /\ UNCHANGED <<world, stale, sweep, probe, faults, crashes>>

-----------------------------------------------------------------------------
(* Before the first call: the workflow is read and planned, the platform   *)
(* chosen, the job's token registered with the cache, the runner set up.   *)

\* The platform of a label of the job's runs-on, else fallbackPlatform.
Prepare(t) ==
    /\ At(t, "prepare")
    /\ \E b \in Backends : task' = [task EXCEPT ![t].at = "register", ![t].backend = b]
    /\ UNCHANGED <<world, stale, sweep, probe, faults, crashes>>

\* A payload that is no workflow, or not of one job, or cannot be planned.
generateWorkflowFails(t) ==
    /\ At(t, "prepare")
    /\ Set(t, "at", "report")
    /\ UNCHANGED <<world, stale, sweep, probe, faults, crashes>>

\* One request to the external server: it takes effect, or does not, or does
\* with its answer lost; either way the task goes on.
postInternalCache(t, made, kept) ==
    /\ IF kept = made THEN UNCHANGED faults ELSE Fault
    /\ world' = (world \ Own(t, {"cred"})) \cup Own(t, kept)

Token == IF ExternalCache THEN {"cred"} ELSE {}

registerCacheForTask(t) ==
    /\ At(t, "register")
    /\ \E kept \in SUBSET Token : postInternalCache(t, Token, kept)
    /\ task' = [task EXCEPT ![t].at = "start", ![t].stage = 1]
    /\ UNCHANGED <<stale, sweep, probe, crashes>>

\* runner.New refuses the configuration; the deferred revoke still happens.
NewFails(t) ==
    /\ At(t, "start") /\ task[t].stage = 1
    /\ task' = [task EXCEPT ![t].at = "revoke", ![t].stage = 0]
    /\ UNCHANGED <<world, stale, sweep, probe, faults, crashes>>

\* The next stage of the start, or the steps when it was the last.
NextStage(r) ==
    IF r.stage < Len(StartStages(r.backend)) THEN [r EXCEPT !.at = "start", !.stage = @ + 1]
    ELSE [r EXCEPT !.at = "steps", !.stage = 0, !.health = "none"]

\* Mutant: a failed start leaves what it has made.
FailedStartLeaks(r) == [r EXCEPT !.at = "finish", !.stage = 0]

\* cleanupFailedStart: with no cleanUpJobContainer only a proxy is closed.
FailedStart(r) ==
    IF StartStages(r.backend)[r.stage].armed
    THEN [r EXCEPT !.at = "clean", !.stage = 1, !.pre = FALSE, !.err = FALSE,
                   !.ctx = "live", !.health = "none"]
    ELSE [r EXCEPT !.at = "finish", !.stage = 0, !.ctx = "live"]

-----------------------------------------------------------------------------
(* Starting.                                                               *)

PlainCalls == {"credentials", "evaluate", "network", "services", "volumes", "options", "create", "copy",
               "client", "template", "manifest", "secret", "pod", "start", "mkdir"}

\* A request that failed may all the same have taken effect, in part or whole.
LostAnswer(makes) == SUBSET makes

\* A service is made with a healthcheck or without one.
StartStage(t) ==
    /\ At(t, "start") /\ Call(t).call \in PlainCalls /\ task[t].ctx = "live"
    /\ world' = world \cup Own(t, Call(t).makes)
    /\ \E h \in IF Call(t).makes \cap {"svc", "pod"} # {} THEN {"none", "starting"} ELSE {task[t].health} :
            task' = [task EXCEPT ![t] = NextStage([@ EXCEPT !.health = h])]
    /\ UNCHANGED <<stale, sweep, probe, faults, crashes>>

\* The call is refused or its answer lost; a finished context fails it too.
StartFails(t) ==
    /\ At(t, "start")
    /\ IF task[t].ctx = "done" THEN UNCHANGED faults ELSE Call(t).call \in PlainCalls /\ Fault
    /\ \E made \in LostAnswer(Call(t).makes) : world' = world \cup Own(t, made)
    /\ task' = [task EXCEPT ![t] = FailedStart(@)]
    /\ UNCHANGED <<stale, sweep, probe, crashes>>

\* The cache's endpoint on the network, the state of the services, the user
\* of the image: a job that cannot have them does without.
TolerantCalls == {"connect", "unstarted", "ids"}

Tolerated(t) ==
    /\ At(t, "start") /\ Call(t).call \in TolerantCalls /\ task[t].ctx = "live"
    /\ \E made \in LostAnswer(Call(t).makes) :
        /\ IF made = Call(t).makes THEN UNCHANGED faults ELSE Fault
        /\ world' = world \cup Own(t, made)
    /\ task' = [task EXCEPT ![t] = NextStage(@)]
    /\ UNCHANGED <<stale, sweep, probe, crashes>>

Preclean(t) ==
    /\ At(t, "start") /\ Call(t).call = "preclean" /\ task[t].ctx = "live"
    /\ task' = [task EXCEPT ![t].at = "preclean", ![t].stage = 1, ![t].pre = TRUE, ![t].err = FALSE]
    /\ UNCHANGED <<world, stale, sweep, probe, faults, crashes>>

\* A registry that fails is tolerated where the image is already here.
PullImage(t) ==
    /\ At(t, "start") /\ Call(t).call = "pull" /\ task[t].ctx = "live"
    /\ \/ task' = [task EXCEPT ![t] = NextStage(@)] /\ UNCHANGED faults
       \/ Fault /\ \E local \in BOOLEAN :
            task' = [task EXCEPT ![t] = IF local THEN NextStage(@) ELSE FailedStart(@)]
    /\ UNCHANGED <<world, stale, sweep, probe, crashes>>

\* The tasks share one probe, and the daemon a later task finds is one it has
\* already been found to see.
Probing(t) == At(t, "start") /\ Call(t).call = "proxy" /\ task[t].ctx = "live"

probeDockerProxyDirectory(t) ==
    /\ Probing(t) /\ task[t].proxy = "none"
    /\ IF probe = "seen" THEN Set(t, "proxy", "usable") /\ UNCHANGED probe
                         ELSE Set(t, "proxy", "probing") /\ probe' = "running"
    /\ UNCHANGED <<world, stale, sweep, faults, crashes>>

\* The probe outlives its callers.  Only a success is kept; those who waited
\* for one that ran out of time try again.
daemonSeesDir ==
    /\ probe = "running"
    /\ \E found \in {"usable", "unusable", "none"} :
        /\ IF found = "none" THEN Fault ELSE UNCHANGED faults
        /\ probe' = IF found = "usable" THEN "seen" ELSE "none"
        /\ task' = [t \in Tasks |-> [task[t] EXCEPT !.proxy = IF @ = "probing" THEN found ELSE @]]
    /\ UNCHANGED <<world, stale, sweep, crashes>>

\* Without a usable directory, or an answer in five seconds, the job runs
\* without a proxy; one that does not start makes the next task probe again.
StartDockerProxy(t) ==
    /\ Probing(t)
    /\ \/ /\ task[t].proxy = "usable" /\ UNCHANGED <<probe, faults>>
          /\ task' = [task EXCEPT ![t] = NextStage([@ EXCEPT !.proxy = "open"])]
       \/ /\ task[t].proxy \in {"probing", "unusable"} /\ UNCHANGED <<probe, faults>>
          /\ task' = [task EXCEPT ![t] = NextStage([@ EXCEPT !.proxy = "none"])]
       \/ /\ task[t].proxy = "usable" /\ Fault /\ probe' = "none"
          /\ task' = [task EXCEPT ![t] = NextStage([@ EXCEPT !.proxy = "none"])]
    /\ UNCHANGED <<world, stale, sweep, crashes>>

\* The container's own healthcheck, as the daemon reports it.
HealthChanges(t) ==
    /\ At(t, "start") /\ task[t].health = "starting"
    /\ \E h \in {"healthy", "unhealthy", "gone"} : Set(t, "health", h)
    /\ UNCHANGED <<world, stale, sweep, probe, faults, crashes>>

\* A context that is over is looked at before the health that was read.
WaitUntilHealthy(t) ==
    /\ At(t, "start") /\ Call(t).call = "health" /\ task[t].ctx = "live"
    /\ \/ task[t].health \in {"none", "healthy", "gone"} /\ task' = [task EXCEPT ![t] = NextStage(@)]
       \/ task[t].health = "unhealthy" /\ task' = [task EXCEPT ![t] = FailedStart(@)]
    /\ UNCHANGED <<world, stale, sweep, probe, faults, crashes>>

\* Mutant: a service may stay in its starting state.
NoReadyTimeout(t) == FALSE

ServiceReadyTimeout(t) ==
    /\ At(t, "start") /\ Call(t).call = "health" /\ task[t].health \in {"starting", "healthy"}
    /\ task' = [task EXCEPT ![t] = FailedStart(@)]
    /\ UNCHANGED <<world, stale, sweep, probe, faults, crashes>>

-----------------------------------------------------------------------------
(* The steps, and what the job makes through the proxied docker socket.    *)

StepsEnd(t) ==
    /\ At(t, "steps")
    /\ task' = [task EXCEPT ![t].at = "summary", ![t].stage = 1, ![t].pre = FALSE, ![t].err = FALSE]
    /\ UNCHANGED <<world, stale, sweep, probe, faults, crashes>>

\* The steps' summaries are read from the container: none, no server that takes
\* them, or no time left of the phase, and the teardown begins.
tryUploadJobSummary(t) ==
    /\ At(t, "summary")
    /\ task' = [task EXCEPT ![t].at = "clean", ![t].stage = 1]
    /\ UNCHANGED <<world, stale, sweep, probe, faults, crashes>>

\* One that could not be put for a passing reason is sent once more.
uploadJobSummary(t) ==
    /\ At(t, "summary") /\ task[t].stage = 1 /\ Fault
    /\ Set(t, "stage", 2)
    /\ UNCHANGED <<world, stale, sweep, probe, crashes>>

\* A panic unwinds to the worker that runs the job, past the job's teardown,
\* which Finally does not defer and which leaves the proxy open; run goes on.
StepPanics(t) ==
    /\ At(t, "steps") /\ Fault
    /\ task' = [task EXCEPT ![t].at = "finish", ![t].stage = 0, ![t].missed = @ \cup OfTheJob]
    /\ UNCHANGED <<world, stale, sweep, probe, crashes>>

StepForks(t) ==
    /\ At(t, "steps") /\ task[t].backend = "host"
    /\ world' = world \cup Own(t, {"proc"})
    /\ UNCHANGED <<task, stale, sweep, probe, faults, crashes>>

\* A create of the job is admitted only while the proxy is open, and is
\* labelled with the job; what runs in the job container goes on calling
\* until that is removed, after a panic also when the task has ended.
AdmitCreate(t) ==
    /\ task[t].at \notin {"start", "preclean"} /\ task[t].proxy = "open" /\ task[t].create = "no"
    /\ <<"job", t>> \in world
    /\ Set(t, "create", "admitted")
    /\ UNCHANGED <<world, stale, sweep, probe, faults, crashes>>

\* The daemon acts on it: in the handler, or late, when that gave up on it.
CreateTakesEffect(t) ==
    /\ task[t].create # "no"
    /\ \E made \in SUBSET {"left"} : world' = world \cup Own(t, made)
    /\ Set(t, "create", "no")
    /\ UNCHANGED <<stale, sweep, probe, faults, crashes>>

-----------------------------------------------------------------------------
(* Teardown, of an earlier run's remains (pre) or of this one.             *)

Cleaning(t, call) == task[t].at \in {"preclean", "clean"} /\ Clean(t) = call

\* After the last stage: on with the start, or with the end of the task.
CleanDone(r) ==
    IF r.at = "preclean"
    THEN LET s == [r EXCEPT !.stage = PrecleanStage, !.pre = FALSE]
         IN  IF r.err \/ r.ctx = "done" THEN FailedStart(s) ELSE NextStage(s)
    ELSE [r EXCEPT !.at = "finish", !.stage = 0]

Advance(r) == IF r.stage < Len(CleanStages(r.backend)) THEN [r EXCEPT !.stage = @ + 1] ELSE CleanDone(r)

\* Removing kinds: what fails stays, is missed, and is all that stays.
Remove(t, kinds) ==
    \E kept \in SUBSET kinds :
        /\ IF kept = {} THEN UNCHANGED faults ELSE Fault
        /\ world' = world \ Own(t, kinds \ kept) /\ stale' = stale \cap world'
        /\ task' = [task EXCEPT ![t] =
               Advance([@ EXCEPT !.err = task[t].err \/ kept # {},
                                 !.missed = task[t].missed \cup (IF task[t].pre THEN {} ELSE kept)])]
        /\ UNCHANGED <<sweep, probe, crashes>>

\* Cut off after fifteen seconds, and no error of the teardown.
PrintServiceLogs(t) ==
    /\ Cleaning(t, "logs")
    /\ task' = [task EXCEPT ![t] = Advance(@)]
    /\ UNCHANGED <<world, stale, sweep, probe, faults, crashes>>

CloseProxy(t) ==
    /\ Cleaning(t, "closeProxy")
    /\ task' = [task EXCEPT ![t] = Advance([@ EXCEPT !.hadProxy = task[t].hadProxy \/ task[t].proxy = "open",
                                                     !.proxy = IF task[t].proxy = "open" THEN "closing" ELSE "none"])]
    /\ UNCHANGED <<world, stale, sweep, probe, faults, crashes>>

\* Close waits for the creates in flight, thirty seconds at most.
DrainProxy(t) ==
    /\ Cleaning(t, "drainProxy")
    /\ \/ /\ task[t].create # "admitted" /\ UNCHANGED faults
          /\ task' = [task EXCEPT ![t] = Advance([@ EXCEPT !.proxy = "none"])]
       \/ /\ task[t].create = "admitted" /\ Fault
          /\ task' = [task EXCEPT ![t] = Advance([@ EXCEPT !.proxy = "none", !.create = "late",
                                                           !.err = TRUE, !.missed = task[t].missed \cup {"left"}])]
    /\ UNCHANGED <<world, stale, sweep, probe, crashes>>

RemoveContainers(t) == Cleaning(t, "containers") /\ Remove(t, {"job", "svc"})

\* Only a job that had a proxy can have left labelled resources behind.
RemoveLabelled(t) ==
    /\ Cleaning(t, "labelled")
    /\ Remove(t, IF SweepConfig /\ (task[t].pre \/ task[t].hadProxy) THEN {"left"} ELSE {})

\* A volume a container still uses cannot be removed; a network that still
\* has endpoints, the cache's among them when taking that off failed, is left
\* to OnIdle.  Without a post-task script the task's volumes are kept for
\* after the report.
RemoveRest(t) ==
    \E when \in IF task[t].pre THEN {"now"} ELSE {IF script THEN "now" ELSE "deferred" : script \in Scripts} :
    LET all == {"net", "link"} \cup (IF when = "now" THEN {"vol"} ELSE {})
    IN  /\ Cleaning(t, "rest")
        /\ \E kept \in SUBSET all :
            LET endpoints == Own(t, {"job", "svc"} \cup (kept \cap {"link"})) \cap world # {}
                failed == kept \cup (IF <<"job", t>> \in world THEN all \cap {"vol"} ELSE {})
                stays == failed \cup (IF endpoints THEN {"net"} ELSE {})
            IN  /\ IF kept = {} THEN UNCHANGED faults ELSE Fault
                /\ world' = world \ Own(t, all \ stays) /\ stale' = stale \cap world'
                /\ task' = [task EXCEPT ![t] =
                       Advance([@ EXCEPT !.err = task[t].err \/ failed # {},
                                         !.missed = task[t].missed \cup (IF task[t].pre THEN {} ELSE stays),
                                         !.volumes = IF task[t].pre THEN task[t].volumes ELSE when])]
        /\ UNCHANGED <<sweep, probe, crashes>>

\* Both deletes are tried; each name was chosen before its create was sent.
RemovePod(t) == Cleaning(t, "pod") /\ Remove(t, {"pod", "secret"})

\* Processes first, so that nothing writes into what is removed; a removal
\* that exceeds its thirty seconds is left to OnIdle.
RemoveHost(t) == Cleaning(t, "scratch") /\ Remove(t, {"scratch", "proc"} \cup Workspace)

\* run removes the bind-mounted workspace.
Finish(t) ==
    /\ At(t, "finish")
    /\ \E kept \in SUBSET Workspace, script \in Scripts :
        /\ task[t].volumes # IF script THEN "deferred" ELSE "now"
        /\ IF kept = {} THEN UNCHANGED faults ELSE Fault
        /\ world' = world \ Own(t, Workspace \ kept) /\ stale' = stale \cap world'
        /\ task' = [task EXCEPT ![t].at = IF script THEN "script" ELSE "revoke", ![t].missed = @ \cup kept]
    /\ UNCHANGED <<sweep, probe, crashes>>

\* It exits, fails to start or is killed with its tree at its timeout, which
\* the task's own context does not cut short; the task is none the wiser.
runPostTaskScript(t) ==
    /\ At(t, "script")
    /\ Set(t, "at", "revoke")
    /\ UNCHANGED <<world, stale, sweep, probe, faults, crashes>>

\* Deferred by run, so it follows every way run returns.
revokeCache(t) ==
    /\ At(t, "revoke")
    /\ \E kept \in SUBSET {k \in Token : <<k, t>> \in world} :
        /\ postInternalCache(t, {}, kept)
        /\ task' = [task EXCEPT ![t].at = "report", ![t].missed = @ \cup kept]
        /\ stale' = stale \cap world'
    /\ UNCHANGED <<sweep, probe, crashes>>

\* Run's defer closes the reporter and then removes the deferred volumes.
Report(t) ==
    LET volumes == IF task[t].volumes = "deferred" THEN {"vol"} ELSE {}
        inUse == <<"job", t>> \in world
    IN  /\ At(t, "report")
        /\ \E kept \in SUBSET volumes :
            LET failed == kept \cup (IF inUse THEN volumes ELSE {})
            IN  /\ IF kept = {} THEN UNCHANGED faults ELSE Fault
                /\ world' = world \ Own(t, volumes \ failed) /\ stale' = stale \cap world'
                /\ task' = [task EXCEPT ![t] = [Fresh EXCEPT !.at = "ended", !.create = task[t].create,
                                                             !.proxy = task[t].proxy,
                                                             !.missed = task[t].missed \cup failed]]
        /\ UNCHANGED <<sweep, probe, crashes>>

-----------------------------------------------------------------------------
(* OnIdle, time, the daemon, and the death of the runner.                  *)

\* Mutant: the sweep does not look whether a task runs.
OnIdleAnytime ==
    /\ sweep = <<>>
    /\ sweep' = <<"dirs", "networks", "volumes", "pods">>
    /\ UNCHANGED <<task, world, stale, probe, faults, crashes>>

\* shouldRunIdleCleanup looks at the tasks that are counted.
OnIdle ==
    /\ sweep = <<>> /\ \A t \in Tasks : ~Counted(t)
    /\ sweep' = <<"dirs", "networks", "volumes", "pods">>
    /\ UNCHANGED <<task, world, stale, probe, faults, crashes>>

Sweeping(stage) == sweep # <<>> /\ Head(sweep) = stage
SweepRemoves(rs) ==
    /\ world' = world \ rs /\ stale' = stale \ rs /\ sweep' = Tail(sweep)
    /\ UNCHANGED <<task, probe, faults, crashes>>
Candidates(kinds) == stale \cap (kinds \X Tasks)

\* Mutant: the scratch directories of host jobs are not swept.
StaleWorkspacesOnly == Sweeping("dirs") /\ SweepRemoves(Candidates({"work"}))

CleanupStaleDirs == Sweeping("dirs") /\ SweepRemoves(Candidates({"scratch", "work"}))

\* A network with no endpoint, or only the cache's, which is taken off first.
RemoveOrphanNetworks ==
    /\ Sweeping("networks")
    /\ LET nets == {r \in Candidates({"net"}) : Own(r[2], {"job", "svc"}) \cap world = {}}
       IN  SweepRemoves(nets \cup {<<"link", r[2]>> : r \in nets})

RemoveOrphanJobVolumes ==
    /\ Sweeping("volumes")
    /\ SweepRemoves({r \in Candidates({"vol"}) : <<"job", r[2]>> \notin world})

\* The secret goes first: a pod is the only way back to it.
RemoveOrphanPods ==
    /\ Sweeping("pods")
    /\ LET pods == Candidates({"pod"})
       IN  \/ SweepRemoves(pods \cup {<<"secret", r[2]>> : r \in pods})
           \/ /\ pods # {} /\ Fault
              /\ sweep' = Tail(sweep) /\ UNCHANGED <<task, world, stale, probe, crashes>>

\* A long time passes: what exists is older than the age.  A sweep is over
\* long before anything made during it is that old.
GrowOld ==
    /\ world # stale /\ sweep = <<>>
    /\ stale' = world
    /\ UNCHANGED <<task, world, sweep, probe, faults, crashes>>

\* The job container sleeps for the task's lifetime and is then removed by the
\* daemon.
ContainerExpires(t) ==
    /\ ~Counted(t) /\ <<"job", t>> \in world
    /\ world' = world \ {<<"job", t>>} /\ stale' = stale \cap world'
    /\ UNCHANGED <<task, sweep, probe, faults, crashes>>

\* A service's main process ends if it ever does.  Nobody removes its container
\* then, but its endpoint is off the network, modelled as its disappearance.
ServiceEnds(t) ==
    /\ ~Counted(t) /\ <<"svc", t>> \in world
    /\ world' = world \ {<<"svc", t>>} /\ stale' = stale \cap world'
    /\ UNCHANGED <<task, sweep, probe, faults, crashes>>

Crash ==
    /\ crashes < MaxCrashes /\ crashes' = crashes + 1
    /\ task' = [t \in Tasks |-> IF task[t].at \in {"idle", "ended"} THEN [task[t] EXCEPT !.proxy = "none"]
                                ELSE [Fresh EXCEPT !.at = "dead"]]
    /\ sweep' = <<>> /\ probe' = "none"
    /\ UNCHANGED <<world, stale, faults>>

-----------------------------------------------------------------------------
TaskStep(t) ==
    \/ Run(t) \/ Prepare(t) \/ generateWorkflowFails(t) \/ registerCacheForTask(t) \/ NewFails(t)
    \/ StartStage(t) \/ StartFails(t) \/ Tolerated(t) \/ Preclean(t) \/ PullImage(t)
    \/ probeDockerProxyDirectory(t) \/ StartDockerProxy(t)
    \/ WaitUntilHealthy(t) \/ ServiceReadyTimeout(t)
    \/ StepsEnd(t) \/ tryUploadJobSummary(t) \/ uploadJobSummary(t)
    \/ PrintServiceLogs(t) \/ CloseProxy(t) \/ DrainProxy(t) \/ RemoveContainers(t) \/ RemoveLabelled(t)
    \/ RemoveRest(t) \/ RemovePod(t) \/ RemoveHost(t) \/ Finish(t)
    \/ runPostTaskScript(t) \/ revokeCache(t) \/ Report(t)

Sweeper == OnIdle \/ CleanupStaleDirs \/ RemoveOrphanNetworks \/ RemoveOrphanJobVolumes \/ RemoveOrphanPods

Next ==
    \/ \E t \in Tasks :
        \/ TaskStep(t) \/ Receive(t) \/ CtxDone(t) \/ HealthChanges(t)
        \/ StepPanics(t) \/ StepForks(t) \/ AdmitCreate(t) \/ CreateTakesEffect(t)
        \/ ContainerExpires(t) \/ ServiceEnds(t)
    \/ daemonSeesDir \/ Sweeper \/ GrowOld \/ Crash

Spec == Init /\ [][Next]_vars

(* Every call of a task returns: it answers, fails or exceeds its timeout. *)
(* The poller goes on polling and idling, job containers reach the end of  *)
(* their lifetime and time passes.  A service may run for ever.            *)
Fairness ==
    /\ \A t \in Tasks : /\ WF_vars(TaskStep(t)) /\ WF_vars(CreateTakesEffect(t))
                        /\ WF_vars(ContainerExpires(t))
    /\ WF_vars(Sweeper)
    /\ SF_vars(GrowOld)

FairSpec == Spec /\ Fairness

-----------------------------------------------------------------------------
(* Properties.                                                             *)

\* cleanupFailedStart, cleanupJobResources, run and its defers: a task that
\* ended leaves only what could not be removed: the kinds whose removal
\* failed (with what hangs on them), what a create made that outlasted the
\* drain of the proxy, and after a panic what the job's own teardown would have
\* removed, but not the workspace and the credential.  It holds whichever call
\* of the start failed, whether or not that call took effect, for a create the
\* job had in flight when its proxy was closed, and whenever the task was
\* cancelled.  Without container.sweep what the job made itself stays.
TeardownLeavesNothing ==
    \A t \in Tasks : At(t, "ended") =>
        Own(t, Kinds) \cap world \subseteq Own(t, task[t].missed \cup (IF SweepConfig THEN {} ELSE {"left"}))

\* OnIdle (runner.go): what it removes belongs to no task that is running,
\* although a task it did not see may start while it removes.
SweepSparesLive ==
    [][sweep # <<>> /\ sweep' = Tail(sweep) => \A r \in world \ world' : ~Counted(r[2])]_vars

\* A task that Run counts ends, or dies with the runner: whatever fails, and
\* also when a service stays in its starting state for ever.
TaskEnds == \A t \in Tasks : Counted(t) ~> task[t].at \in {"ended", "dead"}

\* What a failed teardown, a panic or a dead runner left behind is reclaimed
\* by a later OnIdle: volumes, pods, directories (a workspace is a task's own
\* with bind_workdir only), and the networks no service holds.  No sweep
\* removes containers: a service that outlives its task keeps its network.
OrphansReclaimed ==
    \A t \in Tasks :
        /\ \A k \in {"vol", "pod", "scratch", "work"} : <<k, t>> \in world ~> <<k, t>> \notin world
        /\ task[t].at \in {"ended", "dead"} /\ <<"net", t>> \in world /\ <<"svc", t>> \notin world
           ~> <<"net", t>> \notin world

=============================================================================
