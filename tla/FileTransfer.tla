---------------------------- MODULE FileTransfer ----------------------------
(***************************************************************************)
(* Copying a tar stream into the job's environment (CopyTarStream): the    *)
(* host extracts it itself, a container's daemon is sent it, and a pod is  *)
(* sent it through the API server, or fetches it from the runner with a    *)
(* helper, once, falling back to the API server if the helper never came   *)
(* for it.  A stream is a sequence of entries, entry i being written to    *)
(* file i.  A copy that fails may have written the entries before, and the *)
(* one under way in part; one that fails because its connection was lost   *)
(* may leave a process behind that still extracts what it was sent.        *)
(***************************************************************************)
EXTENDS Naturals, Sequences

CONSTANTS
    Setups,         \* the environments, with whether the helper is "on" or "off"
    Fallback,       \* kubernetes.transfer.fallback
    Width,          \* the files a stream may write
    MaxFaults       \* bound: faults of the network, the environments and the disks

ASSUME TransferAssumption ==
    /\ Setups \subseteq {<<"host", "off">>, <<"docker", "off">>, <<"pod", "off">>, <<"pod", "on">>}
    /\ Fallback \in BOOLEAN /\ Width \in Nat /\ MaxFaults \in Nat

VARIABLES
    env,        \* the job's environment: "none" yet, of one kind, or "gone"
    helper,     \* transferHelper
    copy,       \* [st, body]: the copy under way, and its stream
    stray,      \* the processes left behind: [body, next], a stream and its next entry
    rewritten,  \* history: the files they have written since the copy began
    dest,       \* the files of the environment
    faults

strays == <<stray, rewritten>>
transferVars == <<env, helper, copy, strays, dest, faults>>

NoCopy == [st |-> "idle", body |-> << >>]
NoFiles == [i \in 1 .. Width |-> << >>]
Truncated == <<"truncated">>

TransferInit ==
    /\ env = "none" /\ helper = "off" /\ copy = NoCopy /\ stray = {} /\ dest = NoFiles
    /\ rewritten = {} /\ faults = 0

Fault == faults < MaxFaults /\ faults' = faults + 1
NoFault == UNCHANGED faults

\* What becomes of a pod whose transfer server does not start.
startTransferServer == IF Fallback THEN "pod" ELSE "gone"

\* The environment starts, and with it what a pod is served by; where that fails
\* copies go through the API server, or the job does not start.
setupTransfer ==
    /\ env = "none" /\ UNCHANGED <<copy, strays, dest>>
    /\ \E s \in Setups :
        \/ env' = s[1] /\ helper' = s[2] /\ NoFault
        \/ s[2] = "on" /\ env' = startTransferServer /\ helper' = "off" /\ Fault

\* It is removed with all that runs in it.
RemoveEnvironment ==
    /\ env' = "gone" /\ helper' = "off" /\ copy' = NoCopy /\ stray' = {} /\ dest' = NoFiles
    /\ UNCHANGED rewritten

StartCopy(body) == copy' = [st |-> "start", body |-> body] /\ rewritten' = {} /\ UNCHANGED <<env, helper, stray, dest>>
Copying(st) == copy.st = st /\ UNCHANGED env
Ends(st) == copy' = [copy EXCEPT !.st = st]

\* The first n entries of the stream, and of the next one the beginning.
Extracted(body, n, begun) ==
    dest' = [i \in DOMAIN dest |-> IF i <= n /\ i <= Len(body) THEN body[i]
                                  ELSE IF begun /\ i = n + 1 /\ i <= Len(body) THEN Truncated ELSE dest[i]]
WholeCopy(body) == Extracted(body, Len(body), FALSE)
Torn(body) == \E n \in 0 .. Len(body), begun \in BOOLEAN : Extracted(body, n, begun)

\* Whoever extracts at the other end of a lost connection may not be done.
LeftBehind == stray' \in {stray, stray \cup {[body |-> copy.body, next |-> 1]}} /\ UNCHANGED rewritten

\* An error of the writer of the stream, of the disk or of the daemon fails the
\* copy, and so does an answer of the daemon that is lost.
OneStream(e) ==
    /\ Copying("start") /\ env = e
    /\ \/ WholeCopy(copy.body) /\ Ends("ok") /\ NoFault /\ UNCHANGED strays
       \/ Torn(copy.body) /\ Ends("err") /\ Fault /\ IF e = "host" THEN UNCHANGED strays ELSE LeftBehind
    /\ UNCHANGED helper

HostCopyTarStream == OneStream("host")
DockerCopyTarStream == OneStream("docker")

\* The stream is offered to the helper, which runs in the pod.
offer ==
    /\ Copying("start") /\ env = "pod" /\ helper = "on" /\ Ends("offered")
    /\ UNCHANGED <<helper, strays, dest, faults>>

\* The helper has come for it: the offer is taken.  An error of the writer cuts
\* the response off.
ServeHTTP ==
    /\ Copying("offered")
    /\ (Ends("taken") /\ NoFault) \/ (Ends("cut") /\ Fault)
    /\ UNCHANGED <<helper, strays, dest>>

\* Mutant: a tar that is cut off counts as whole.
ShortTar == "ok"

\* The helper extracts what comes: a response that is cut off fails it.
CutOff == "err"

FetchKubernetesTransfer ==
    /\ \/ Copying("taken") /\ WholeCopy(copy.body) /\ Ends("ok")
       \/ Copying("cut") /\ Torn(copy.body) /\ Ends(CutOff)
    /\ UNCHANGED <<helper, strays, faults>>

\* The helper could not be run, or its exec was lost while it goes on.  The
\* offer is withdrawn: only a stream that nobody took may be sent again.
execLost ==
    /\ copy.st \in {"offered", "taken"} /\ Copying(copy.st) /\ Fault
    /\ IF copy.st = "offered" /\ Fallback THEN Ends("api") /\ helper' = "off" ELSE Ends("err") /\ UNCHANGED helper
    /\ IF copy.st = "taken" THEN LeftBehind ELSE UNCHANGED strays
    /\ UNCHANGED dest

\* A process left behind writes another entry, or finds its stream cut off: who
\* asked for the copy has closed the file the stream was made of.
StrayWrites(s, content) ==
    /\ s.next <= Len(s.body) /\ dest' = [dest EXCEPT ![s.next] = content]
    /\ rewritten' = rewritten \cup {s.next}

StrayHelper ==
    /\ \E s \in stray :
        \/ StrayWrites(s, s.body[s.next]) /\ stray' = (stray \ {s}) \cup {[s EXCEPT !.next = @ + 1]}
        \/ StrayWrites(s, Truncated) /\ stray' = stray \ {s}
        \/ stray' = stray \ {s} /\ UNCHANGED <<dest, rewritten>>
    /\ UNCHANGED <<env, helper, copy, faults>>

\* Through the API server: a stream that fails cancels the exec.
extract ==
    /\ env = "pod" /\ (Copying("api") \/ (Copying("start") /\ helper = "off"))
    /\ \/ WholeCopy(copy.body) /\ Ends("ok") /\ NoFault /\ UNCHANGED strays
       \/ Torn(copy.body) /\ Ends("err") /\ Fault /\ LeftBehind
    /\ UNCHANGED helper

CopySteps ==
    \/ HostCopyTarStream \/ DockerCopyTarStream \/ offer \/ ServeHTTP \/ FetchKubernetesTransfer \/ extract
=============================================================================
