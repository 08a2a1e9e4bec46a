---------------------------- MODULE ActionFetch ----------------------------
(***************************************************************************)
(* One action's repository in the cache that all jobs of all runner        *)
(* processes on a host share: FetchAction brings the commit its ref names  *)
(* into a directory of its own, and jobs read that directory afterwards.   *)
(*                                                                         *)
(* Within a process one caller fetches and the others wait for it; between *)
(* processes the clone lock on the directory serializes them.  A reader    *)
(* holds the lock of the commit's directory, which is only replaced under  *)
(* that lock, when a file in it no longer has the size it was written at.  *)
(* A process may die between any two steps, which frees its locks.         *)
(***************************************************************************)
EXTENDS Naturals, FiniteSets

CONSTANTS
    Jobs, Procs,    \* calls of FetchAction and the runner processes
    ProcOf,         \* the process a job runs in
    Commits,        \* the commits the ref may name
    Modes,          \* how the action is asked for: "online", "offline", "pinned"
    None,
    Attempts,       \* tries of downloadArchive, 3 in the code
    MaxEvents       \* bound: what the environment does to them in all

ASSUME FetchAssumption ==
    /\ ProcOf \in [Jobs -> Procs]
    /\ Modes \subseteq {"online", "offline", "pinned"}
    /\ Commits # {} /\ None \notin Commits /\ None \notin Jobs
    /\ Attempts \in Nat \ {0}
    /\ MaxEvents \in Nat

VARIABLES
    call,        \* each call: where it is, what it knows
    flight,     \* actionFetches: the job that fetches in each process, or None
    dirLock,    \* holder of the lock on the action's directory
    treeLock,   \* holder of the lock on each commit's directory
    disk,       \* what the directory holds
    remote,     \* [mode, tip: the commit the ref names]
    budget      \* events left; whether no replacement of a tree broke off

fetchVars == <<call, flight, dirLock, treeLock, disk, remote, budget>>

\* A call: ctx is its context; sha is what it will return; known and etag are what the
\* record said; via and try say which download is under way; seen are the
\* commits the ref named since the flight began, harm that a tree was damaged.
NewCall ==
    [at |-> "idle", ctx |-> "live", sha |-> None, known |-> None, etag |-> FALSE, via |-> "archive",
     try |-> 1, tagged |-> FALSE, seen |-> {}, harm |-> FALSE]

Fetching == {"lock", "record", "download", "resolve", "extract", "sizes", "place", "swap", "moved", "save", "finish"}

EmptyDir ==
    [record |-> None, etag |-> FALSE, tree |-> [c \in Commits |-> "absent"],
     sizes |-> [c \in Commits |-> "absent"], clone |-> None]

Cached(c, s, tagged) ==
    [EmptyDir EXCEPT !.record = c, !.etag = tagged, !.tree[c] = "whole", !.sizes[c] = s]

\* The cache may hold the commit already, perhaps from a runner that kept no
\* sizes, or one that was cloned and that the ref has left since.
FetchInit ==
    /\ call = [j \in Jobs |-> NewCall]
    /\ flight = [p \in Procs |-> None]
    /\ dirLock = None
    /\ treeLock = [c \in Commits |-> None]
    /\ \E m \in Modes : LET c == CHOOSE d \in Commits : TRUE IN
        /\ remote = [mode |-> m, tip |-> c]
        /\ disk \in {EmptyDir} \cup {Cached(c, s, TRUE) : s \in {"absent", "whole"}}
                   \cup {[Cached(d, "whole", FALSE) EXCEPT !.clone = d] : d \in Commits \ {c}}
    /\ budget = [left |-> MaxEvents, swap |-> TRUE]

Spend == budget.left > 0 /\ budget' = [budget EXCEPT !.left = @ - 1]
Call(j, r) == call' = [call EXCEPT ![j] = r]

Ending(r, sha) == [NewCall EXCEPT !.at = "finish", !.sha = sha, !.ctx = r.ctx, !.seen = r.seen, !.harm = r.harm]

\* The job is over: nothing of its call is kept.
CallOver(how) == [NewCall EXCEPT !.at = how]

-----------------------------------------------------------------------------
(* The disk.                                                               *)

\* Mutant: a tree that is there counts as whole.
ExistsOnly(c) == disk.tree[c] # "absent"

treeIntact(c) == disk.sizes[c] = "whole" /\ disk.tree[c] = "whole"

\* The commit of the record, when it may be used without asking the server.
Legacy(c) == remote.mode = "offline" /\ disk.tree[c] # "absent" /\ disk.sizes[c] = "absent"
Known == IF disk.record # None /\ treeIntact(disk.record) THEN disk.record ELSE None

-----------------------------------------------------------------------------
(* FetchAction: who fetches.                                               *)

FetchAction(j) ==
    /\ call[j].at = "idle"
    /\ IF call[j].ctx = "done" THEN Call(j, CallOver("failed")) /\ UNCHANGED flight
       ELSE IF flight[ProcOf[j]] = None
       THEN /\ Call(j, [NewCall EXCEPT !.at = "lock", !.seen = {remote.tip}])
            /\ flight' = [flight EXCEPT ![ProcOf[j]] = j]
       ELSE Call(j, [call[j] EXCEPT !.at = "follow"]) /\ UNCHANGED flight
    /\ UNCHANGED <<dirLock, treeLock, disk, remote, budget>>

FollowerGivesUp(j) ==
    /\ call[j].at = "follow" /\ call[j].ctx = "done"
    /\ Call(j, CallOver("failed"))
    /\ UNCHANGED <<flight, dirLock, treeLock, disk, remote, budget>>

\* The answer a finished call leaves a job whose own context is still live.
Answered(r, sha) ==
    IF r.ctx = "done" \/ sha = None THEN CallOver("failed") ELSE [NewCall EXCEPT !.at = "fetched", !.sha = sha]

Followers(j) == {f \in Jobs : call[f].at = "follow" /\ ProcOf[f] = ProcOf[j]}

\* The flight is over: with retry its followers fetch for themselves.
Land(j, sha, retry) ==
    /\ call' = [k \in Jobs |->
                 IF k = j THEN Answered(call[j], sha)
                 ELSE IF k \in Followers(j)
                 THEN IF retry THEN [call[k] EXCEPT !.at = "idle"] ELSE Answered(call[k], sha)
                 ELSE call[k]]
    /\ flight' = [flight EXCEPT ![ProcOf[j]] = None]
    /\ dirLock' = IF dirLock = j THEN None ELSE dirLock
    /\ treeLock' = [c \in Commits |-> IF treeLock[c] = j THEN None ELSE treeLock[c]]

\* Mutant: a leader that was cancelled does not land: its followers wait on.
LandsForgotten(j) ==
    /\ call[j].at = "finish"
    /\ IF call[j].ctx = "done"
       THEN /\ call' = [call EXCEPT ![j] = Answered(@, call[j].sha)]
            /\ flight' = [flight EXCEPT ![ProcOf[j]] = None]
            /\ dirLock' = IF dirLock = j THEN None ELSE dirLock
            /\ UNCHANGED treeLock
       ELSE Land(j, call[j].sha, FALSE)
    /\ UNCHANGED <<disk, remote, budget>>

Finish(j) ==
    /\ call[j].at = "finish"
    /\ Land(j, call[j].sha, call[j].ctx = "done")
    /\ UNCHANGED <<disk, remote, budget>>

\* RecoverPanic: the deferred calls run, retry was never cleared.
Panic(j) ==
    /\ call[j].at \in Fetching \ {"moved"} /\ Spend
    /\ Land(j, None, TRUE)
    /\ UNCHANGED <<disk, remote>>

-----------------------------------------------------------------------------
(* fetchAction: the steps of the one that fetches.                         *)

\* The call goes on at a step, or ends with an error or a commit.
Goes(j, where) == Call(j, [call[j] EXCEPT !.at = where])
Ends(j, sha) == Call(j, Ending(call[j], sha))

LockDir(j) ==
    /\ call[j].at = "lock"
    /\ \/ dirLock = None /\ dirLock' = j /\ Goes(j, "record")
       \/ dirLock # None /\ call[j].ctx = "done" /\ Ends(j, None) /\ UNCHANGED dirLock
    /\ UNCHANGED <<flight, treeLock, disk, remote, budget>>

ReadRecord(j) ==
    /\ call[j].at = "record"
    /\ IF disk.record # None /\ Legacy(disk.record) THEN Ends(j, disk.record)
       ELSE IF Known # None /\ remote.mode \in {"offline", "pinned"} THEN Ends(j, Known)
       ELSE Call(j, [call[j] EXCEPT !.at = "download", !.known = Known, !.etag = Known # None /\ disk.etag])
    /\ UNCHANGED <<flight, dirLock, treeLock, disk, remote, budget>>

\* An error of the download: cloning is tried instead, unless the call is over.
DownloadFailed(r) ==
    IF r.ctx = "done" THEN Ending(r, None)
    ELSE [r EXCEPT !.at = "resolve", !.via = "clone", !.tagged = FALSE]

\* One answer of the server: unchanged, the archive of the tip, or an error,
\* of which some are worth another attempt.
DownloadArchive(j) ==
    /\ call[j].at = "download" /\ call[j].via = "archive"
    /\ IF call[j].ctx = "done" THEN Call(j, DownloadFailed(call[j])) /\ UNCHANGED budget
       ELSE \/ /\ call[j].etag /\ call[j].known = remote.tip
               /\ Call(j, [call[j] EXCEPT !.at = "save", !.sha = call[j].known, !.tagged = TRUE])
               /\ UNCHANGED budget
            \/ /\ ~(call[j].etag /\ call[j].known = remote.tip)
               /\ Call(j, [call[j] EXCEPT !.at = "extract", !.sha = remote.tip, !.tagged = TRUE])
               /\ UNCHANGED budget
            \/ /\ Spend
               /\ Call(j, IF call[j].try < Attempts THEN [call[j] EXCEPT !.try = @ + 1] ELSE DownloadFailed(call[j]))
            \/ /\ Spend
               /\ Call(j, DownloadFailed(call[j]))
    /\ UNCHANGED <<flight, dirLock, treeLock, disk, remote>>

\* Mutant: a clone that is there is used as it is.
ReusesStaleClone(j) ==
    /\ call[j].at = "resolve"
    /\ LET tip == IF disk.clone # None THEN disk.clone ELSE remote.tip IN
        /\ disk' = [disk EXCEPT !.clone = tip]
        /\ Call(j, [call[j] EXCEPT !.at = IF treeIntact(tip) THEN "save" ELSE "extract", !.sha = tip])
    /\ UNCHANGED <<flight, dirLock, treeLock, remote, budget>>

\* exportClone and resolveClone: a clone that was there is brought up to date.
CloneIfRequired == disk.clone # None

\* What the ref names in the clone once it is there and, online, fetched.
ResolvedRef == IF CloneIfRequired /\ remote.mode = "offline" THEN disk.clone ELSE remote.tip

ResolveClone(j) ==
    /\ call[j].at = "resolve" /\ call[j].ctx = "live"
    /\ disk' = [disk EXCEPT !.clone = ResolvedRef]
    /\ Call(j, [call[j] EXCEPT !.at = IF treeIntact(ResolvedRef) THEN "save" ELSE "extract", !.sha = ResolvedRef])
    /\ UNCHANGED <<flight, dirLock, treeLock, remote, budget>>

\* A git command fails, or is interrupted because the call is over.
ResolveFails(j) ==
    /\ call[j].at = "resolve"
    /\ IF call[j].ctx = "done" THEN UNCHANGED budget ELSE Spend
    /\ Ends(j, None)
    /\ UNCHANGED <<flight, dirLock, treeLock, disk, remote>>

-----------------------------------------------------------------------------
(* extractTree and installTree.                                            *)

\* The archive names its commit first: an intact tree is not extracted again.
ExtractTree(j) ==
    /\ call[j].at = "extract"
    /\ Goes(j, IF treeIntact(call[j].sha) THEN "save" ELSE "sizes")
    /\ UNCHANGED <<flight, dirLock, treeLock, disk, remote, budget>>

\* After an error of the archive's installation, the clone's ends the call.
InstallFailed(r) ==
    IF r.via = "archive" THEN DownloadFailed(r) ELSE Ending(r, None)

\* A body cut short is worth another attempt, anything else is not.
ExtractFails(j) ==
    /\ call[j].at = "extract"
    /\ \/ call[j].ctx = "done" /\ Call(j, InstallFailed(call[j])) /\ UNCHANGED budget
       \/ Spend /\ Call(j, InstallFailed(call[j]))
       \/ /\ call[j].via = "archive" /\ call[j].ctx = "live" /\ call[j].try < Attempts
          /\ Spend
          /\ Call(j, [call[j] EXCEPT !.at = "download", !.try = @ + 1])
    /\ UNCHANGED <<flight, dirLock, treeLock, disk, remote>>

\* The file of sizes is not replaced at once: until "place" it may be torn.
WriteSizes(j) ==
    /\ call[j].at \in {"sizes", "place"}
    /\ LET c == call[j].sha IN
        \/ /\ call[j].at = "sizes"
           /\ disk' = [disk EXCEPT !.sizes[c] = "torn"] /\ Goes(j, "place")
        \/ /\ call[j].at = "place" /\ disk.tree[c] = "absent"
           /\ disk' = [disk EXCEPT !.sizes[c] = "whole", !.tree[c] = "whole"] /\ Goes(j, "save")
        \/ /\ call[j].at = "place" /\ disk.tree[c] # "absent"
           /\ disk' = [disk EXCEPT !.sizes[c] = "whole"] /\ Goes(j, "swap")
    /\ UNCHANGED <<flight, dirLock, treeLock, remote, budget>>

\* Mutant: the tree is swapped without its lock.
SwapUnlocked(j) ==
    /\ LET c == call[j].sha IN
        \/ /\ call[j].at = "swap"
           /\ disk' = [disk EXCEPT !.tree[c] = "absent"]
           /\ Goes(j, "moved") /\ UNCHANGED <<treeLock, budget>>
        \/ /\ call[j].at = "moved"
           /\ disk' = [disk EXCEPT !.tree[c] = "whole"]
           /\ Goes(j, "save") /\ UNCHANGED <<treeLock, budget>>
    /\ UNCHANGED <<flight, dirLock, remote>>

\* The old tree is moved away under its lock and the new one moved in.
SwapTree(j) ==
    /\ LET c == call[j].sha IN
        \/ /\ call[j].at = "swap" /\ treeLock[c] = None
           /\ treeLock' = [treeLock EXCEPT ![c] = j] /\ disk' = [disk EXCEPT !.tree[c] = "absent"]
           /\ Goes(j, "moved") /\ UNCHANGED budget
        \/ /\ call[j].at = "swap" /\ treeLock[c] # None /\ call[j].ctx = "done"
           /\ Call(j, InstallFailed(call[j])) /\ UNCHANGED <<treeLock, disk, budget>>
        \/ /\ call[j].at = "moved"
           /\ treeLock' = [treeLock EXCEPT ![c] = None] /\ disk' = [disk EXCEPT !.tree[c] = "whole"]
           /\ Goes(j, "save") /\ UNCHANGED budget
        \/ /\ call[j].at = "moved" /\ budget.left > 0
           /\ budget' = [budget EXCEPT !.left = @ - 1, !.swap = FALSE]
           /\ treeLock' = [treeLock EXCEPT ![c] = None] /\ UNCHANGED disk
           /\ Call(j, InstallFailed(call[j]))
    /\ UNCHANGED <<flight, dirLock, remote>>

WriteRecord(j) ==
    /\ call[j].at = "save"
    /\ \/ /\ disk' = [disk EXCEPT !.record = call[j].sha, !.etag = call[j].tagged]
          /\ Ends(j, call[j].sha) /\ UNCHANGED budget
       \/ /\ call[j].sha # call[j].known \/ call[j].tagged # call[j].etag
          /\ Spend /\ disk' = [disk EXCEPT !.record = None, !.etag = FALSE]
          /\ Ends(j, None)
    /\ UNCHANGED <<flight, dirLock, treeLock, remote>>

-----------------------------------------------------------------------------
(* Readers: a step reads the action's metadata when it is prepared, and    *)
(* copies or builds from the tree when it runs, under the same lock.       *)

LockTree(j) ==
    /\ call[j].at = "fetched"
    /\ \/ /\ treeLock[call[j].sha] = None
          /\ treeLock' = [treeLock EXCEPT ![call[j].sha] = j] /\ Goes(j, "reading")
       \/ /\ treeLock[call[j].sha] # None /\ call[j].ctx = "done"
          /\ Call(j, CallOver("failed")) /\ UNCHANGED treeLock
    /\ UNCHANGED <<flight, dirLock, disk, remote, budget>>

ReadTree(j) ==
    /\ call[j].at = "reading"
    /\ treeLock' = [treeLock EXCEPT ![call[j].sha] = None]
    /\ Call(j, IF disk.tree[call[j].sha] = "absent" \/ call[j].ctx = "done" THEN CallOver("failed") ELSE CallOver("ended"))
    /\ UNCHANGED <<flight, dirLock, disk, remote, budget>>

-----------------------------------------------------------------------------
(* The environment: cancellation, the ref, the files and the processes.    *)

CtxDone(j) ==
    /\ call[j].ctx = "live" /\ call[j].at \notin {"ended", "failed", "dead"}
    /\ Spend
    /\ Call(j, [call[j] EXCEPT !.ctx = "done"])
    /\ UNCHANGED <<flight, dirLock, treeLock, disk, remote>>

RefMoves ==
    /\ remote.mode = "online" /\ Spend
    /\ \E c \in Commits \ {remote.tip} :
        /\ remote' = [remote EXCEPT !.tip = c]
        /\ call' = [j \in Jobs |-> [call[j] EXCEPT !.seen = IF call[j].at \in Fetching THEN @ \cup {c} ELSE @]]
    /\ UNCHANGED <<flight, dirLock, treeLock, disk>>

TreeDamaged(c) ==
    /\ disk.tree[c] = "whole" /\ Spend
    /\ disk' = [disk EXCEPT !.tree[c] = "damaged"]
    /\ call' = [j \in Jobs |-> [call[j] EXCEPT !.harm = call[j].at \in Fetching]]
    /\ UNCHANGED <<flight, dirLock, treeLock, remote>>

\* The process dies: its files stay as they are, its locks are released.
Crash(p) ==
    /\ \E j \in Jobs : ProcOf[j] = p /\ call[j].at \notin {"idle", "ended", "failed", "dead"}
    /\ budget.left > 0
    /\ budget' = [budget EXCEPT !.left = @ - 1, !.swap = @ /\ \A j \in Jobs : ~(ProcOf[j] = p /\ call[j].at = "moved")]
    /\ LET gone == {j \in Jobs : ProcOf[j] = p /\ call[j].at \notin {"ended", "failed"}}
           torn == \E j \in gone : call[j].at = "save"
       IN  /\ call' = [j \in Jobs |-> IF j \in gone THEN CallOver("dead") ELSE call[j]]
           /\ dirLock' = IF dirLock \in gone THEN None ELSE dirLock
           /\ treeLock' = [c \in Commits |-> IF treeLock[c] \in gone THEN None ELSE treeLock[c]]
           /\ disk' \in {disk} \cup (IF torn THEN {[disk EXCEPT !.record = None, !.etag = FALSE]} ELSE {})
    /\ flight' = [flight EXCEPT ![p] = None]
    /\ UNCHANGED remote

FetchStep(j) ==
    \/ FetchAction(j) \/ FollowerGivesUp(j) \/ Finish(j)
    \/ ReadRecord(j) \/ DownloadArchive(j) \/ ResolveClone(j) \/ ResolveFails(j)
    \/ ExtractTree(j) \/ ExtractFails(j) \/ WriteSizes(j) \/ WriteRecord(j) \/ ReadTree(j)

Locking(j) == LockDir(j) \/ SwapTree(j) \/ LockTree(j)

FetchNext ==
    \/ \E j \in Jobs : FetchStep(j) \/ Locking(j) \/ Panic(j) \/ CtxDone(j)
    \/ RefMoves
    \/ \E c \in Commits : TreeDamaged(c)
    \/ \E p \in Procs : Crash(p)

FetchSpec == FetchInit /\ [][FetchNext]_fetchVars

\* Go runs every goroutine that can go on; a lock that is polled every 50 ms
\* and free again and again is got in the end.
FetchFairness == \A j \in Jobs : WF_fetchVars(FetchStep(j)) /\ SF_fetchVars(Locking(j))
FairFetchSpec == FetchSpec /\ FetchFairness

-----------------------------------------------------------------------------
(* Properties.                                                             *)

\* A commit FetchAction answers with is on disk with every file at its size,
\* whatever crashed or was cancelled before, unless it was damaged during the
\* very call or comes from a runner that recorded no sizes.
FetchedIsIntact ==
    [][\A j \in Jobs :
        (call[j].at = "finish" /\ call'[j].at = "fetched" /\ ~call[j].harm)
            => \/ disk.tree[call[j].sha] = "whole" /\ disk.sizes[call[j].sha] = "whole"
               \/ remote.mode = "offline" /\ disk.sizes[call[j].sha] = "absent"]_fetchVars

\* While a job holds a commit's directory to read or copy it, no other job or
\* process replaces it, and the job finds it there unless a replacement
\* failed or died half-way.
ReadersUndisturbed ==
    [][\A j \in Jobs : call[j].at = "reading" =>
        IF disk.tree[call[j].sha] = "absent" THEN ~budget.swap
        ELSE disk'.tree[call[j].sha] \in {disk.tree[call[j].sha], "damaged"}]_fetchVars

\* Online, the commit answered with was the ref's at some moment of the flight
\* that fetched it: neither an ETag, an old record nor an old clone makes a
\* job run an action the ref had left before.
FetchedIsCurrent ==
    [][\A j \in Jobs :
        (remote.mode = "online" /\ call[j].at = "finish" /\ call'[j].at = "fetched") => call[j].sha \in call[j].seen]_fetchVars

\* Every call ends, also that of a follower whose leader is cancelled, panics
\* or dies, and no two jobs wait for each other's locks.
FetchEnds == <>(\A j \in Jobs : call[j].at \in {"ended", "failed", "dead"})
=============================================================================
