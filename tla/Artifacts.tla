----------------------------- MODULE Artifacts ------------------------------
(***************************************************************************)
(* An artifact and those who upload and download it: the artifact server   *)
(* of the exec command, its client and the native actions upload-artifact  *)
(* and download-artifact.  All uploads are to one name of one run, so that *)
(* they meet on the server.                                                *)
(*                                                                         *)
(* Requests are made of steps, and the server takes no lock for most of    *)
(* them.  A client that loses its connection sends the request again while *)
(* the first one may still be executed, at any later time ("late").  The   *)
(* content of an artifact is the sequence of the blocks it was uploaded    *)
(* in; block i becomes file i of the job that downloads it.                *)
(***************************************************************************)
EXTENDS FileTransfer, FiniteSets

CONSTANTS
    Uploaders,      \* the uploading steps
    Overwrites,     \* those with overwrite: true
    BlocksOf,       \* the number of blocks of each
    Concurrency,    \* ACTIONS_ARTIFACT_UPLOAD_CONCURRENCY
    MaxTries,       \* Retry.Attempts
    DownloadTries   \* downloadAttempts

ASSUME ArtifactsAssumption ==
    /\ Overwrites \subseteq Uploaders /\ BlocksOf \in [Uploaders -> 1 .. Width]
    /\ Concurrency \in Nat \ {0} /\ MaxTries \in Nat \ {0} /\ DownloadTries \in Nat \ {0}

VARIABLES
    art,        \* the artifact's directory: its meta, blob and blocks
    created, lastID,    \* of the server
    reqs,       \* the requests on their way
    up,         \* of each uploader: [pc, read, acked, prod]
    down,       \* of the downloader: [pc, digest, body, try]
    rivals,     \* history: those whose delete or create was executed
    lateDelete  \* history: whether a delete was executed late

serverVars == <<art, created, lastID, rivals, lateDelete>>
vars == <<serverVars, reqs, up, down, transferVars>>

Whole(u) == [i \in 1 .. BlocksOf[u] |-> <<u, i>>]
NoArt == [id |-> 0, digest |-> << >>, blob |-> << >>, blocks |-> {}]
Exists == art # NoArt
Finalized == art.digest # << >>

\* An earlier invocation may have left an artifact.
Old == [id |-> 1, digest |-> <<<<"old", 1>>>>, blob |-> <<<<"old", 1>>>>, blocks |-> {}]

Idle(pc) == [pc |-> pc, read |-> 0, acked |-> {}, prod |-> "none"]
Ready(pc) == [pc |-> pc, digest |-> << >>, body |-> << >>, try |-> 1]

Init ==
    /\ TransferInit
    /\ art \in {NoArt, Old} /\ created = FALSE /\ lastID = 1 /\ reqs = {}
    /\ up = [u \in Uploaders |-> Idle("select")]
    /\ down = Ready("start")
    /\ rivals = {} /\ lateDelete = FALSE

-----------------------------------------------------------------------------
(* The server.                                                             *)

Request(u, op, i, t) ==
    [u |-> u, op |-> op, i |-> i, try |-> t, st |-> "sent", id |-> 0, body |-> << >>, late |-> FALSE]

\* Nobody waits for the answer of a late request.
Answer(r, a) ==
    reqs' = (reqs \ {r}) \cup IF r.late THEN {} ELSE {[r EXCEPT !.st = a, !.id = 0, !.body = << >>]}
Handled(r, st, id, body) == reqs' = (reqs \ {r}) \cup {[r EXCEPT !.st = st, !.id = id, !.body = body]}
Handles(r, op, st) == r.op = op /\ r.st = st /\ UNCHANGED <<up, down, transferVars>>

\* createArtifact replaces what an earlier invocation left, and refuses a name
\* of this one.
createArtifact(r) ==
    /\ Handles(r, "create", "sent")
    /\ IF created THEN Answer(r, "refused") /\ UNCHANGED serverVars
       ELSE /\ Answer(r, "ok") /\ created' = TRUE /\ lastID' = lastID + 1
            /\ art' = [NoArt EXCEPT !.id = lastID + 1] /\ rivals' = rivals \cup {r.u} /\ UNCHANGED lateDelete

deleteArtifact(r) ==
    /\ Handles(r, "delete", "sent")
    /\ IF Exists THEN /\ Answer(r, "ok") /\ art' = NoArt /\ created' = FALSE /\ rivals' = rivals \cup {r.u}
                      /\ lateDelete' = (lateDelete \/ r.late) /\ UNCHANGED lastID
       ELSE Answer(r, "refused") /\ UNCHANGED serverVars

\* uploadArtifact, of a block and of the list of blocks, looks at the meta first.
uploadArtifact(r) ==
    /\ \E op \in {"block", "commit"} : Handles(r, op, "sent")
    /\ IF Exists /\ ~Finalized THEN Handled(r, "checked", 0, << >>) ELSE Answer(r, "refused")
    /\ UNCHANGED serverVars

\* A block is written over an earlier attempt's; of a late one only a part may
\* come.
Staged(b) == art' = [art EXCEPT !.blocks = {c \in @ : <<c[1], c[2]>> # <<b[1], b[2]>>} \cup {b}]

writeFile(r) ==
    /\ Handles(r, "block", "checked")
    /\ IF Exists /\ ~Finalized
       THEN Answer(r, "ok") /\ (Staged(<<r.u, r.i>>) \/ (r.late /\ Staged(<<r.u, r.i, "cut">>)))
       ELSE Answer(r, "failed") /\ UNCHANGED art
    /\ UNCHANGED <<created, lastID, rivals, lateDelete>>

BlockOf(u, i) == {b \in art.blocks : b[1] = u /\ b[2] = i}

joinBlocks(r) ==
    /\ Handles(r, "commit", "checked")
    /\ IF \A i \in 1 .. BlocksOf[r.u] : BlockOf(r.u, i) # {}
       THEN Handled(r, "joined", art.id, [i \in 1 .. BlocksOf[r.u] |-> CHOOSE b \in BlockOf(r.u, i) : TRUE])
       ELSE Answer(r, "failed")
    /\ UNCHANGED serverVars

\* The joined file is gone with its directory; otherwise it becomes the blob.
commitBlob(r) ==
    /\ Handles(r, "commit", "joined")
    /\ IF art.id = r.id THEN Answer(r, "ok") /\ art' = [art EXCEPT !.blob = r.body]
       ELSE Answer(r, "failed") /\ UNCHANGED art
    /\ UNCHANGED <<created, lastID, rivals, lateDelete>>

\* Mutant: the hash is not compared.
Unchecked(r) == TRUE

\* finalizeArtifact hashes the blob before it takes the lock.
Matches(r) == art.blob = Whole(r.u)

hashBlob(r) ==
    /\ Handles(r, "finalize", "sent")
    /\ IF Exists /\ Finalized THEN Answer(r, "ok")
       ELSE IF art.blob # << >> /\ Matches(r) THEN Handled(r, "hashed", art.id, art.blob)
       ELSE Answer(r, "refused")
    /\ UNCHANGED serverVars

finalizeArtifact(r) ==
    /\ Handles(r, "finalize", "hashed")
    /\ IF art.id = r.id THEN Answer(r, "ok") /\ art' = [art EXCEPT !.digest = r.body, !.blocks = {}]
       ELSE Answer(r, "refused") /\ UNCHANGED art
    /\ UNCHANGED <<created, lastID, rivals, lateDelete>>

Serve(r) ==
    \/ createArtifact(r) \/ deleteArtifact(r) \/ uploadArtifact(r) \/ writeFile(r) \/ joinBlocks(r) \/ commitBlob(r)
    \/ hashBlob(r) \/ finalizeArtifact(r)

-----------------------------------------------------------------------------
(* Uploading.                                                              *)

Over(u) == up[u].pc \in {"ok", "nothing", "failed"}
Own(u) == {r \in reqs : r.u = u /\ ~r.late}
Pending(r) == r.st \in {"sent", "checked", "joined", "hashed"}
Uploads(u, pc) == up[u].pc = pc /\ UNCHANGED <<serverVars, down, env, helper, copy, strays, dest>>
Goto(u, pc) == up' = [up EXCEPT ![u].pc = pc]
UploadOver(u, pc) == up' = [up EXCEPT ![u] = Idle(pc)]

\* What the client no longer waits for goes on at the server.
Abandoned(rs) == (reqs \ rs) \cup {[r EXCEPT !.late = TRUE] : r \in {x \in rs : Pending(x)}}
Issue(u, op, rs) == Goto(u, op) /\ reqs' = rs \cup {Request(u, op, 0, 1)}

GiveUp(u) ==
    /\ reqs' = Abandoned(Own(u))
    /\ IF up[u].prod = "none" THEN UploadOver(u, "failed") ELSE Goto(u, "closing")

\* Retry: again until the attempts are used up; a delete is best effort.
Retry(u, r) ==
    IF r.try < MaxTries THEN reqs' = Abandoned({r}) \cup {Request(u, r.op, r.i, r.try + 1)} /\ UNCHANGED up
    ELSE IF r.op = "delete" THEN Issue(u, "create", Abandoned({r}))
    ELSE GiveUp(u)

\* The files are looked for in the environment.
list(u) ==
    /\ Uploads(u, "select") /\ UNCHANGED reqs
    /\ (Goto(u, "selected") /\ NoFault) \/ (UploadOver(u, "failed") /\ Fault)

\* There may be none, which if-no-files-found makes no failure.
selectFiles(u) ==
    /\ Uploads(u, "selected") /\ NoFault
    /\ \/ Issue(u, IF u \in Overwrites THEN "delete" ELSE "create", reqs)
       \/ UploadOver(u, "nothing") /\ UNCHANGED reqs

\* upload: delete if overwriting, create, stream, commit, finalize.
Receive(u, r) ==
    /\ r \in Own(u) /\ ~Pending(r) /\ r.st # "hung" /\ Uploads(u, up[u].pc) /\ NoFault
    /\ IF r.op = "delete" THEN Issue(u, "create", reqs \ {r})
       ELSE IF r.st = "failed" THEN Retry(u, r)
       ELSE IF r.st = "refused" THEN GiveUp(u)
       ELSE IF r.op = "create" THEN up' = [up EXCEPT ![u].pc = "stream", ![u].prod = "writing"] /\ reqs' = reqs \ {r}
       ELSE IF r.op = "block" THEN up' = [up EXCEPT ![u].acked = @ \cup {r.i}] /\ reqs' = reqs \ {r}
       ELSE IF r.op = "commit" THEN Issue(u, "finalize", reqs \ {r})
       ELSE UploadOver(u, "outputs") /\ reqs' = reqs \ {r}

\* The connection is lost before or after the request was executed.
Lost(u, r) == r \in Own(u) /\ r.st # "hung" /\ Uploads(u, up[u].pc) /\ Fault /\ Retry(u, r)

Hangs(u, r) ==
    /\ r \in Own(u) /\ r.st = "sent" /\ Uploads(u, up[u].pc) /\ Fault
    /\ reqs' = (reqs \ {r}) \cup {[r EXCEPT !.st = "hung"]} /\ UNCHANGED up

\* The client of the service has a timeout, the client of the blobs has none.
TimesOut(u, r) == r \in Own(u) /\ r.st = "hung" /\ r.op \notin {"block", "commit"} /\ Uploads(u, up[u].pc) /\ NoFault /\ Retry(u, r)

FreeSlot(u) == Cardinality(Own(u)) < Concurrency

\* The archive is written to a pipe; a block that was read is sent.
ReadBlock(u) ==
    /\ Uploads(u, "stream") /\ up[u].prod = "writing" /\ NoFault
    /\ up[u].read < BlocksOf[u] /\ FreeSlot(u)
    /\ up' = [up EXCEPT ![u].read = @ + 1] /\ reqs' = reqs \cup {Request(u, "block", up[u].read + 1, 1)}

CommitBlocks(u) ==
    /\ Uploads(u, "stream") /\ up[u].acked = 1 .. BlocksOf[u] /\ up[u].prod = "writing" /\ NoFault
    /\ up' = [up EXCEPT ![u] = [Idle("commit") EXCEPT !.prod = "done"]] /\ reqs' = reqs \cup {Request(u, "commit", 0, 1)}

\* Reading the files fails, or nothing comes any more: from a container, or of
\* a file on the host, the opening or reading of which does not return.
ReadFails(u) ==
    /\ Uploads(u, "stream") /\ up[u].prod = "writing" /\ Fault
    /\ \/ up' = [up EXCEPT ![u].pc = "closing", ![u].prod = "failed"] /\ reqs' = Abandoned(Own(u))
       \/ \E prod \in {"stuck", "held"} : up' = [up EXCEPT ![u].prod = prod] /\ UNCHANGED reqs

\* Unless it does some day.
ReadReturns(u) ==
    /\ up[u].prod = "held" /\ NoFault /\ UNCHANGED reqs
    /\ \/ Uploads(u, "stream") /\ up' = [up EXCEPT ![u].prod = "writing"]
       \/ Uploads(u, "closing") /\ up' = [up EXCEPT ![u].prod = "failed"]

\* No progress: the context of the upload is cancelled and the pipe closed.
Stalls(u) == up[u].prod \in {"stuck", "held"} \/ \E r \in Own(u) : r.st = "hung"

Stall(u) ==
    /\ \E pc \in {"stream", "commit"} : Uploads(u, pc)
    /\ Stalls(u) /\ NoFault /\ GiveUp(u)

\* The writer of the archive is cancelled and waited for; a read on the host
\* does not look at the context.
CloseUpload(u) ==
    /\ Uploads(u, "closing") /\ up[u].prod # "held" /\ NoFault /\ UNCHANGED reqs
    /\ IF up[u].prod \in {"writing", "stuck"} THEN up' = [up EXCEPT ![u].prod = "failed"] ELSE UploadOver(u, "failed")

SetOutputs(u) ==
    /\ Uploads(u, "outputs") /\ UNCHANGED reqs
    /\ (UploadOver(u, "ok") /\ NoFault) \/ (UploadOver(u, "failed") /\ Fault)

Upload(u) ==
    \/ list(u) \/ selectFiles(u) \/ ReadBlock(u) \/ CommitBlocks(u) \/ Stall(u) \/ CloseUpload(u) \/ SetOutputs(u)
    \/ \E r \in reqs : Receive(u, r) \/ TimesOut(u, r)

-----------------------------------------------------------------------------
(* Downloading.                                                            *)

Downloads(pc) == down.pc = pc /\ UNCHANGED <<serverVars, reqs, up, faults>>
DownTo(pc) == down' = [down EXCEPT !.pc = pc] /\ UNCHANGED <<env, helper, copy, strays, dest>>
JobFails == down' = Ready("failed") /\ RemoveEnvironment

\* The job needs one of those that upload.
StartJob ==
    /\ down.pc = "start" /\ \E u \in Uploaders : Over(u)
    /\ setupTransfer /\ down' = Ready(IF env' = "gone" THEN "failed" ELSE "list")
    /\ UNCHANGED <<serverVars, reqs, up>>

\* listArtifacts and getSignedArtifactURL know only finalized artifacts; between
\* them the directory is made, by copying an empty stream.
listArtifacts ==
    /\ Downloads("list")
    /\ IF Finalized THEN /\ down' = [down EXCEPT !.pc = "mkdir", !.digest = art.digest] /\ StartCopy(<< >>)
       ELSE JobFails

MakeTarget ==
    /\ Downloads("mkdir") /\ copy.st \in {"ok", "err"}
    /\ IF copy.st = "ok" THEN down' = [down EXCEPT !.pc = "sign"] /\ copy' = NoCopy /\ UNCHANGED <<env, helper, strays, dest>>
       ELSE JobFails

getSignedArtifactURL == Downloads("sign") /\ IF Finalized THEN DownTo("get") ELSE JobFails

\* Mutant: the download is tried again without a limit.
RetriesForever == DownTo("get")

RetryFetch ==
    IF down.try < DownloadTries
    THEN down' = [down EXCEPT !.pc = "get", !.body = << >>, !.try = @ + 1] /\ copy' = NoCopy /\ UNCHANGED <<env, helper, strays, dest>>
    ELSE JobFails

\* The server opens the blob by the artifact's name, if that is finalized.
downloadArtifact == IF Finalized THEN art.blob ELSE << >>

\* A response may be cut off, or stall, or not begin.
GetBlob ==
    /\ down.pc = "get" /\ UNCHANGED <<serverVars, reqs, up>>
    /\ \/ /\ downloadArtifact # << >> /\ UNCHANGED transferVars
          /\ down' = [down EXCEPT !.pc = "extract", !.body = downloadArtifact]
       \/ downloadArtifact = << >> /\ RetryFetch /\ NoFault
       \/ downloadArtifact # << >> /\ RetryFetch /\ Fault
       \/ DownTo("hung") /\ Fault

\* Nothing but the end of the job's time ends a wait for the first byte.
CtxDone == Downloads("hung") /\ JobFails

\* An archive without its end is refused before anything is written.
extractZip(body) == Len(body[Len(body)]) = 2

fetchOnce ==
    /\ Downloads("extract")
    /\ IF extractZip(down.body)
       THEN StartCopy(down.body) /\ down' = [down EXCEPT !.pc = "copy"]
       ELSE RetryFetch

fetch ==
    /\ down.pc = "copy" /\ copy.st \in {"ok", "err"} /\ UNCHANGED <<serverVars, reqs, up>>
    /\ \/ copy.st = "err" /\ RetryFetch /\ NoFault
       \/ copy.st = "ok" /\ down.body = down.digest /\ ((DownTo("ok") /\ NoFault) \/ (JobFails /\ Fault))
       \/ copy.st = "ok" /\ down.body # down.digest /\ JobFails /\ NoFault

Download == StartJob \/ listArtifacts \/ MakeTarget \/ getSignedArtifactURL \/ GetBlob \/ CtxDone \/ fetchOnce \/ fetch

-----------------------------------------------------------------------------

DownOver == down.pc \in {"ok", "failed"}

Done == (\A u \in Uploaders : Over(u)) /\ DownOver /\ UNCHANGED vars

TransferStep(A) == A /\ UNCHANGED <<serverVars, reqs, up, down>>

Next ==
    \/ Done \/ Download
    \/ TransferStep(CopySteps) \/ TransferStep(execLost) \/ TransferStep(StrayHelper)
    \/ \E r \in reqs : Serve(r)
    \/ \E u \in Uploaders : Upload(u) \/ ReadFails(u) \/ ReadReturns(u) \/ \E r \in reqs : Lost(u, r) \/ Hangs(u, r)

\* The server and the environments answer unless they fail; timers expire, the
\* job's among them.  A file that is held need not come free.
Fairness ==
    /\ \A u \in Uploaders : WF_vars(Upload(u)) /\ WF_vars(\E r \in Own(u) : Serve(r))
    /\ WF_vars(Download) /\ WF_vars(TransferStep(CopySteps))

Spec == Init /\ [][Next]_vars /\ Fairness

-----------------------------------------------------------------------------
(* Properties.                                                             *)

\* A download that succeeds has put the whole of one upload into the job's
\* environment, whatever was uploaded, lost, repeated or replaced meanwhile.
\* Only a file can be spoilt that the process of an earlier attempt, given up on
\* when its connection was lost, has written since the copy began: with another
\* content, or cut off.
DownloadIsIntact ==
    down.pc = "ok" =>
        /\ down.body \in {Whole(u) : u \in Uploaders} \cup {Old.blob}
        /\ \A i \in DOMAIN down.body : i \notin rewritten => dest[i] = down.body[i]

\* An upload that reports success and that no other upload replaced or was
\* replaced by is recorded, with its own digest, and stays: late requests of its
\* own do not undo it (but for a late delete); and without overwriting only one
\* upload of a name succeeds.
UploadIsRecorded ==
    /\ \A u \in Uploaders :
        (rivals = {u} /\ up[u].pc \in {"outputs", "ok"} /\ ~lateDelete) => art.digest = Whole(u)
    /\ rivals \cap Overwrites = {} => Cardinality({u \in Uploaders : up[u].pc \in {"outputs", "ok"}}) <= 1

\* An upload waits for the file that it reads on the host.
Held(u) == up[u].pc = "closing" /\ up[u].prod = "held"

\* Every upload and download ends: requests that hang do not hold it beyond its
\* timers, or the job's.  What does is a file on the host that cannot be opened
\* or read to its end: its upload waits for it for ever, and so does a download
\* that needs such an upload.
TransfersEnd ==
    <>(/\ \A u \in Uploaders : Over(u) \/ Held(u)
       /\ DownOver \/ (down.pc = "start" /\ \A u \in Uploaders : Held(u)))
=============================================================================
