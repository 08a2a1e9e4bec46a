-------------------------- MODULE Artifacts_proofs --------------------------
(***************************************************************************)
(* Proofs about module Artifacts: DownloadIsIntact and UploadIsRecorded,   *)
(* for any uploaders, blocks, attempts, environments and faults.           *)
(***************************************************************************)
EXTENDS Artifacts, FiniteSetTheorems, TLAPS

-----------------------------------------------------------------------------
(* The inductive invariant.                                                *)

\* A block of an upload, also one of which only a part came, and the block of
\* the artifact that an earlier invocation left.
Block == (Uploaders \X Nat) \cup (Uploaders \X Nat \X {"cut"}) \cup {<<"old", 1>>}
Content == Seq(Block)

Ops == {"delete", "create", "block", "commit", "finalize"}
Waiting == {"sent", "checked", "joined", "hashed"}
Answers == {"ok", "refused", "failed", "hung"}

Artifact == [id : Nat, digest : Content, blob : Content, blocks : SUBSET Block]
Requests == [u : Uploaders, op : Ops, i : Nat, try : Nat, st : Waiting \cup Answers,
             id : Nat, body : Content, late : BOOLEAN]
UpPcs == {"select", "selected", "delete", "create", "stream", "commit", "finalize", "closing",
          "outputs", "ok", "nothing", "failed"}
Uploading == [pc : UpPcs, read : Nat, acked : SUBSET Nat,
              prod : {"none", "writing", "done", "failed", "stuck", "held"}]
DownPcs == {"start", "list", "mkdir", "sign", "get", "hung", "extract", "copy", "ok", "failed"}
Downloading == [pc : DownPcs, digest : Content, body : Content, try : Nat]
Copies == [st : {"idle", "start", "offered", "taken", "cut", "api", "ok", "err"}, body : Content]
Strays == [body : Content, next : Nat]
Files == Block \cup {<< >>, Truncated}

UploadTypeOK ==
    /\ art \in Artifact /\ created \in BOOLEAN /\ lastID \in Nat
    /\ reqs \subseteq Requests
    /\ up \in [Uploaders -> Uploading]
    /\ rivals \subseteq Uploaders /\ lateDelete \in BOOLEAN

DownloadTypeOK ==
    /\ down \in Downloading
    /\ copy \in Copies /\ stray \subseteq Strays
    /\ dest \in [1 .. Width -> Files]

TypeOK == UploadTypeOK /\ DownloadTypeOK

\* Where an uploader is that waits for the answer to a request.
PcOf(op) == IF op = "block" THEN "stream" ELSE op

\* The server created the artifact for an uploader that is here.
Created == {"stream", "commit", "finalize", "outputs", "ok"}

\* What holds of a request: who waits for its answer, whose it can be, and
\* that the hash that a finalize compared is that of the uploader's archive.
RequestOK(r) ==
    /\ r.late => Pending(r)
    /\ r.op = "block" <=> r.i # 0
    /\ r.op = "delete" => r.u \in Overwrites
    /\ r.op \in {"block", "commit", "finalize"} => r.u \in rivals
    /\ r.op = "create" /\ r.st = "ok" => r.u \in rivals
    /\ r.op = "finalize" /\ r.st = "hashed" => r.body = Whole(r.u)
    /\ ~r.late => /\ up[r.u].pc = PcOf(r.op)
                  /\ r.op = "block" => r.i <= up[r.u].read /\ r.i \notin up[r.u].acked

RequestsOK ==
    /\ \A r \in reqs : RequestOK(r)
    /\ \A r, s \in reqs : ~r.late /\ ~s.late /\ r.u = s.u /\ r.i = s.i => r = s

UploaderOK(u) ==
    /\ up[u].pc \in Created => u \in rivals
    /\ up[u].read <= BlocksOf[u]
    /\ up[u].acked \subseteq 1 .. up[u].read

UploadersOK == \A u \in Uploaders : UploaderOK(u)

\* The server created the artifact for u, which knows or will hear of it.
Had(u) ==
    \/ up[u].pc \in Created
    \/ \E r \in reqs : r.u = u /\ r.op = "create" /\ r.st = "ok"

\* The server finalized it for u, which knows or will hear of it.
Ended(u) ==
    \/ up[u].pc \in {"outputs", "ok"}
    \/ \E r \in reqs : r.u = u /\ r.op = "finalize" /\ r.st = "ok"

\* An uploader without rivals finds its artifact in the directory.
Recorded(u) ==
    rivals = {u} /\ ~lateDelete =>
        /\ Had(u) => created /\ art.digest \in {<< >>, Whole(u)}
        /\ Ended(u) => art.digest = Whole(u)

\* Without overwriting there is one rival at most, and the name stays taken.
NamesOK ==
    rivals \cap Overwrites = {} =>
        /\ \A u, v \in rivals : u = v
        /\ rivals # {} => created

UploadsOK ==
    /\ UploadTypeOK /\ RequestsOK /\ UploadersOK /\ NamesOK
    /\ \A u \in Uploaders : Recorded(u)

\* What a finalized artifact can have for content.
Digests == {Whole(u) : u \in Uploaders} \cup {Old.blob}

\* A copy that is done has written every file that no process left behind has.
DownloadsOK ==
    /\ DownloadTypeOK
    /\ art.digest \in Digests \cup {<< >>}
    /\ down.pc # "start" => Uploaders # {}
    /\ down.pc \in {"mkdir", "sign", "get", "hung", "extract", "copy", "ok"} => down.digest \in Digests
    /\ down.pc = "ok" => down.body = down.digest /\ copy.st = "ok"
    /\ down.pc \in {"copy", "ok"} => copy.body = down.body
    /\ copy.st = "ok" => \A i \in 1 .. Width : i <= Len(copy.body) /\ i \notin rewritten => dest[i] = copy.body[i]

-----------------------------------------------------------------------------
(* Contents, and the initial state.                                        *)

\* An archive is a sequence of as many blocks as fit into the environment.
LEMMA WholeIsContent ==
    ASSUME NEW u \in Uploaders
    PROVE  /\ Whole(u) \in Content /\ Len(Whole(u)) = BlocksOf[u]
           /\ BlocksOf[u] \in Nat /\ BlocksOf[u] \in 1 .. Width /\ Whole(u) # << >>
<1>1. BlocksOf[u] \in Nat /\ BlocksOf[u] \in 1 .. Width
  BY ArtifactsAssumption, TransferAssumption
<1>2. \A i \in 1 .. BlocksOf[u] : <<u, i>> \in Block
  BY <1>1 DEF Block
<1>3. Whole(u) \in Content /\ Len(Whole(u)) = BlocksOf[u]
  BY <1>1, <1>2 DEF Whole, Content
<1> QED
  BY <1>1, <1>3

\* So is what an earlier invocation left.
LEMMA OldIsArtifact ==
    /\ Old \in Artifact /\ NoArt \in Artifact /\ Old.digest = Old.blob /\ NoArt.digest = << >>
    /\ Old.blob \in Content /\ Len(Old.blob) = 1 /\ << >> \in Content
<1>1. <<"old", 1>> \in Block
  BY DEF Block
<1>2. <<<<"old", 1>>>> \in Content /\ << >> \in Content /\ Len(<<<<"old", 1>>>>) = 1
  BY <1>1 DEF Content
<1> QED
  BY <1>2 DEF Old, NoArt, Artifact

\* What can be finalized is content of files that the environment has.
LEMMA DigestsFit ==
    ASSUME NEW d \in Digests, Uploaders # {}
    PROVE  d \in Content /\ Len(d) \in Nat /\ Len(d) <= Width
<1>1. Width \in Nat
  BY TransferAssumption
<1>2. CASE d = Old.blob
  <2>1. PICK u \in Uploaders : TRUE
    OBVIOUS
  <2>2. 1 <= Width
    BY <1>1, <2>1, WholeIsContent
  <2> QED
    BY <1>2, <2>2, OldIsArtifact
<1>3. CASE d \in {Whole(u) : u \in Uploaders}
  BY <1>1, <1>3, WholeIsContent
<1> QED
  BY <1>2, <1>3 DEF Digests

\* Nothing has been asked for at the start.
LEMMA ArtifactsInit ==
    ASSUME Init
    PROVE  UploadsOK /\ DownloadsOK
<1> USE DEF Init, TransferInit
<1>1. art \in Artifact /\ art.digest \in {Old.blob, << >>}
  BY OldIsArtifact
<1>2. Idle("select") \in Uploading /\ Idle("select").pc = "select"
      /\ Idle("select").read = 0 /\ Idle("select").acked = {}
  BY DEF Idle, Uploading, UpPcs
<1>3. up \in [Uploaders -> Uploading] /\ \A u \in Uploaders : up[u] = Idle("select")
  BY <1>2
<1>4. UploadTypeOK
  BY <1>1, <1>3 DEF UploadTypeOK
<1>5. RequestsOK
  BY DEF RequestsOK
<1>6. UploadersOK
  BY <1>2, <1>3, WholeIsContent DEF UploadersOK, UploaderOK, Created
<1>7. NamesOK /\ \A u \in Uploaders : Recorded(u)
  BY DEF NamesOK, Recorded
<1>8. DownloadTypeOK
  <2>1. Ready("start") \in Downloading /\ NoCopy \in Copies /\ << >> \in Content
    BY OldIsArtifact DEF Ready, Downloading, DownPcs, NoCopy, Copies
  <2> QED
    BY <2>1 DEF DownloadTypeOK, NoFiles, Files
<1>9. DownloadsOK
  BY <1>1, <1>8 DEF DownloadsOK, Ready, NoCopy, Digests
<1> QED
  BY <1>4, <1>5, <1>6, <1>7, <1>9 DEF UploadsOK

-----------------------------------------------------------------------------
(* The server's steps.                                                     *)

\* Request r goes on as s, or is answered with nobody waiting for the answer.
Served(r, s) ==
    /\ s \in Requests
    /\ s.u = r.u /\ s.op = r.op /\ s.i = r.i /\ s.late = r.late
    /\ reqs' = (reqs \ {r}) \cup IF r.late /\ ~Pending(s) THEN {} ELSE {s}

\* An answer.
LEMMA AnswerServes ==
    ASSUME UploadTypeOK, NEW r \in reqs, NEW a \in {"ok", "refused", "failed"}, Answer(r, a)
    PROVE  \E s \in Requests : Served(r, s) /\ s.st = a
<1> DEFINE s == [r EXCEPT !.st = a, !.id = 0, !.body = << >>]
<1>1. r \in Requests /\ << >> \in Content
  BY OldIsArtifact DEF UploadTypeOK
<1>2. s \in Requests /\ s.u = r.u /\ s.op = r.op /\ s.i = r.i /\ s.late = r.late /\ s.st = a
  BY <1>1 DEF Requests, Answers
<1>3. ~Pending(s)
  BY <1>2 DEF Pending
<1>4. reqs' = (reqs \ {r}) \cup IF r.late THEN {} ELSE {s}
  BY DEF Answer
<1> QED
  BY <1>2, <1>3, <1>4 DEF Served

\* A request that is not answered yet.
LEMMA HandledServes ==
    ASSUME UploadTypeOK, NEW r \in reqs, NEW st \in Waiting, NEW id \in Nat, NEW body \in Content,
           Handled(r, st, id, body)
    PROVE  \E s \in Requests : Served(r, s) /\ s.st = st /\ s.body = body
<1> DEFINE s == [r EXCEPT !.st = st, !.id = id, !.body = body]
<1>1. r \in Requests
  BY DEF UploadTypeOK
<1>2. /\ s \in Requests /\ s.u = r.u /\ s.op = r.op /\ s.i = r.i /\ s.late = r.late
      /\ s.st = st /\ s.body = body
  BY <1>1 DEF Requests
<1>3. Pending(s)
  BY <1>2 DEF Pending, Waiting
<1>4. reqs' = (reqs \ {r}) \cup {s}
  BY DEF Handled
<1> QED
  BY <1>2, <1>3, <1>4 DEF Served

\* The requests stay consistent.
LEMMA ServedRequests ==
    ASSUME UploadTypeOK, RequestsOK, NEW r \in reqs, NEW s, Served(r, s), up' = up,
           rivals \subseteq rivals',
           s.op = "create" /\ s.st = "ok" => s.u \in rivals',
           s.op = "finalize" /\ s.st = "hashed" => s.body = Whole(s.u)
    PROVE  reqs' \subseteq Requests /\ RequestsOK'
<1>1. ASSUME NEW q \in reqs' \ {s}
      PROVE  q \in reqs /\ RequestOK(q)'
  <2>1. q \in reqs
    BY DEF Served
  <2>2. RequestOK(q)
    BY <2>1 DEF RequestsOK
  <2> QED
    BY <2>1, <2>2 DEF RequestOK, Pending
<1>2. ASSUME s \in reqs'
      PROVE  RequestOK(s)'
  <2>1. CASE s \in reqs \ {r}
    <3>1. RequestOK(s)
      BY <2>1 DEF RequestsOK
    <3> QED
      BY <3>1 DEF RequestOK, Pending
  <2>2. CASE s \notin reqs \ {r}
    <3>1. RequestOK(r)
      BY DEF RequestsOK
    <3>2. s.late => Pending(s)
      BY <1>2, <2>2 DEF Served
    <3> QED
      BY <3>1, <3>2 DEF Served, RequestOK, Pending
  <2> QED
    BY <2>1, <2>2
<1>3. reqs' \subseteq Requests
  BY <1>1 DEF Served, UploadTypeOK
<1>4. ASSUME NEW q \in reqs', NEW p \in reqs', ~q.late, ~p.late, q.u = p.u, q.i = p.i
      PROVE  q = p
  BY <1>1, <1>4 DEF Served, RequestsOK
<1> QED
  BY <1>1, <1>2, <1>3, <1>4 DEF RequestsOK

\* Nobody hears of a creation or a finalization that did not happen.
LEMMA ServedHears ==
    ASSUME NEW r \in reqs, NEW s, Served(r, s), up' = up, NEW u \in Uploaders
    PROVE  /\ Had(u)' => Had(u) \/ (s.op = "create" /\ s.st = "ok" /\ s.u = u /\ ~s.late)
           /\ Ended(u)' => Ended(u) \/ (s.op = "finalize" /\ s.st = "ok" /\ s.u = u /\ ~s.late)
BY DEF Served, Had, Ended, Pending

\* Steps that neither create nor finalize.
LEMMA QuietServe ==
    ASSUME UploadsOK, NEW r \in reqs, NEW s, Served(r, s), up' = up,
           UNCHANGED <<created, rivals, lateDelete>>, lastID' \in Nat,
           art' \in Artifact, art'.digest = art.digest,
           ~(s.op \in {"create", "finalize"} /\ s.st = "ok"),
           s.op = "finalize" /\ s.st = "hashed" => s.body = Whole(s.u)
    PROVE  UploadsOK'
<1>1. reqs' \subseteq Requests /\ RequestsOK'
  BY ServedRequests DEF UploadsOK
<1>2. UploadTypeOK'
  BY <1>1 DEF UploadsOK, UploadTypeOK
<1>3. UploadersOK' /\ NamesOK'
  BY DEF UploadsOK, UploadersOK, UploaderOK, NamesOK
<1>4. ASSUME NEW u \in Uploaders
      PROVE  Recorded(u)'
  <2>1. (Had(u)' => Had(u)) /\ (Ended(u)' => Ended(u))
    BY ServedHears
  <2>2. Recorded(u)
    BY DEF UploadsOK
  <2> QED
    BY <2>1, <2>2 DEF Recorded
<1> QED
  BY <1>1, <1>2, <1>3, <1>4 DEF UploadsOK


\* A request that is waited for is one of its uploader's.
LEMMA WaitedFor ==
    ASSUME UploadsOK, NEW r \in reqs, ~r.late
    PROVE  /\ r.u \in Uploaders /\ up[r.u].pc = PcOf(r.op)
           /\ r.op \in {"block", "commit", "finalize"} => Had(r.u)
           /\ r.op = "finalize" /\ r.st = "ok" => Ended(r.u)
<1>1. r \in Requests /\ RequestOK(r)
  BY DEF UploadsOK, UploadTypeOK, RequestsOK
<1> QED
  BY <1>1 DEF RequestOK, Requests, Had, Ended, PcOf, Created

\* What it takes to have heard of a creation or of a finalization.
LEMMA HeardOf ==
    ASSUME UploadsOK, NEW u \in Uploaders
    PROVE  /\ Had(u) => u \in rivals /\ up[u].pc \in Created \cup {"create"}
           /\ Ended(u) => Had(u)
<1>1. \A r \in reqs : r.st = "ok" => ~r.late
  BY DEF UploadsOK, RequestsOK, RequestOK, Pending
<1>2. up[u].pc \in Created => u \in rivals
  BY DEF UploadsOK, UploadersOK, UploaderOK
<1>3. \A r \in reqs : r.u = u /\ r.op = "create" /\ r.st = "ok" => u \in rivals /\ up[u].pc = "create"
  BY <1>1 DEF UploadsOK, RequestsOK, RequestOK, PcOf
<1>4. \A r \in reqs : r.u = u /\ r.op = "finalize" /\ r.st = "ok" => up[u].pc = "finalize"
  BY <1>1 DEF UploadsOK, RequestsOK, RequestOK, PcOf
<1> QED
  BY <1>2, <1>3, <1>4 DEF Had, Ended, Created

\* The server creates the artifact: nobody without rivals has it already.
LEMMA UploadsCreate ==
    ASSUME UploadsOK, NEW r \in reqs, createArtifact(r)
    PROVE  UploadsOK'
<1> DEFINE new == [NoArt EXCEPT !.id = lastID + 1]
<1>1. up' = up /\ r.op = "create" /\ r \in Requests
  BY DEF createArtifact, Handles, UploadsOK, UploadTypeOK
<1>2. CASE created
  <2>1. Answer(r, "refused") /\ UNCHANGED <<art, created, lastID, rivals, lateDelete>>
    BY <1>2 DEF createArtifact, serverVars
  <2>2. PICK s \in Requests : Served(r, s) /\ s.st = "refused"
    BY <2>1, AnswerServes DEF UploadsOK
  <2> QED
    BY <1>1, <2>1, <2>2, QuietServe DEF UploadsOK, UploadTypeOK
<1>3. CASE ~created
  <2>1. /\ Answer(r, "ok") /\ created' = TRUE /\ lastID' = lastID + 1 /\ art' = new
        /\ rivals' = rivals \cup {r.u} /\ lateDelete' = lateDelete
    BY <1>3 DEF createArtifact
  <2>2. PICK s \in Requests : Served(r, s) /\ s.st = "ok"
    BY <2>1, AnswerServes DEF UploadsOK
  <2>3. new \in Artifact /\ new.digest = << >>
    BY OldIsArtifact DEF UploadsOK, UploadTypeOK, Artifact
  <2>4. s.op = "create" /\ s.u = r.u /\ r.u \in Uploaders
    BY <1>1, <2>2 DEF Served, Requests
  <2>5. reqs' \subseteq Requests /\ RequestsOK'
    BY <1>1, <2>1, <2>2, <2>4, ServedRequests DEF UploadsOK
  <2>6. UploadTypeOK'
    BY <1>1, <2>1, <2>3, <2>4, <2>5 DEF UploadsOK, UploadTypeOK
  <2>7. UploadersOK'
    BY <1>1, <2>1 DEF UploadsOK, UploadersOK, UploaderOK
  <2>8. NamesOK'
    <3>1. rivals' \cap Overwrites = {} => rivals = {}
      BY <1>3, <2>1 DEF UploadsOK, NamesOK
    <3> QED
      BY <2>1, <3>1 DEF NamesOK
  <2>9. ASSUME NEW u \in Uploaders
        PROVE  Recorded(u)'
    <3>1. ASSUME rivals' = {u}, ~lateDelete
          PROVE  ~Ended(u)
      <4>1. Ended(u) => Had(u) /\ u \in rivals
        BY HeardOf
      <4>2. rivals = {u} => (Had(u) => created)
        BY <3>1 DEF UploadsOK, Recorded
      <4>3. u \in rivals => rivals = {u}
        BY <2>1, <3>1
      <4> QED
        BY <1>3, <4>1, <4>2, <4>3
    <3>2. Ended(u)' => Ended(u)
      BY <1>1, <2>2, <2>4, ServedHears
    <3> QED
      BY <2>1, <2>3, <3>1, <3>2 DEF Recorded
  <2> QED
    BY <2>5, <2>6, <2>7, <2>8, <2>9 DEF UploadsOK
<1> QED
  BY <1>2, <1>3

\* The server deletes it: for the uploader itself only before it is created,
\* unless the delete comes late.
LEMMA UploadsDelete ==
    ASSUME UploadsOK, NEW r \in reqs, deleteArtifact(r)
    PROVE  UploadsOK'
<1>1. up' = up /\ r.op = "delete" /\ r \in Requests
  BY DEF deleteArtifact, Handles, UploadsOK, UploadTypeOK
<1>2. CASE ~Exists
  <2>1. Answer(r, "refused") /\ UNCHANGED <<art, created, lastID, rivals, lateDelete>>
    BY <1>2 DEF deleteArtifact, serverVars
  <2>2. PICK s \in Requests : Served(r, s) /\ s.st = "refused"
    BY <2>1, AnswerServes DEF UploadsOK
  <2> QED
    BY <1>1, <2>1, <2>2, QuietServe DEF UploadsOK, UploadTypeOK
<1>3. CASE Exists
  <2>1. /\ Answer(r, "ok") /\ created' = FALSE /\ lastID' = lastID /\ art' = NoArt
        /\ rivals' = rivals \cup {r.u} /\ lateDelete' = (lateDelete \/ r.late)
    BY <1>3 DEF deleteArtifact
  <2>2. PICK s \in Requests : Served(r, s) /\ s.st = "ok"
    BY <2>1, AnswerServes DEF UploadsOK
  <2>3. s.op = "delete" /\ s.u = r.u /\ r.u \in Uploaders /\ r.late \in BOOLEAN
    BY <1>1, <2>2 DEF Served, Requests
  <2>4. r.u \in Overwrites /\ (~r.late => up[r.u].pc = "delete")
    BY <1>1 DEF UploadsOK, RequestsOK, RequestOK, PcOf
  <2>5. reqs' \subseteq Requests /\ RequestsOK'
    BY <1>1, <2>1, <2>2, <2>3, ServedRequests DEF UploadsOK
  <2>6. UploadTypeOK'
    BY <1>1, <2>1, <2>3, <2>5, OldIsArtifact DEF UploadsOK, UploadTypeOK
  <2>7. UploadersOK'
    BY <1>1, <2>1 DEF UploadsOK, UploadersOK, UploaderOK
  <2>8. NamesOK'
    BY <2>1, <2>4 DEF NamesOK
  <2>9. ASSUME NEW u \in Uploaders
        PROVE  Recorded(u)'
    <3> SUFFICES ASSUME rivals' = {u}, ~lateDelete'
                 PROVE  ~Had(u)' /\ ~Ended(u)'
      BY DEF Recorded
    <3>1. r.u = u /\ ~r.late
      BY <2>1
    <3>2. ~Had(u) /\ ~Ended(u)
      BY <2>4, <3>1, HeardOf DEF Created
    <3> QED
      BY <1>1, <2>2, <2>3, <3>2, ServedHears
  <2> QED
    BY <2>5, <2>6, <2>7, <2>8, <2>9 DEF UploadsOK
<1> QED
  BY <1>2, <1>3


\* The steps of block and commit requests.
LEMMA UploadsWrite ==
    ASSUME UploadsOK, NEW r \in reqs,
           uploadArtifact(r) \/ writeFile(r) \/ joinBlocks(r) \/ commitBlob(r)
    PROVE  UploadsOK'
<1>1. /\ up' = up /\ r.op \in {"block", "commit"} /\ r \in Requests
      /\ UNCHANGED <<created, lastID, rivals, lateDelete>>
  BY DEF uploadArtifact, writeFile, joinBlocks, commitBlob, Handles, serverVars, UploadsOK,
         UploadTypeOK
<1>2. /\ art \in Artifact /\ art.digest \in Content /\ art.id \in Nat /\ r.body \in Content
      /\ UploadTypeOK /\ lastID \in Nat
  BY <1>1 DEF UploadsOK, UploadTypeOK, Artifact, Requests
<1>3. ASSUME NEW s \in Requests, Served(r, s), art' \in Artifact, art'.digest = art.digest
      PROVE  UploadsOK'
  <2>1. s.op \in {"block", "commit"}
    BY <1>1, <1>3 DEF Served
  <2> QED
    BY <1>1, <1>2, <1>3, <2>1, QuietServe
<1>4. ASSUME Answer(r, "ok") \/ Answer(r, "refused") \/ Answer(r, "failed"),
             art' \in Artifact, art'.digest = art.digest
      PROVE  UploadsOK'
  <2>1. PICK s \in Requests : Served(r, s)
    BY <1>2, <1>4, AnswerServes
  <2> QED
    BY <1>3, <1>4, <2>1
<1>5. CASE uploadArtifact(r)
  <2>1. art' = art /\ (Handled(r, "checked", 0, << >>) \/ Answer(r, "refused"))
    BY <1>5 DEF uploadArtifact, serverVars
  <2>2. CASE Handled(r, "checked", 0, << >>)
    <3>1. PICK s \in Requests : Served(r, s)
      BY <1>2, <2>2, HandledServes, OldIsArtifact DEF Waiting
    <3> QED
      BY <1>2, <1>3, <2>1, <3>1
  <2> QED
    BY <1>2, <1>4, <2>1, <2>2
<1>6. CASE writeFile(r)
  <2>1. \/ Answer(r, "failed") /\ art' = art
        \/ /\ Answer(r, "ok")
           /\ Staged(<<r.u, r.i>>) \/ Staged(<<r.u, r.i, "cut">>)
    BY <1>6 DEF writeFile
  <2>2. ASSUME NEW b \in Block, Staged(b)
        PROVE  art' \in Artifact /\ art'.digest = art.digest
    BY <1>2, <2>2 DEF Staged, Artifact
  <2>3. <<r.u, r.i>> \in Block /\ <<r.u, r.i, "cut">> \in Block
    BY <1>1 DEF Block, Requests
  <2> QED
    BY <1>2, <1>4, <2>1, <2>2, <2>3
<1>7. CASE joinBlocks(r)
  <2> DEFINE body == [i \in 1 .. BlocksOf[r.u] |-> CHOOSE b \in BlockOf(r.u, i) : TRUE]
  <2>1. art' = art
    BY <1>7 DEF joinBlocks, serverVars
  <2>2. CASE Answer(r, "failed")
    BY <1>2, <1>4, <2>1, <2>2
  <2>3. CASE /\ \A i \in 1 .. BlocksOf[r.u] : BlockOf(r.u, i) # {}
             /\ Handled(r, "joined", art.id, body)
    <3>1. \A i \in 1 .. BlocksOf[r.u] : body[i] \in Block
      <4> TAKE i \in 1 .. BlocksOf[r.u]
      <4>1. body[i] \in BlockOf(r.u, i)
        BY <2>3
      <4> QED
        BY <1>2, <4>1 DEF BlockOf, Artifact
    <3>2. BlocksOf[r.u] \in Nat
      BY <1>1, WholeIsContent DEF Requests
    <3>3. body \in Content
      BY <3>1, <3>2 DEF Content
    <3> HIDE DEF body
    <3>4. PICK s \in Requests : Served(r, s)
      BY <1>2, <2>3, <3>3, HandledServes DEF Waiting
    <3> QED
      BY <1>2, <1>3, <2>1, <3>4
  <2> QED
    BY <1>7, <2>2, <2>3 DEF joinBlocks
<1>8. CASE commitBlob(r)
  <2>1. \/ Answer(r, "ok") /\ art' = [art EXCEPT !.blob = r.body]
        \/ Answer(r, "failed") /\ art' = art
    BY <1>8 DEF commitBlob
  <2>2. art' \in Artifact /\ art'.digest = art.digest
    BY <1>2, <2>1 DEF Artifact
  <2> QED
    BY <1>4, <2>1, <2>2
<1> QED
  BY <1>5, <1>6, <1>7, <1>8

\* A finalize hashes the blob, or finds that the artifact is finalized: if it
\* has no rivals it did that itself.
LEMMA UploadsHash ==
    ASSUME UploadsOK, NEW r \in reqs, hashBlob(r)
    PROVE  UploadsOK'
<1>1. /\ up' = up /\ r.op = "finalize" /\ r \in Requests
      /\ UNCHANGED <<art, created, lastID, rivals, lateDelete>>
  BY DEF hashBlob, Handles, serverVars, UploadsOK, UploadTypeOK
<1>2. /\ art \in Artifact /\ art.blob \in Content /\ art.id \in Nat
      /\ UploadTypeOK /\ lastID \in Nat
  BY <1>1 DEF UploadsOK, UploadTypeOK, Artifact
<1>3. CASE Handled(r, "hashed", art.id, art.blob) /\ art.blob = Whole(r.u)
  <2>1. PICK s \in Requests : Served(r, s) /\ s.st = "hashed" /\ s.body = art.blob
    BY <1>2, <1>3, HandledServes DEF Waiting
  <2>2. s.u = r.u
    BY <2>1 DEF Served
  <2> QED
    BY <1>1, <1>2, <1>3, <2>1, <2>2, QuietServe
<1>4. CASE Answer(r, "refused")
  <2>1. PICK s \in Requests : Served(r, s) /\ s.st = "refused"
    BY <1>2, <1>4, AnswerServes
  <2> QED
    BY <1>1, <1>2, <2>1, QuietServe
<1>5. CASE Answer(r, "ok") /\ Finalized
  <2>1. PICK s \in Requests : Served(r, s) /\ s.st = "ok"
    BY <1>2, <1>5, AnswerServes
  <2>2. s.op = "finalize" /\ s.u = r.u /\ s.late = r.late
    BY <1>1, <2>1 DEF Served
  <2>3. reqs' \subseteq Requests /\ RequestsOK'
    BY <1>1, <1>2, <2>1, <2>2, ServedRequests DEF UploadsOK
  <2>4. UploadTypeOK' /\ UploadersOK' /\ NamesOK'
    BY <1>1, <2>3 DEF UploadsOK, UploadTypeOK, UploadersOK, UploaderOK, NamesOK
  <2>5. ASSUME NEW u \in Uploaders
        PROVE  Recorded(u)'
    <3>1. Had(u)' => Had(u)
      BY <1>1, <2>1, <2>2, ServedHears
    <3>2. Ended(u)' => Ended(u) \/ (r.u = u /\ ~r.late)
      BY <1>1, <2>1, <2>2, ServedHears
    <3>3. r.u = u /\ ~r.late => Had(u)
      BY <1>1, WaitedFor
    <3>4. Recorded(u)
      BY DEF UploadsOK
    <3>5. CASE Ended(u)' /\ ~Ended(u)
      BY <1>1, <1>5, <3>2, <3>3, <3>4, <3>5 DEF Recorded, Finalized
    <3>6. CASE Ended(u)' => Ended(u)
      BY <1>1, <3>1, <3>4, <3>6 DEF Recorded
    <3> QED
      BY <3>5, <3>6
  <2> QED
    BY <2>3, <2>4, <2>5 DEF UploadsOK
<1> QED
  BY <1>3, <1>4, <1>5 DEF hashBlob, Matches

\* The digest is recorded: that of an archive of the uploader's.
LEMMA UploadsFinalize ==
    ASSUME UploadsOK, NEW r \in reqs, finalizeArtifact(r)
    PROVE  UploadsOK' /\ art'.digest \in {art.digest, Whole(r.u)}
<1>1. /\ up' = up /\ r.op = "finalize" /\ r.st = "hashed" /\ r \in Requests
      /\ UNCHANGED <<created, lastID, rivals, lateDelete>>
  BY DEF finalizeArtifact, Handles, UploadsOK, UploadTypeOK
<1>2. /\ art \in Artifact /\ r.body \in Content /\ UploadTypeOK /\ lastID \in Nat
      /\ r.u \in Uploaders
  BY <1>1 DEF UploadsOK, UploadTypeOK, Requests
<1>3. r.body = Whole(r.u) /\ r.u \in rivals
  BY <1>1 DEF UploadsOK, RequestsOK, RequestOK
<1>4. CASE Answer(r, "refused") /\ art' = art
  <2>1. PICK s \in Requests : Served(r, s) /\ s.st = "refused"
    BY <1>2, <1>4, AnswerServes
  <2> QED
    BY <1>1, <1>2, <1>4, <2>1, QuietServe
<1>5. CASE Answer(r, "ok") /\ art' = [art EXCEPT !.digest = r.body, !.blocks = {}]
  <2>1. PICK s \in Requests : Served(r, s) /\ s.st = "ok"
    BY <1>2, <1>5, AnswerServes
  <2>2. s.op = "finalize" /\ s.u = r.u /\ s.late = r.late
    BY <1>1, <2>1 DEF Served
  <2>3. reqs' \subseteq Requests /\ RequestsOK'
    BY <1>1, <1>2, <2>1, <2>2, ServedRequests DEF UploadsOK
  <2>4. art' \in Artifact /\ art'.digest = Whole(r.u)
    BY <1>2, <1>3, <1>5 DEF Artifact
  <2>5. UploadTypeOK' /\ UploadersOK' /\ NamesOK'
    BY <1>1, <2>3, <2>4 DEF UploadsOK, UploadTypeOK, UploadersOK, UploaderOK, NamesOK
  <2>6. ASSUME NEW u \in Uploaders
        PROVE  Recorded(u)'
    <3>1. Had(u)' => Had(u)
      BY <1>1, <2>1, <2>2, ServedHears
    <3>2. Recorded(u)
      BY DEF UploadsOK
    <3>3. rivals = {u} => r.u = u
      BY <1>3
    <3> QED
      BY <1>1, <2>4, <3>1, <3>2, <3>3 DEF Recorded
  <2> QED
    BY <2>3, <2>4, <2>5, <2>6 DEF UploadsOK
<1> QED
  BY <1>4, <1>5 DEF finalizeArtifact

\* Every step of the server.
LEMMA UploadsServe ==
    ASSUME UploadsOK, NEW r \in reqs, Serve(r)
    PROVE  UploadsOK'
BY UploadsCreate, UploadsDelete, UploadsWrite, UploadsHash, UploadsFinalize DEF Serve


-----------------------------------------------------------------------------
(* The uploaders' steps.                                                   *)

\* Only uploader u moves.
OnlyUploader(u) == up' \in [Uploaders -> Uploading] /\ \A v \in Uploaders \ {u} : up'[v] = up[v]

\* An uploader drops or leaves behind some of its requests and sends one at most.
ClientSends(u, gone, new) ==
    /\ gone \subseteq Own(u) /\ new \subseteq Requests
    /\ reqs' \in {Abandoned(gone) \cup new, (reqs \ gone) \cup new}
    /\ \A r \in new : r.u = u /\ ~r.late /\ r.st \in {"sent", "hung"}
    /\ \A r, s \in new : r = s
    /\ \A r \in new, s \in Own(u) \ gone : r.i # s.i

\* Where the requests come from that are there afterwards.
LEMMA SentFrom ==
    ASSUME UploadTypeOK, NEW u, NEW gone, NEW new, ClientSends(u, gone, new), NEW r \in reqs'
    PROVE  \/ r \in reqs \ gone
           \/ r \in new
           \/ /\ r \in Requests /\ r.late /\ Pending(r)
              /\ \E q \in gone : /\ q.u = r.u /\ q.op = r.op /\ q.i = r.i /\ q.st = r.st
                                 /\ q.body = r.body
<1>1. ASSUME NEW q \in gone, Pending(q), r = [q EXCEPT !.late = TRUE]
      PROVE  /\ r \in Requests /\ r.late /\ Pending(r)
             /\ q.u = r.u /\ q.op = r.op /\ q.i = r.i /\ q.st = r.st /\ q.body = r.body
  <2>1. q \in Requests
    BY DEF ClientSends, Own, UploadTypeOK
  <2> QED
    BY <1>1, <2>1 DEF Requests, Pending
<1>2. CASE r \in Abandoned(gone)
  <2>1. r \in reqs \ gone \/ \E q \in gone : Pending(q) /\ r = [q EXCEPT !.late = TRUE]
    BY <1>2 DEF Abandoned
  <2> QED
    BY <1>1, <2>1
<1> QED
  BY <1>2 DEF ClientSends

\* What an uploader's step has to show: its own requests and its own state.
LEMMA ClientMoves ==
    ASSUME UploadsOK, NEW u \in Uploaders, OnlyUploader(u), NEW gone, NEW new,
           ClientSends(u, gone, new), UNCHANGED serverVars,
           \A r \in new \cup (Own(u) \ gone) : RequestOK(r)',
           UploaderOK(u)',
           up'[u].pc \in Created => Had(u),
           up'[u].pc \in {"outputs", "ok"} => Ended(u)
    PROVE  UploadsOK'
<1>0. UploadTypeOK /\ UNCHANGED <<art, created, lastID, rivals, lateDelete>>
  BY DEF UploadsOK, serverVars
<1>1. ASSUME NEW r \in reqs'
      PROVE  r \in Requests /\ RequestOK(r)' /\ (r \in reqs \/ r \in new \/ Pending(r))
  <2>1. CASE r \in reqs \ gone
    <3>1. r \in Requests /\ RequestOK(r)
      BY <1>0, <2>1 DEF UploadTypeOK, UploadsOK, RequestsOK
    <3>2. CASE r.late \/ r.u # u
      <4>1. r.u \in Uploaders
        BY <3>1 DEF Requests
      <4> QED
        BY <1>0, <2>1, <3>1, <3>2, <4>1 DEF RequestOK, Pending, OnlyUploader
    <3>3. CASE ~r.late /\ r.u = u
      BY <2>1, <3>1, <3>3 DEF Own
    <3> QED
      BY <3>2, <3>3
  <2>2. CASE r \in new
    BY <2>2 DEF ClientSends
  <2>3. CASE /\ r \in Requests /\ r.late /\ Pending(r)
             /\ \E q \in gone : /\ q.u = r.u /\ q.op = r.op /\ q.i = r.i /\ q.st = r.st
                                /\ q.body = r.body
    <3>1. PICK q \in gone : /\ q.u = r.u /\ q.op = r.op /\ q.i = r.i /\ q.st = r.st
                            /\ q.body = r.body
      BY <2>3
    <3>2. RequestOK(q)
      BY <3>1 DEF ClientSends, Own, UploadsOK, RequestsOK
    <3> QED
      BY <1>0, <2>3, <3>1, <3>2 DEF RequestOK, Pending
  <2> QED
    BY <1>0, <2>1, <2>2, <2>3, SentFrom
<1>2. ASSUME NEW r \in reqs', NEW s \in reqs', ~r.late, ~s.late, r.u = s.u, r.i = s.i
      PROVE  r = s
  <2>1. (r \in reqs \ gone \/ r \in new) /\ (s \in reqs \ gone \/ s \in new)
    BY <1>0, <1>2, SentFrom
  <2>2. CASE r \in reqs /\ s \in reqs
    BY <1>2, <2>2 DEF UploadsOK, RequestsOK
  <2>3. ASSUME NEW p \in new, NEW q \in reqs \ gone, ~q.late, q.u = p.u, q.i = p.i
        PROVE  FALSE
    BY <2>3 DEF ClientSends, Own
  <2> QED
    BY <1>2, <2>1, <2>2, <2>3 DEF ClientSends
<1>3. UploadTypeOK' /\ RequestsOK'
  BY <1>0, <1>1, <1>2 DEF UploadTypeOK, RequestsOK, OnlyUploader
<1>4. UploadersOK' /\ NamesOK'
  BY <1>0 DEF UploadsOK, UploadersOK, UploaderOK, NamesOK, OnlyUploader
<1>5. ASSUME NEW v \in Uploaders
      PROVE  Recorded(v)'
  <2>1. \A r \in reqs' : r.st = "ok" => r \in reqs
    BY <1>1 DEF ClientSends, Pending
  <2>2. Had(v)' => Had(v)
    BY <2>1 DEF Had, OnlyUploader
  <2>3. Ended(v)' => Ended(v)
    BY <2>1 DEF Ended, OnlyUploader
  <2>4. Recorded(v)
    BY DEF UploadsOK
  <2> QED
    BY <1>0, <2>2, <2>3, <2>4 DEF Recorded
<1> QED
  BY <1>3, <1>4, <1>5 DEF UploadsOK

\* An uploader that waits for no answer has no request of its own.
LEMMA NoOwn ==
    ASSUME UploadsOK, NEW u \in Uploaders,
           up[u].pc \notin {"delete", "create", "stream", "commit", "finalize"}
    PROVE  Own(u) = {}
<1>1. \A r \in Own(u) : r \in Requests /\ up[u].pc = PcOf(r.op)
  BY DEF Own, UploadsOK, UploadTypeOK, RequestsOK, RequestOK
<1> QED
  BY <1>1 DEF PcOf, Requests, Ops

\* One that waits for anything but blocks has one request.
LEMMA OwnIsOne ==
    ASSUME UploadsOK, NEW u \in Uploaders, NEW r \in Own(u), r.op # "block"
    PROVE  Own(u) = {r}
<1>1. \A s \in Own(u) : /\ s \in reqs /\ s \in Requests /\ ~s.late /\ s.u = u
                        /\ up[u].pc = PcOf(s.op) /\ (s.op = "block" <=> s.i # 0)
  BY DEF Own, UploadsOK, UploadTypeOK, RequestsOK, RequestOK
<1>2. \A s \in Own(u) : s.op = r.op
  BY <1>1 DEF PcOf, Requests, Ops
<1>3. \A s \in Own(u) : s.i = r.i
  BY <1>1, <1>2
<1> QED
  BY <1>1, <1>3 DEF UploadsOK, RequestsOK

\* The states of an uploader.
LEMMA UploaderState ==
    ASSUME UploadsOK, NEW u \in Uploaders
    PROVE  /\ up \in [Uploaders -> Uploading] /\ up[u] \in Uploading
           /\ up[u].read \in Nat /\ up[u].acked \subseteq 1 .. up[u].read
           /\ up[u].read <= BlocksOf[u] /\ BlocksOf[u] \in Nat
           /\ up[u].pc \in Created => u \in rivals
<1>1. up \in [Uploaders -> Uploading] /\ up[u] \in Uploading /\ UploaderOK(u)
  BY DEF UploadsOK, UploadTypeOK, UploadersOK
<1> QED
  BY <1>1, WholeIsContent DEF Uploading, UploaderOK

\* Uploader u becomes x.
LEMMA Becomes ==
    ASSUME UploadsOK, NEW u \in Uploaders, NEW x \in Uploading, up' = [up EXCEPT ![u] = x],
           UNCHANGED serverVars,
           x.pc \in Created => u \in rivals,
           x.read <= BlocksOf[u], x.acked \subseteq 1 .. x.read
    PROVE  OnlyUploader(u) /\ up'[u] = x /\ UploaderOK(u)'
<1>1. up \in [Uploaders -> Uploading]
  BY UploaderState
<1>2. OnlyUploader(u) /\ up'[u] = x
  BY <1>1 DEF OnlyUploader
<1>3. rivals' = rivals
  BY DEF serverVars
<1> QED
  BY <1>2, <1>3 DEF UploaderOK

\* An uploader that only goes on to pc.
LEMMA GoesTo ==
    ASSUME UploadsOK, NEW u \in Uploaders, NEW pc \in UpPcs, Goto(u, pc), UNCHANGED serverVars,
           pc \in Created => u \in rivals
    PROVE  /\ OnlyUploader(u) /\ UploaderOK(u)' /\ up'[u].pc = pc
           /\ up'[u].read = up[u].read /\ up'[u].acked = up[u].acked
<1> DEFINE x == [up[u] EXCEPT !.pc = pc]
<1>1. up[u] \in Uploading /\ up \in [Uploaders -> Uploading]
  BY UploaderState
<1>2. x \in Uploading /\ x.pc = pc /\ x.read = up[u].read /\ x.acked = up[u].acked
  BY <1>1 DEF Uploading
<1>3. up' = [up EXCEPT ![u] = x]
  BY <1>1 DEF Goto
<1>4. x.read <= BlocksOf[u] /\ x.acked \subseteq 1 .. x.read
  BY <1>2, UploaderState
<1> HIDE DEF x
<1> QED
  BY <1>2, <1>3, <1>4, Becomes

\* An uploader that has ended, or starts again from nothing.
LEMMA IdleAt ==
    ASSUME UploadsOK, NEW u \in Uploaders, NEW pc \in UpPcs, UploadOver(u, pc), UNCHANGED serverVars,
           pc \in Created => u \in rivals
    PROVE  OnlyUploader(u) /\ UploaderOK(u)' /\ up'[u].pc = pc
<1> DEFINE x == Idle(pc)
<1>1. x \in Uploading /\ x.pc = pc /\ x.read = 0 /\ x.acked = {}
  BY DEF Idle, Uploading
<1>2. up' = [up EXCEPT ![u] = x]
  BY DEF UploadOver
<1>3. x.read <= BlocksOf[u] /\ x.acked \subseteq 1 .. x.read
  BY <1>1, WholeIsContent
<1> HIDE DEF x
<1> QED
  BY <1>1, <1>2, <1>3, Becomes

\* A new request.
LEMMA NewRequest ==
    ASSUME NEW u \in Uploaders, NEW op \in Ops, NEW i \in Nat, NEW t \in Nat
    PROVE  \E r \in Requests : /\ r = Request(u, op, i, t)
                               /\ r.u = u /\ r.op = op /\ r.i = i /\ r.st = "sent" /\ ~r.late
<1> DEFINE r == Request(u, op, i, t)
<1>1. r \in Requests /\ r.u = u /\ r.op = op /\ r.i = i /\ r.st = "sent" /\ ~r.late
  BY OldIsArtifact DEF Request, Requests, Waiting
<1> HIDE DEF r
<1> QED
  BY <1>1 DEF r

\* An uploader that waits for nothing any more.
LEMMA ClientRests ==
    ASSUME UploadsOK, NEW u \in Uploaders, OnlyUploader(u), UploaderOK(u)', UNCHANGED serverVars,
           reqs' \in {Abandoned(Own(u)), reqs \ Own(u)},
           up'[u].pc \in Created => Had(u),
           up'[u].pc \in {"outputs", "ok"} => Ended(u)
    PROVE  UploadsOK'
<1>1. ClientSends(u, Own(u), {})
  BY DEF ClientSends
<1>2. \A r \in {} \cup (Own(u) \ Own(u)) : RequestOK(r)'
  OBVIOUS
<1> QED
  BY <1>1, <1>2, ClientMoves

\* One that waits for the answer to a single request.
LEMMA ClientAsks ==
    ASSUME UploadsOK, NEW u \in Uploaders, OnlyUploader(u), UploaderOK(u)', UNCHANGED serverVars,
           NEW op \in Ops \ {"block"},
           reqs' \in {Abandoned(Own(u)) \cup {Request(u, op, 0, 1)},
                      (reqs \ Own(u)) \cup {Request(u, op, 0, 1)}},
           up'[u].pc = op,
           op = "delete" => u \in Overwrites,
           op \in Created => Had(u)
    PROVE  UploadsOK'
<1>0. op \in Ops /\ 0 \in Nat /\ 1 \in Nat
  OBVIOUS
<1>1. PICK r \in Requests : /\ r = Request(u, op, 0, 1)
                            /\ r.u = u /\ r.op = op /\ r.i = 0 /\ r.st = "sent" /\ ~r.late
  BY ONLY <1>0, u \in Uploaders, NewRequest
<1>2. reqs' \in {Abandoned(Own(u)) \cup {r}, (reqs \ Own(u)) \cup {r}}
  BY <1>1
<1>3. ClientSends(u, Own(u), {r})
  BY <1>1, <1>2 DEF ClientSends
<1>4. rivals' = rivals
  BY DEF serverVars
<1>5. op \in Created => u \in rivals
  BY HeardOf
<1>6. RequestOK(r)'
  BY <1>1, <1>4, <1>5 DEF RequestOK, PcOf, Created, Ops
<1>7. \A q \in {r} \cup (Own(u) \ Own(u)) : RequestOK(q)'
  BY <1>6
<1>8. up'[u].pc \notin {"outputs", "ok"}
  BY DEF Ops
<1> QED
  BY <1>3, <1>7, <1>8, ClientMoves

\* An upload that fails.
LEMMA UploadsGiveUp ==
    ASSUME UploadsOK, NEW u \in Uploaders, GiveUp(u), UNCHANGED serverVars
    PROVE  UploadsOK'
<1>1. reqs' = Abandoned(Own(u)) /\ (UploadOver(u, "failed") \/ Goto(u, "closing"))
  BY DEF GiveUp
<1>2. {"failed", "closing"} \subseteq UpPcs \ Created
  BY DEF UpPcs, Created
<1>3. OnlyUploader(u) /\ UploaderOK(u)' /\ up'[u].pc \in {"failed", "closing"}
  BY <1>1, <1>2, IdleAt, GoesTo
<1> QED
  BY <1>1, <1>2, <1>3, ClientRests DEF Created

\* A request of an uploader's own.
LEMMA OwnRequest ==
    ASSUME UploadsOK, NEW u \in Uploaders, NEW r \in Own(u)
    PROVE  /\ r \in reqs /\ r \in Requests /\ RequestOK(r) /\ r.u = u /\ ~r.late
           /\ up[u].pc = PcOf(r.op)
           /\ \A s \in Own(u) \ {r} : s.i # r.i
<1>1. /\ r \in reqs /\ r \in Requests /\ RequestOK(r) /\ r.u = u /\ ~r.late
  BY DEF Own, UploadsOK, UploadTypeOK, RequestsOK
<1>2. up[u].pc = PcOf(r.op)
  BY <1>1 DEF RequestOK
<1>3. \A s \in Own(u) \ {r} : s.i # r.i
  BY <1>1 DEF Own, UploadsOK, RequestsOK
<1> QED
  BY <1>1, <1>2, <1>3

\* A request that takes the place of one of the uploader's own.
LEMMA ClientReplaces ==
    ASSUME UploadsOK, NEW u \in Uploaders, NEW r \in Own(u), NEW s \in Requests,
           s.u = u, s.op = r.op, s.i = r.i, ~s.late, s.st \in {"sent", "hung"},
           reqs' \in {Abandoned({r}) \cup {s}, (reqs \ {r}) \cup {s}},
           UNCHANGED up, UNCHANGED serverVars
    PROVE  UploadsOK'
<1>1. /\ r \in reqs /\ RequestOK(r) /\ r.u = u /\ ~r.late
      /\ \A q \in Own(u) \ {r} : q.i # r.i
  BY OwnRequest
<1>2. ClientSends(u, {r}, {s})
  BY <1>1 DEF ClientSends
<1>3. rivals' = rivals
  BY DEF serverVars
<1>4. RequestOK(s)'
  BY <1>1, <1>3 DEF RequestOK
<1>5. \A q \in Own(u) : RequestOK(q)'
  <2> TAKE q \in Own(u)
  <2>1. RequestOK(q)
    BY OwnRequest
  <2> QED
    BY <1>3, <2>1 DEF RequestOK, Pending
<1>6. \A q \in {s} \cup (Own(u) \ {r}) : RequestOK(q)'
  BY <1>4, <1>5
<1>7. OnlyUploader(u) /\ up'[u].pc = up[u].pc
  BY UploaderState DEF OnlyUploader
<1>8. UploaderOK(u)'
  BY <1>3 DEF UploadsOK, UploadersOK, UploaderOK
<1> QED
  BY <1>2, <1>6, <1>7, <1>8, ClientMoves DEF Had, Ended

\* A request that is sent again, or that was the last attempt.
LEMMA UploadsRetry ==
    ASSUME UploadsOK, NEW u \in Uploaders, NEW r \in Own(u), Retry(u, r), UNCHANGED serverVars
    PROVE  UploadsOK'
<1>1. r \in Requests
  BY OwnRequest
<1>2. CASE reqs' = Abandoned({r}) \cup {Request(u, r.op, r.i, r.try + 1)} /\ UNCHANGED up
  <2>1. r.op \in Ops /\ r.i \in Nat /\ r.try + 1 \in Nat
    BY <1>1 DEF Requests
  <2>2. PICK s \in Requests : /\ s = Request(u, r.op, r.i, r.try + 1)
                              /\ s.u = u /\ s.op = r.op /\ s.i = r.i /\ s.st = "sent" /\ ~s.late
    BY ONLY <2>1, u \in Uploaders, NewRequest
  <2>3. reqs' = Abandoned({r}) \cup {s}
    BY <1>2, <2>2
  <2> QED
    BY <1>2, <2>2, <2>3, ClientReplaces
<1>3. CASE r.op = "delete" /\ Issue(u, "create", Abandoned({r}))
  <2>1. Own(u) = {r}
    BY <1>3, OwnIsOne
  <2>2. Goto(u, "create") /\ reqs' = Abandoned(Own(u)) \cup {Request(u, "create", 0, 1)}
    BY <1>3, <2>1 DEF Issue
  <2>3. OnlyUploader(u) /\ UploaderOK(u)' /\ up'[u].pc = "create"
    BY <2>2, GoesTo DEF UpPcs, Created
  <2> QED
    BY <2>2, <2>3, ClientAsks DEF Ops, Created
<1> QED
  BY <1>2, <1>3, UploadsGiveUp DEF Retry

\* An answer comes.
LEMMA UploadsReceive ==
    ASSUME UploadsOK, NEW u \in Uploaders, NEW r \in reqs, Receive(u, r)
    PROVE  UploadsOK'
<1>1. r \in Own(u) /\ UNCHANGED serverVars /\ ~Pending(r) /\ r.st # "hung"
  BY DEF Receive, Uploads
<1>2. r \in Requests /\ RequestOK(r) /\ r.u = u /\ ~r.late /\ up[u].pc = PcOf(r.op)
  BY <1>1, OwnRequest
<1>3. /\ r.op \in {"block", "commit", "finalize"} => Had(u)
      /\ r.op = "finalize" /\ r.st = "ok" => Ended(u)
      /\ r.op = "create" /\ r.st = "ok" => Had(u)
  BY <1>2, WaitedFor DEF Had
<1>4. Had(u) => u \in rivals
  BY HeardOf
<1>5. up[u] \in Uploading /\ up \in [Uploaders -> Uploading]
  BY UploaderState
<1>6. CASE r.op = "delete" /\ Issue(u, "create", reqs \ {r})
  <2>1. Own(u) = {r}
    BY <1>1, <1>6, OwnIsOne
  <2>2. Goto(u, "create") /\ reqs' = (reqs \ Own(u)) \cup {Request(u, "create", 0, 1)}
    BY <1>6, <2>1 DEF Issue
  <2>3. OnlyUploader(u) /\ UploaderOK(u)' /\ up'[u].pc = "create"
    BY <1>1, <2>2, GoesTo DEF UpPcs, Created
  <2> QED
    BY <1>1, <2>2, <2>3, ClientAsks DEF Ops, Created
<1>7. CASE /\ r.op = "create" /\ r.st = "ok" /\ reqs' = reqs \ {r}
           /\ up' = [up EXCEPT ![u].pc = "stream", ![u].prod = "writing"]
  <2> DEFINE x == [up[u] EXCEPT !.pc = "stream", !.prod = "writing"]
  <2>1. Own(u) = {r}
    BY <1>1, <1>7, OwnIsOne
  <2>2. x \in Uploading /\ x.pc = "stream" /\ x.read = up[u].read /\ x.acked = up[u].acked
    BY <1>5 DEF Uploading, UpPcs
  <2>3. up' = [up EXCEPT ![u] = x]
    BY <1>5, <1>7
  <2>4. x.read <= BlocksOf[u] /\ x.acked \subseteq 1 .. x.read
    BY <2>2, UploaderState
  <2> HIDE DEF x
  <2>5. OnlyUploader(u) /\ up'[u] = x /\ UploaderOK(u)'
    BY <1>1, <1>3, <1>4, <1>7, <2>2, <2>3, <2>4, Becomes
  <2> QED
    BY <1>1, <1>3, <1>7, <2>1, <2>2, <2>5, ClientRests
<1>8. CASE /\ r.op = "block" /\ reqs' = reqs \ {r}
           /\ up' = [up EXCEPT ![u].acked = @ \cup {r.i}]
  <2> DEFINE x == [up[u] EXCEPT !.acked = up[u].acked \cup {r.i}]
  <2>1. r.i \in Nat /\ r.i # 0 /\ r.i <= up[u].read
    BY <1>2, <1>8 DEF RequestOK, Requests
  <2>2. /\ x \in Uploading /\ x.pc = up[u].pc /\ x.read = up[u].read
        /\ x.acked = up[u].acked \cup {r.i}
    BY <1>5, <2>1 DEF Uploading
  <2>3. up' = [up EXCEPT ![u] = x]
    BY <1>5, <1>8
  <2>4. x.read <= BlocksOf[u] /\ x.acked \subseteq 1 .. x.read
    BY <2>1, <2>2, UploaderState
  <2> HIDE DEF x
  <2>5. OnlyUploader(u) /\ up'[u] = x /\ UploaderOK(u)'
    BY <1>1, <2>2, <2>3, <2>4, UploaderState, Becomes
  <2>6. ClientSends(u, {r}, {})
    BY <1>1, <1>8 DEF ClientSends
  <2>7. \A q \in {} \cup (Own(u) \ {r}) : RequestOK(q)'
    <3> SUFFICES ASSUME NEW q \in Own(u) \ {r}
                 PROVE  RequestOK(q)'
      OBVIOUS
    <3>1. RequestOK(q) /\ q.u = u /\ q.i # r.i
      BY <1>1, OwnRequest
    <3> QED
      BY <1>1, <2>2, <2>5, <3>1 DEF RequestOK, Pending, serverVars
  <2>8. /\ up'[u].pc \in Created => Had(u)
        /\ up'[u].pc \in {"outputs", "ok"} => Ended(u)
    BY <2>2, <2>5 DEF Had, Ended
  <2> QED
    BY <1>1, <2>5, <2>6, <2>7, <2>8, ClientMoves
<1>9. CASE r.op = "commit" /\ Issue(u, "finalize", reqs \ {r})
  <2>1. Own(u) = {r}
    BY <1>1, <1>9, OwnIsOne
  <2>2. Goto(u, "finalize") /\ reqs' = (reqs \ Own(u)) \cup {Request(u, "finalize", 0, 1)}
    BY <1>9, <2>1 DEF Issue
  <2>3. OnlyUploader(u) /\ UploaderOK(u)' /\ up'[u].pc = "finalize"
    BY <1>1, <1>3, <1>4, <1>9, <2>2, GoesTo DEF UpPcs
  <2> QED
    BY <1>1, <1>3, <1>9, <2>2, <2>3, ClientAsks DEF Ops
<1>10. CASE r.op = "finalize" /\ r.st = "ok" /\ UploadOver(u, "outputs") /\ reqs' = reqs \ {r}
  <2>1. Own(u) = {r}
    BY <1>1, <1>10, OwnIsOne
  <2>2. OnlyUploader(u) /\ UploaderOK(u)' /\ up'[u].pc = "outputs"
    BY <1>1, <1>3, <1>4, <1>10, IdleAt DEF UpPcs
  <2> QED
    BY <1>1, <1>3, <1>10, <2>1, <2>2, ClientRests
<1>11. r.st \in {"ok", "failed", "refused"} /\ r.op \in Ops
  BY <1>1, <1>2 DEF Requests, Waiting, Answers, Pending
<1>12. CASE r.st = "failed" /\ r.op # "delete"
  <2>1. Retry(u, r)
    BY <1>12 DEF Receive
  <2> QED
    BY <1>1, <2>1, UploadsRetry
<1>13. CASE r.st = "refused" /\ r.op # "delete"
  <2>1. GiveUp(u)
    BY <1>13 DEF Receive
  <2> QED
    BY <1>1, <2>1, UploadsGiveUp
<1>14. CASE r.st = "ok" \/ r.op = "delete"
  <2>1. /\ r.op = "delete" => Issue(u, "create", reqs \ {r})
        /\ r.op = "create" => reqs' = reqs \ {r} /\ up' = [up EXCEPT ![u].pc = "stream", ![u].prod = "writing"]
        /\ r.op = "block" => reqs' = reqs \ {r} /\ up' = [up EXCEPT ![u].acked = @ \cup {r.i}]
        /\ r.op = "commit" => Issue(u, "finalize", reqs \ {r})
        /\ r.op = "finalize" => UploadOver(u, "outputs") /\ reqs' = reqs \ {r}
    BY <1>14 DEF Receive
  <2> QED
    BY <1>6, <1>7, <1>8, <1>9, <1>10, <1>11, <1>14, <2>1 DEF Ops
<1> QED
  BY <1>11, <1>12, <1>13, <1>14

\* A request that is lost or that nobody answers.
LEMMA UploadsLost ==
    ASSUME UploadsOK, NEW u \in Uploaders, NEW r \in reqs,
           Lost(u, r) \/ TimesOut(u, r) \/ Hangs(u, r)
    PROVE  UploadsOK'
<1>1. r \in Own(u) /\ UNCHANGED serverVars
  BY DEF Lost, TimesOut, Hangs, Uploads
<1>2. CASE Lost(u, r) \/ TimesOut(u, r)
  BY <1>1, <1>2, UploadsRetry DEF Lost, TimesOut
<1>3. CASE Hangs(u, r)
  <2> DEFINE s == [r EXCEPT !.st = "hung"]
  <2>1. r \in Requests /\ r.u = u /\ ~r.late
    BY <1>1, OwnRequest
  <2>2. /\ s \in Requests /\ s.u = u /\ s.op = r.op /\ s.i = r.i /\ ~s.late
        /\ s.st \in {"sent", "hung"}
    BY <2>1 DEF Requests, Answers
  <2>3. reqs' = (reqs \ {r}) \cup {s} /\ UNCHANGED up
    BY <1>3 DEF Hangs
  <2> HIDE DEF s
  <2> QED
    BY <1>1, <2>2, <2>3, ClientReplaces
<1> QED
  BY <1>2, <1>3

\* Steps of an uploader that waits for no answer, to where it waits for none.
LEMMA UploadsQuietly ==
    ASSUME UploadsOK, NEW u \in Uploaders,
           \/ list(u) \/ CloseUpload(u) \/ SetOutputs(u) \/ (selectFiles(u) /\ UNCHANGED reqs)
           \/ (ReadReturns(u) /\ up[u].pc = "closing")
    PROVE  UploadsOK'
<1>1. UNCHANGED serverVars /\ UNCHANGED reqs /\ up[u].pc \in {"select", "selected", "closing", "outputs"}
  BY DEF list, CloseUpload, SetOutputs, selectFiles, ReadReturns, Uploads
<1>2. Own(u) = {}
  BY <1>1, NoOwn
<1>3. reqs' = reqs \ Own(u)
  BY <1>1, <1>2
<1>4. up[u] \in Uploading /\ up \in [Uploaders -> Uploading]
  BY UploaderState
<1>5. {"selected", "failed", "nothing", "closing", "ok"} \subseteq UpPcs
      /\ {"selected", "failed", "nothing", "closing"} \cap Created = {}
  BY DEF UpPcs, Created
<1>6. CASE UploadOver(u, "failed") \/ UploadOver(u, "nothing") \/ Goto(u, "selected")
  <2>1. /\ OnlyUploader(u) /\ UploaderOK(u)' /\ up'[u].pc \in {"selected", "failed", "nothing"}
    BY <1>1, <1>5, <1>6, IdleAt, GoesTo
  <2> QED
    BY <1>1, <1>3, <1>5, <2>1, ClientRests
<1>7. CASE up[u].pc = "outputs" /\ UploadOver(u, "ok")
  <2>1. Had(u) /\ Ended(u) /\ u \in rivals
    BY <1>7, UploaderState DEF Had, Ended, Created
  <2>2. OnlyUploader(u) /\ UploaderOK(u)'
    BY <1>1, <1>5, <1>7, <2>1, IdleAt
  <2> QED
    BY <1>1, <1>3, <2>1, <2>2, ClientRests
<1>8. CASE up[u].pc = "closing" /\ up' = [up EXCEPT ![u].prod = "failed"]
  <2> DEFINE x == [up[u] EXCEPT !.prod = "failed"]
  <2>1. x \in Uploading /\ x.pc = "closing" /\ x.read = up[u].read /\ x.acked = up[u].acked
    BY <1>4, <1>8 DEF Uploading
  <2>2. up' = [up EXCEPT ![u] = x]
    BY <1>4, <1>8
  <2>3. x.read <= BlocksOf[u] /\ x.acked \subseteq 1 .. x.read
    BY <2>1, UploaderState
  <2> HIDE DEF x
  <2>4. x.pc \notin Created
    BY <1>5, <2>1
  <2>5. OnlyUploader(u) /\ up'[u] = x /\ UploaderOK(u)'
    BY <1>1, <2>1, <2>2, <2>3, <2>4, Becomes
  <2> QED
    BY <1>1, <1>3, <2>1, <2>4, <2>5, ClientRests
<1>9. selectFiles(u) /\ UNCHANGED reqs => UploadOver(u, "nothing")
  <2> SUFFICES ASSUME UNCHANGED reqs, NEW op \in {"delete", "create"}, Issue(u, op, reqs)
               PROVE  FALSE
    BY DEF selectFiles
  <2>1. op \in Ops /\ 0 \in Nat /\ 1 \in Nat
    BY DEF Ops
  <2>2. PICK r \in Requests : r = Request(u, op, 0, 1) /\ r.u = u /\ ~r.late
    BY ONLY <2>1, u \in Uploaders, NewRequest
  <2>3. r \in Own(u)
    BY <2>2 DEF Issue, Own
  <2> QED
    BY <1>2, <2>3
<1> QED
  BY <1>1, <1>6, <1>7, <1>8, <1>9 DEF list, CloseUpload, SetOutputs, ReadReturns, Uploads

\* The upload begins.
LEMMA UploadsSelect ==
    ASSUME UploadsOK, NEW u \in Uploaders, selectFiles(u)
    PROVE  UploadsOK'
<1>1. UNCHANGED serverVars /\ up[u].pc = "selected"
  BY DEF selectFiles, Uploads
<1>2. Own(u) = {}
  BY <1>1, NoOwn
<1>3. CASE Issue(u, IF u \in Overwrites THEN "delete" ELSE "create", reqs)
  <2>1. PICK op : op = IF u \in Overwrites THEN "delete" ELSE "create"
    OBVIOUS
  <2>2. op \in Ops \ {"block"} /\ op \in UpPcs /\ op \notin Created /\ (op = "delete" => u \in Overwrites)
    BY <2>1 DEF Ops, UpPcs, Created
  <2>3. Goto(u, op) /\ reqs' = (reqs \ Own(u)) \cup {Request(u, op, 0, 1)}
    BY <1>2, <1>3, <2>1 DEF Issue
  <2>4. OnlyUploader(u) /\ UploaderOK(u)' /\ up'[u].pc = op
    BY <1>1, <2>2, <2>3, GoesTo
  <2> QED
    BY <1>1, <2>2, <2>3, <2>4, ClientAsks
<1>4. CASE UNCHANGED reqs
  BY <1>4, UploadsQuietly
<1> QED
  BY <1>3, <1>4 DEF selectFiles

\* A block is read and sent.
LEMMA UploadsReadBlock ==
    ASSUME UploadsOK, NEW u \in Uploaders, ReadBlock(u)
    PROVE  UploadsOK'
<1> DEFINE x == [up[u] EXCEPT !.read = up[u].read + 1]
           n == up[u].read + 1
<1>1. UNCHANGED serverVars /\ up[u].pc = "stream" /\ up[u].read < BlocksOf[u]
  BY DEF ReadBlock, Uploads
<1>2. up[u] \in Uploading /\ up \in [Uploaders -> Uploading] /\ up[u].read \in Nat
      /\ BlocksOf[u] \in Nat /\ up[u].acked \subseteq 1 .. up[u].read
  BY UploaderState
<1>3. n \in Nat /\ n # 0 /\ n <= BlocksOf[u] /\ n \notin up[u].acked /\ up[u].acked \subseteq 1 .. n
  BY <1>1, <1>2
<1>4. x \in Uploading /\ x.pc = "stream" /\ x.read = n /\ x.acked = up[u].acked
  BY <1>1, <1>2 DEF Uploading
<1>5. up' = [up EXCEPT ![u] = x] /\ reqs' = reqs \cup {Request(u, "block", n, 1)}
  BY <1>2 DEF ReadBlock
<1>6. up[u].read < n
  BY <1>2
<1> HIDE DEF x, n
<1>7. Had(u) /\ u \in rivals
  BY <1>1, UploaderState DEF Had, Created
<1>8. OnlyUploader(u) /\ up'[u] = x /\ UploaderOK(u)'
  BY <1>1, <1>3, <1>4, <1>5, <1>7, Becomes
<1>9. "block" \in Ops /\ 1 \in Nat
  BY DEF Ops
<1>10. PICK r \in Requests : /\ r = Request(u, "block", n, 1)
                             /\ r.u = u /\ r.op = "block" /\ r.i = n /\ r.st = "sent" /\ ~r.late
  BY ONLY <1>3, <1>9, u \in Uploaders, NewRequest
<1>11. ASSUME NEW q \in Own(u)
       PROVE  q.i # n /\ RequestOK(q)'
  <2>1. q \in Requests /\ RequestOK(q) /\ q.u = u /\ ~q.late /\ up[u].pc = PcOf(q.op)
    BY OwnRequest
  <2>2. q.op = "block"
    BY <1>1, <2>1 DEF PcOf, Requests, Ops
  <2>3. q.i \in Nat /\ q.i <= up[u].read /\ q.i # 0
    BY <2>1, <2>2 DEF RequestOK, Requests
  <2>4. q.i # n /\ q.i <= n
    BY <1>2, <1>3, <1>6, <2>3
  <2> QED
    BY <1>1, <1>4, <1>8, <2>1, <2>2, <2>4 DEF RequestOK, Pending, PcOf, serverVars
<1>12. RequestOK(r)'
  BY <1>1, <1>3, <1>4, <1>7, <1>8, <1>10 DEF RequestOK, PcOf, serverVars
<1>13. ClientSends(u, {}, {r})
  BY <1>5, <1>10, <1>11 DEF ClientSends
<1>14. \A q \in {r} \cup (Own(u) \ {}) : RequestOK(q)'
  BY <1>11, <1>12
<1>15. up'[u].pc = "stream"
  BY <1>4, <1>8
<1> QED
  BY <1>1, <1>7, <1>8, <1>13, <1>14, <1>15, ClientMoves

\* All blocks are acknowledged, and none is waited for.
LEMMA UploadsCommit ==
    ASSUME UploadsOK, NEW u \in Uploaders, CommitBlocks(u)
    PROVE  UploadsOK'
<1> DEFINE x == [Idle("commit") EXCEPT !.prod = "done"]
<1>1. /\ UNCHANGED serverVars /\ up[u].pc = "stream" /\ up[u].acked = 1 .. BlocksOf[u]
      /\ up' = [up EXCEPT ![u] = x] /\ reqs' = reqs \cup {Request(u, "commit", 0, 1)}
  BY DEF CommitBlocks, Uploads
<1>2. x \in Uploading /\ x.pc = "commit" /\ x.read = 0 /\ x.acked = {}
  BY DEF Idle, Uploading, UpPcs
<1> HIDE DEF x
<1>3. x.read <= BlocksOf[u] /\ x.acked \subseteq 1 .. x.read
  BY <1>2, UploaderState
<1>4. Had(u) /\ u \in rivals
  BY <1>1, UploaderState DEF Had, Created
<1>5. OnlyUploader(u) /\ up'[u] = x /\ UploaderOK(u)'
  BY <1>1, <1>2, <1>3, <1>4, Becomes
<1>6. ASSUME NEW q \in Own(u)
      PROVE  FALSE
  <2>1. q \in Requests /\ RequestOK(q) /\ q.u = u /\ ~q.late /\ up[u].pc = PcOf(q.op)
    BY OwnRequest
  <2>2. q.op = "block"
    BY <1>1, <2>1 DEF PcOf, Requests, Ops
  <2>3. q.i \in Nat /\ q.i <= up[u].read /\ q.i # 0 /\ q.i \notin up[u].acked
    BY <2>1, <2>2 DEF RequestOK, Requests
  <2> QED
    BY <1>1, <2>3, UploaderState
<1>7. reqs' = (reqs \ Own(u)) \cup {Request(u, "commit", 0, 1)}
  BY <1>1, <1>6
<1> QED
  BY <1>1, <1>2, <1>4, <1>5, <1>7, ClientAsks DEF Ops

\* Reading fails, or nothing comes any more, or it goes on.
LEMMA UploadsReadFails ==
    ASSUME UploadsOK, NEW u \in Uploaders, ReadFails(u) \/ (ReadReturns(u) /\ up[u].pc # "closing")
    PROVE  UploadsOK'
<1>1. UNCHANGED serverVars /\ up[u].pc = "stream"
  BY DEF ReadFails, ReadReturns, Uploads
<1>2. up[u] \in Uploading /\ up \in [Uploaders -> Uploading]
  BY UploaderState
<1>3. CASE /\ up' = [up EXCEPT ![u].pc = "closing", ![u].prod = "failed"]
           /\ reqs' = Abandoned(Own(u))
  <2> DEFINE x == [up[u] EXCEPT !.pc = "closing", !.prod = "failed"]
  <2>1. x \in Uploading /\ x.pc = "closing" /\ x.read = up[u].read /\ x.acked = up[u].acked
    BY <1>2 DEF Uploading, UpPcs
  <2>2. up' = [up EXCEPT ![u] = x]
    BY <1>2, <1>3
  <2>3. x.read <= BlocksOf[u] /\ x.acked \subseteq 1 .. x.read
    BY <2>1, UploaderState
  <2> HIDE DEF x
  <2>4. x.pc \notin Created
    BY <2>1 DEF Created
  <2>5. OnlyUploader(u) /\ up'[u] = x /\ UploaderOK(u)'
    BY <1>1, <2>1, <2>2, <2>3, <2>4, Becomes
  <2> QED
    BY <1>1, <1>3, <2>1, <2>4, <2>5, ClientRests
<1>4. ASSUME NEW prod \in {"stuck", "held", "writing"}, up' = [up EXCEPT ![u].prod = prod], UNCHANGED reqs
      PROVE  UploadsOK'
  <2> DEFINE x == [up[u] EXCEPT !.prod = prod]
  <2>1. x \in Uploading /\ x.pc = "stream" /\ x.read = up[u].read /\ x.acked = up[u].acked
    BY <1>1, <1>2 DEF Uploading
  <2>2. up' = [up EXCEPT ![u] = x]
    BY <1>2, <1>4
  <2>3. x.read <= BlocksOf[u] /\ x.acked \subseteq 1 .. x.read
    BY <2>1, UploaderState
  <2> HIDE DEF x
  <2>4. Had(u) /\ u \in rivals
    BY <1>1, UploaderState DEF Had, Created
  <2>5. OnlyUploader(u) /\ up'[u] = x /\ UploaderOK(u)'
    BY <1>1, <2>1, <2>2, <2>3, <2>4, Becomes
  <2>6. ClientSends(u, {}, {})
    BY <1>4 DEF ClientSends
  <2>7. \A q \in {} \cup (Own(u) \ {}) : RequestOK(q)'
    <3> SUFFICES ASSUME NEW q \in Own(u)
                 PROVE  RequestOK(q)'
      OBVIOUS
    <3>1. RequestOK(q) /\ q.u = u
      BY OwnRequest
    <3> QED
      BY <1>1, <2>1, <2>5, <3>1 DEF RequestOK, Pending, serverVars
  <2>8. up'[u].pc = "stream"
    BY <2>1, <2>5
  <2> QED
    BY <1>1, <2>4, <2>5, <2>6, <2>7, <2>8, ClientMoves
<1> QED
  BY <1>3, <1>4 DEF ReadFails, ReadReturns, Uploads

\* Every step of an uploader.
LEMMA UploadsUpload ==
    ASSUME UploadsOK, NEW u \in Uploaders,
           \/ Upload(u) \/ ReadFails(u) \/ ReadReturns(u)
           \/ \E r \in reqs : Lost(u, r) \/ Hangs(u, r)
    PROVE  UploadsOK'
<1>1. CASE Stall(u)
  BY <1>1, UploadsGiveUp DEF Stall, Uploads
<1> QED
  BY <1>1, UploadsQuietly, UploadsSelect, UploadsReadBlock, UploadsCommit, UploadsReadFails,
     UploadsReceive, UploadsLost DEF Upload


-----------------------------------------------------------------------------
(* Downloads.                                                              *)

\* Steps of a download or of a copy leave the uploads alone.
LEMMA UploadsElsewhere ==
    ASSUME UploadsOK, UNCHANGED <<serverVars, reqs, up>>
    PROVE  UploadsOK'
<1>1. UNCHANGED <<art, created, lastID, rivals, lateDelete, reqs, up>>
  BY DEF serverVars
<1>2. UploadTypeOK' /\ UploadersOK' /\ NamesOK'
  BY <1>1 DEF UploadsOK, UploadTypeOK, UploadersOK, UploaderOK, NamesOK
<1>3. RequestsOK'
  BY <1>1 DEF UploadsOK, RequestsOK, RequestOK, Pending
<1>4. \A u \in Uploaders : Recorded(u)'
  BY <1>1 DEF UploadsOK, Recorded, Had, Ended
<1> QED
  BY <1>2, <1>3, <1>4 DEF UploadsOK

\* Only the server moves: what is finalized is a whole archive.
LEMMA DownloadsElsewhere ==
    ASSUME DownloadsOK, UNCHANGED <<down, copy, stray, rewritten, dest>>,
           art'.digest \in Digests \cup {<< >>}
    PROVE  DownloadsOK'
BY DEF DownloadsOK, DownloadTypeOK

\* A step of the server.
LEMMA DownloadsServe ==
    ASSUME UploadsOK, DownloadsOK, NEW r \in reqs, Serve(r)
    PROVE  DownloadsOK'
<1>1. UNCHANGED <<down, copy, stray, rewritten, dest>>
  BY DEF Serve, createArtifact, deleteArtifact, uploadArtifact, writeFile, joinBlocks, commitBlob,
         hashBlob, finalizeArtifact, Handles, transferVars, strays
<1>2. art \in Artifact /\ r.u \in Uploaders /\ art.digest \in Digests \cup {<< >>}
  BY DEF UploadsOK, UploadTypeOK, Requests, DownloadsOK
<1>3. Whole(r.u) \in Digests
  BY <1>2 DEF Digests
<1>4. art'.digest \in {art.digest, << >>, Whole(r.u)}
  <2>1. CASE createArtifact(r)
    <3>1. art' = art \/ art' = [NoArt EXCEPT !.id = lastID + 1]
      BY <2>1 DEF createArtifact, serverVars
    <3> QED
      BY <3>1, OldIsArtifact DEF Artifact
  <2>2. CASE deleteArtifact(r)
    <3>1. art' = art \/ art' = NoArt
      BY <2>2 DEF deleteArtifact, serverVars
    <3> QED
      BY <3>1, OldIsArtifact
  <2>3. CASE uploadArtifact(r) \/ joinBlocks(r) \/ hashBlob(r)
    <3>1. art' = art
      BY <2>3 DEF uploadArtifact, joinBlocks, hashBlob, serverVars
    <3> QED
      BY <3>1
  <2>4. CASE writeFile(r)
    <3>1. art' = art \/ \E b : Staged(b)
      BY <2>4 DEF writeFile
    <3> QED
      BY <1>2, <3>1 DEF Staged, Artifact
  <2>5. CASE commitBlob(r)
    <3>1. art' = art \/ art' = [art EXCEPT !.blob = r.body]
      BY <2>5 DEF commitBlob
    <3> QED
      BY <1>2, <3>1 DEF Artifact
  <2>6. CASE finalizeArtifact(r)
    BY <2>6, UploadsFinalize
  <2> QED
    BY <2>1, <2>2, <2>3, <2>4, <2>5, <2>6 DEF Serve
<1> QED
  BY <1>1, <1>2, <1>3, <1>4, DownloadsElsewhere

\* A step of an uploader.
LEMMA DownloadsUpload ==
    ASSUME DownloadsOK, NEW u \in Uploaders,
           \/ Upload(u) \/ ReadFails(u) \/ ReadReturns(u)
           \/ \E r \in reqs : Lost(u, r) \/ Hangs(u, r)
    PROVE  DownloadsOK'
<1>1. \E pc : Uploads(u, pc)
  BY DEF Upload, ReadFails, ReadReturns, Lost, Hangs, list, selectFiles, ReadBlock, CommitBlocks, Stall,
         CloseUpload, SetOutputs, Receive, TimesOut
<1>2. UNCHANGED <<art, down, copy, stray, rewritten, dest>>
  BY <1>1 DEF Uploads, serverVars, strays
<1> QED
  BY <1>2, DownloadsElsewhere DEF DownloadsOK

\* What extracting the first n entries of a stream does to the files.
LEMMA Extracts ==
    ASSUME DownloadsOK, NEW body \in Content, NEW n \in 0 .. Len(body), NEW begun, Extracted(body, n, begun)
    PROVE  /\ dest' \in [1 .. Width -> Files]
           /\ n = Len(body) => \A i \in 1 .. Width : i <= Len(body) => dest'[i] = body[i]
<1>1. dest \in [1 .. Width -> Files] /\ Width \in Nat /\ Len(body) \in Nat
  BY TransferAssumption DEF DownloadsOK, DownloadTypeOK, Content
<1>2. \A i \in 1 .. Width : i <= Len(body) => body[i] \in Files
  BY <1>1 DEF Content, Files
<1> DEFINE File(i) == IF i <= n /\ i <= Len(body) THEN body[i]
                      ELSE IF begun /\ i = n + 1 /\ i <= Len(body) THEN Truncated ELSE dest[i]
<1>3. dest' = [i \in 1 .. Width |-> File(i)]
  BY <1>1 DEF Extracted
<1>4. \A i \in 1 .. Width : File(i) \in Files
  BY <1>1, <1>2 DEF Files
<1>5. n = Len(body) => \A i \in 1 .. Width : i <= Len(body) => File(i) = body[i]
  OBVIOUS
<1> HIDE DEF File
<1> QED
  BY <1>3, <1>4, <1>5

\* A copy that goes on to st.
LEMMA CopyMoves ==
    ASSUME DownloadsOK, UNCHANGED <<art, down, rewritten>>, stray' \subseteq Strays,
           NEW st \in {"offered", "taken", "cut", "api", "ok", "err"}, Ends(st), copy.st # "ok",
           dest' \in [1 .. Width -> Files],
           st = "ok" => \A i \in 1 .. Width : i <= Len(copy.body) => dest'[i] = copy.body[i]
    PROVE  DownloadsOK'
<1>1. copy \in Copies /\ down.pc # "ok"
  BY DEF DownloadsOK, DownloadTypeOK
<1>2. copy' \in Copies /\ copy'.st = st /\ copy'.body = copy.body
  BY <1>1 DEF Ends, Copies
<1>3. DownloadTypeOK'
  BY <1>2 DEF DownloadsOK, DownloadTypeOK
<1> QED
  BY <1>1, <1>2, <1>3 DEF DownloadsOK

\* Every step of a copy.
LEMMA DownloadsCopy ==
    ASSUME DownloadsOK, UNCHANGED <<art, down>>, CopySteps \/ execLost
    PROVE  DownloadsOK'
<1>1. /\ copy.body \in Content /\ stray \subseteq Strays /\ Len(copy.body) \in Nat
      /\ dest \in [1 .. Width -> Files]
  BY DEF DownloadsOK, DownloadTypeOK, Copies, Content
<1>2. UNCHANGED rewritten /\ copy.st # "ok"
  BY DEF CopySteps, execLost, HostCopyTarStream, DockerCopyTarStream, OneStream, offer, ServeHTTP,
         FetchKubernetesTransfer, extract, Copying, LeftBehind, strays
<1> DEFINE Behind == UNCHANGED strays \/ LeftBehind
<1>3. Behind => stray' \subseteq Strays
  BY <1>1 DEF LeftBehind, Strays, strays
<1>4. ASSUME Behind, WholeCopy(copy.body), Ends("ok")
      PROVE  DownloadsOK'
  <2>1. /\ dest' \in [1 .. Width -> Files]
        /\ \A i \in 1 .. Width : i <= Len(copy.body) => dest'[i] = copy.body[i]
    <3>1. Len(copy.body) \in 0 .. Len(copy.body)
      BY <1>1
    <3>2. Extracted(copy.body, Len(copy.body), FALSE)
      BY <1>4, Zenon DEF WholeCopy
    <3> QED
      BY <1>1, <3>1, <3>2, Extracts
  <2> HIDE DEF Behind
  <2> QED
    BY <1>1, <1>2, <1>3, <1>4, <2>1, CopyMoves
<1>5. ASSUME Behind, Torn(copy.body), Ends("err")
      PROVE  DownloadsOK'
  <2>1. dest' \in [1 .. Width -> Files]
    BY <1>1, <1>5, Extracts DEF Torn
  <2> HIDE DEF Behind
  <2> QED
    BY <1>1, <1>2, <1>3, <1>5, <2>1, CopyMoves
<1>6. ASSUME UNCHANGED dest, Behind, NEW st \in {"offered", "taken", "cut", "api", "err"}, Ends(st)
      PROVE  DownloadsOK'
  <2> HIDE DEF Behind
  <2> QED
    BY <1>1, <1>2, <1>3, <1>6, CopyMoves
<1>7. CASE HostCopyTarStream \/ DockerCopyTarStream \/ extract
  BY <1>4, <1>5, <1>7 DEF HostCopyTarStream, DockerCopyTarStream, OneStream, extract
<1>8. CASE offer \/ ServeHTTP
  BY <1>6, <1>8 DEF offer, ServeHTTP
<1>9. CASE FetchKubernetesTransfer
  BY <1>4, <1>5, <1>9 DEF FetchKubernetesTransfer, CutOff
<1>10. CASE execLost
  BY <1>6, <1>10 DEF execLost
<1> QED
  BY <1>7, <1>8, <1>9, <1>10 DEF CopySteps

\* A process that was left behind writes what it was sent, to the end or not:
\* the files that the copy has written and it has not stay.
LEMMA DownloadsStray ==
    ASSUME DownloadsOK, UNCHANGED <<art, down>>, StrayHelper
    PROVE  DownloadsOK'
<1>1. stray \subseteq Strays /\ copy \in Copies /\ dest \in [1 .. Width -> Files] /\ UNCHANGED copy
  BY DEF DownloadsOK, DownloadTypeOK, StrayHelper
<1>2. PICK s \in stray :
        \/ StrayWrites(s, s.body[s.next]) /\ stray' = (stray \ {s}) \cup {[s EXCEPT !.next = @ + 1]}
        \/ StrayWrites(s, Truncated) /\ stray' = stray \ {s}
        \/ stray' = stray \ {s} /\ UNCHANGED <<dest, rewritten>>
  BY DEF StrayHelper
<1>3. s \in Strays /\ s.next \in Nat /\ s.body \in Content /\ Len(s.body) \in Nat
  BY <1>1 DEF Strays, Content
<1>4. stray' \subseteq Strays
  <2>1. [s EXCEPT !.next = @ + 1] \in Strays
    BY <1>3 DEF Strays
  <2> QED
    BY <1>1, <1>2, <2>1
<1>5. ASSUME NEW content, StrayWrites(s, content), s.next \in 1 .. Width => content \in Files
      PROVE  /\ dest' \in [1 .. Width -> Files]
             /\ \A i \in 1 .. Width : i \notin rewritten' => i \notin rewritten /\ dest'[i] = dest[i]
  <2>1. dest' = [dest EXCEPT ![s.next] = content] /\ rewritten' = rewritten \cup {s.next}
    BY <1>5 DEF StrayWrites
  <2>2. CASE s.next \in 1 .. Width
    BY <1>1, <1>5, <2>1, <2>2
  <2>3. CASE s.next \notin 1 .. Width
    BY <1>1, <2>1, <2>3
  <2> QED
    BY <2>2, <2>3
<1>6. Truncated \in Files /\ (StrayWrites(s, s.body[s.next]) /\ s.next \in 1 .. Width => s.body[s.next] \in Files)
  BY <1>3 DEF StrayWrites, Files, Content
<1>7. /\ dest' \in [1 .. Width -> Files]
      /\ \A i \in 1 .. Width : i \notin rewritten' => i \notin rewritten /\ dest'[i] = dest[i]
  BY <1>1, <1>2, <1>5, <1>6
<1> QED
  BY <1>1, <1>4, <1>7 DEF DownloadsOK, DownloadTypeOK

\* The job has failed and its environment is removed.
LEMMA DownloadsFail ==
    ASSUME DownloadsOK, UNCHANGED art, JobFails, Uploaders # {}
    PROVE  DownloadsOK'
<1>1. /\ down' = Ready("failed") /\ copy' = NoCopy /\ stray' = {} /\ dest' = NoFiles
  BY DEF JobFails, RemoveEnvironment
<1>2. /\ Ready("failed") \in Downloading /\ Ready("failed").pc = "failed"
      /\ NoCopy \in Copies /\ NoCopy.st = "idle" /\ << >> \in Content
      /\ NoFiles \in [1 .. Width -> Files]
  BY OldIsArtifact DEF Ready, Downloading, DownPcs, NoCopy, Copies, NoFiles, Files
<1> QED
  BY <1>1, <1>2 DEF DownloadsOK, DownloadTypeOK

\* A download that goes on to d, with a copy c.
LEMMA DownloadMoves ==
    ASSUME DownloadsOK, UNCHANGED <<art, stray, dest>>, Uploaders # {},
           NEW d \in Downloading, down' = d, NEW c \in Copies, copy' = c,
           d.pc \in {"list", "mkdir", "sign", "get", "hung", "extract", "copy", "failed"},
           d.pc \in {"mkdir", "sign", "get", "hung", "extract", "copy"} => d.digest \in Digests,
           d.pc = "copy" => c.body = d.body,
           (c = copy /\ UNCHANGED rewritten) \/ c.st # "ok"
    PROVE  DownloadsOK'
<1>1. DownloadTypeOK'
  BY DEF DownloadsOK, DownloadTypeOK
<1> QED
  BY <1>1 DEF DownloadsOK

\* Another attempt, or the last one failed.
LEMMA DownloadsRetry ==
    ASSUME DownloadsOK, UNCHANGED art, RetryFetch, down.pc \in {"get", "extract", "copy"}
    PROVE  DownloadsOK'
<1>1. down \in Downloading /\ copy \in Copies /\ Uploaders # {} /\ down.digest \in Digests
  BY DEF DownloadsOK, DownloadTypeOK
<1>2. CASE /\ down' = [down EXCEPT !.pc = "get", !.body = << >>, !.try = @ + 1] /\ copy' = NoCopy
           /\ UNCHANGED <<env, helper, strays, dest>>
  <2> DEFINE d == [down EXCEPT !.pc = "get", !.body = << >>, !.try = down.try + 1]
  <2>0. down.try + 1 \in Nat /\ << >> \in Content /\ "get" \in DownPcs
    BY <1>1, OldIsArtifact DEF Downloading, DownPcs
  <2>1. d \in Downloading /\ d.pc = "get" /\ d.digest = down.digest
    BY <1>1, <2>0 DEF Downloading
  <2>2. down' = d
    BY <1>1, <1>2
  <2>3. NoCopy \in Copies /\ NoCopy.st # "ok"
    BY OldIsArtifact DEF NoCopy, Copies
  <2> HIDE DEF d
  <2> QED
    BY <1>1, <1>2, <2>1, <2>2, <2>3, DownloadMoves DEF strays
<1> QED
  BY <1>1, <1>2, DownloadsFail DEF RetryFetch

\* Every step of a download.
LEMMA DownloadsDownload ==
    ASSUME UploadsOK, DownloadsOK, Download
    PROVE  DownloadsOK' /\ UNCHANGED <<serverVars, reqs, up>>
<1>1. UNCHANGED <<serverVars, reqs, up>> /\ UNCHANGED art
  BY DEF Download, StartJob, listArtifacts, MakeTarget, getSignedArtifactURL, GetBlob, CtxDone, fetchOnce,
         fetch, Downloads, serverVars
<1>2. /\ down \in Downloading /\ copy \in Copies /\ art \in Artifact
      /\ art.digest \in Digests \cup {<< >>} /\ (down.pc # "start" => Uploaders # {})
  BY DEF DownloadsOK, DownloadTypeOK, UploadsOK, UploadTypeOK
<1>3. NoCopy \in Copies /\ NoCopy.st # "ok"
  BY OldIsArtifact DEF NoCopy, Copies
<1>4. CASE StartJob
  <2>1. PICK pc \in {"failed", "list"} : down' = Ready(pc)
    BY <1>4 DEF StartJob
  <2>2. Ready(pc) \in Downloading /\ Ready(pc).pc = pc
    BY <2>1, OldIsArtifact DEF Ready, Downloading, DownPcs
  <2>3. UNCHANGED <<copy, strays, dest>> /\ Uploaders # {}
    BY <1>4 DEF StartJob, setupTransfer
  <2> QED
    BY <1>1, <1>2, <2>1, <2>2, <2>3, DownloadMoves DEF strays
<1>5. CASE listArtifacts
  <2>1. down.pc = "list"
    BY <1>5 DEF listArtifacts, Downloads
  <2>2. CASE Finalized
    <3> DEFINE d == [down EXCEPT !.pc = "mkdir", !.digest = art.digest]
               c == [st |-> "start", body |-> << >>]
    <3>1. down' = d /\ copy' = c /\ UNCHANGED <<stray, dest>>
      BY <1>5, <2>2 DEF listArtifacts, StartCopy
    <3>2. d \in Downloading /\ d.pc = "mkdir" /\ d.digest = art.digest
      BY <1>2 DEF Downloading, DownPcs, Artifact
    <3>3. c \in Copies /\ c.st = "start"
      BY OldIsArtifact DEF Copies
    <3>4. art.digest \in Digests
      BY <1>2, <2>2 DEF Finalized
    <3> HIDE DEF d, c
    <3> QED
      BY <1>1, <1>2, <2>1, <3>1, <3>2, <3>3, <3>4, DownloadMoves DEF strays
  <2>3. CASE ~Finalized
    BY <1>1, <1>2, <1>5, <2>1, <2>3, DownloadsFail DEF listArtifacts
  <2> QED
    BY <2>2, <2>3
<1>6. CASE MakeTarget
  <2>1. down.pc = "mkdir" /\ down.digest \in Digests
    BY <1>6 DEF MakeTarget, Downloads, DownloadsOK
  <2>2. CASE /\ down' = [down EXCEPT !.pc = "sign"] /\ copy' = NoCopy
             /\ UNCHANGED <<env, helper, strays, dest>>
    <3> DEFINE d == [down EXCEPT !.pc = "sign"]
    <3>1. d \in Downloading /\ d.pc = "sign" /\ d.digest = down.digest /\ down' = d
      BY <1>2, <2>2 DEF Downloading, DownPcs
    <3> HIDE DEF d
    <3> QED
      BY <1>1, <1>2, <1>3, <2>1, <2>2, <3>1, DownloadMoves DEF strays
  <2> QED
    BY <1>1, <1>2, <1>6, <2>1, <2>2, DownloadsFail DEF MakeTarget
<1>7. CASE getSignedArtifactURL
  <2>1. down.pc = "sign" /\ down.digest \in Digests
    BY <1>7 DEF getSignedArtifactURL, Downloads, DownloadsOK
  <2>2. CASE DownTo("get")
    <3> DEFINE d == [down EXCEPT !.pc = "get"]
    <3>1. d \in Downloading /\ d.pc = "get" /\ d.digest = down.digest
          /\ down' = d /\ UNCHANGED <<copy, strays, dest>>
      BY <1>2, <2>2 DEF Downloading, DownPcs, DownTo
    <3> HIDE DEF d
    <3> QED
      BY <1>1, <1>2, <2>1, <3>1, DownloadMoves DEF strays
  <2> QED
    BY <1>1, <1>2, <1>7, <2>1, <2>2, DownloadsFail DEF getSignedArtifactURL
<1>8. CASE GetBlob
  <2>1. down.pc = "get" /\ down.digest \in Digests
    BY <1>8 DEF GetBlob, DownloadsOK
  <2>2. CASE UNCHANGED transferVars /\ down' = [down EXCEPT !.pc = "extract", !.body = downloadArtifact]
    <3> DEFINE d == [down EXCEPT !.pc = "extract", !.body = downloadArtifact]
    <3>1. downloadArtifact \in Content
      BY <1>2, OldIsArtifact DEF downloadArtifact, Artifact
    <3>2. d \in Downloading /\ d.pc = "extract" /\ d.digest = down.digest
      BY <1>2, <3>1 DEF Downloading, DownPcs
    <3>3. down' = d /\ UNCHANGED <<copy, stray, rewritten, dest>>
      BY <2>2 DEF transferVars, strays
    <3> HIDE DEF d
    <3> QED
      BY <1>1, <1>2, <2>1, <3>2, <3>3, DownloadMoves
  <2>3. CASE DownTo("hung")
    <3> DEFINE d == [down EXCEPT !.pc = "hung"]
    <3>1. d \in Downloading /\ d.pc = "hung" /\ d.digest = down.digest
          /\ down' = d /\ UNCHANGED <<copy, strays, dest>>
      BY <1>2, <2>3 DEF Downloading, DownPcs, DownTo
    <3> HIDE DEF d
    <3> QED
      BY <1>1, <1>2, <2>1, <3>1, DownloadMoves DEF strays
  <2> QED
    BY <1>1, <1>8, <2>1, <2>2, <2>3, DownloadsRetry DEF GetBlob
<1>9. CASE fetchOnce
  <2>1. down.pc = "extract" /\ down.digest \in Digests
    BY <1>9 DEF fetchOnce, Downloads, DownloadsOK
  <2>2. CASE StartCopy(down.body) /\ down' = [down EXCEPT !.pc = "copy"]
    <3> DEFINE d == [down EXCEPT !.pc = "copy"]
               c == [st |-> "start", body |-> down.body]
    <3>1. d \in Downloading /\ d.pc = "copy" /\ d.digest = down.digest /\ d.body = down.body
      BY <1>2 DEF Downloading, DownPcs
    <3>2. c \in Copies /\ c.st = "start" /\ c.body = down.body
      BY <1>2 DEF Copies, Downloading
    <3>3. down' = d /\ copy' = c /\ UNCHANGED <<stray, dest>>
      BY <2>2 DEF StartCopy
    <3> HIDE DEF d, c
    <3> QED
      BY <1>1, <1>2, <2>1, <3>1, <3>2, <3>3, DownloadMoves
  <2> QED
    BY <1>1, <1>9, <2>1, <2>2, DownloadsRetry DEF fetchOnce
<1>10. CASE fetch
  <2>1. down.pc = "copy" /\ down.digest \in Digests /\ copy.body = down.body
    BY <1>10 DEF fetch, DownloadsOK
  <2>2. CASE copy.st = "ok" /\ down.body = down.digest /\ DownTo("ok")
    <3>1. /\ down' \in Downloading /\ down'.pc = "ok" /\ down'.digest = down.digest
          /\ down'.body = down.body /\ UNCHANGED <<copy, stray, rewritten, dest>>
      BY <1>2, <2>2 DEF Downloading, DownPcs, DownTo, strays
    <3>2. DownloadTypeOK'
      BY <3>1 DEF DownloadsOK, DownloadTypeOK
    <3> QED
      BY <1>1, <2>1, <2>2, <3>1, <3>2 DEF DownloadsOK
  <2> QED
    BY <1>1, <1>2, <1>10, <2>1, <2>2, DownloadsRetry, DownloadsFail DEF fetch
<1>11. CASE CtxDone
  BY <1>1, <1>2, <1>11, DownloadsFail DEF CtxDone, Downloads
<1> QED
  BY <1>1, <1>4, <1>5, <1>6, <1>7, <1>8, <1>9, <1>10, <1>11 DEF Download

-----------------------------------------------------------------------------
(* Every step, and the theorems.                                           *)

\* Both parts are inductive.
LEMMA ArtifactsNext ==
    ASSUME UploadsOK, DownloadsOK, [Next]_vars
    PROVE  UploadsOK' /\ DownloadsOK'
<1>1. CASE Done \/ UNCHANGED vars
  <2>1. UNCHANGED <<serverVars, reqs, up>> /\ UNCHANGED <<art, down, copy, stray, rewritten, dest>>
    BY <1>1 DEF Done, vars, serverVars, transferVars, strays
  <2> QED
    BY <2>1, UploadsElsewhere, DownloadsElsewhere DEF DownloadsOK
<1>2. CASE Download
  BY <1>2, DownloadsDownload, UploadsElsewhere
<1>3. CASE TransferStep(CopySteps) \/ TransferStep(execLost) \/ TransferStep(StrayHelper)
  <2>1. UNCHANGED <<serverVars, reqs, up>> /\ UNCHANGED <<art, down>>
        /\ (CopySteps \/ execLost \/ StrayHelper)
    BY <1>3 DEF TransferStep, serverVars
  <2> QED
    BY <2>1, UploadsElsewhere, DownloadsCopy, DownloadsStray
<1>4. CASE \E r \in reqs : Serve(r)
  BY <1>4, UploadsServe, DownloadsServe
<1>5. CASE \E u \in Uploaders : Upload(u) \/ ReadFails(u) \/ ReadReturns(u) \/ \E r \in reqs : Lost(u, r) \/ Hangs(u, r)
  BY <1>5, UploadsUpload, DownloadsUpload
<1> QED
  BY <1>1, <1>2, <1>3, <1>4, <1>5 DEF Next

\* The inductive invariant of the uploads (whose a request can be, who waits for
\* it and what the server has recorded for whom) and of the downloads holds.
THEOREM ArtifactsAreOK == Spec => [](UploadsOK /\ DownloadsOK)
<1>1. Init => UploadsOK /\ DownloadsOK
  BY ArtifactsInit
<1>2. UploadsOK /\ DownloadsOK /\ [Next]_vars => (UploadsOK /\ DownloadsOK)'
  BY ArtifactsNext
<1> QED
  BY <1>1, <1>2, PTL DEF Spec

\* A download that succeeds has put the whole of one upload into the job's
\* environment (fetch, CopyTarStream): whatever is uploaded, lost, repeated,
\* replaced or cut off meanwhile, with any number of uploaders, attempts and
\* faults, and in any environment.  Excepted are exactly the files that the
\* process of an attempt given up on has written since the copy began.
THEOREM DownloadsAreIntact == Spec => []DownloadIsIntact
<1>1. ASSUME DownloadsOK
      PROVE  DownloadIsIntact
  <2> SUFFICES ASSUME down.pc = "ok"
               PROVE  /\ down.body \in Digests
                      /\ \A i \in DOMAIN down.body : i \notin rewritten => dest[i] = down.body[i]
    BY DEF DownloadIsIntact, Digests
  <2>1. /\ down.body \in Digests /\ copy.st = "ok" /\ copy.body = down.body /\ Uploaders # {}
        /\ \A i \in 1 .. Width : i <= Len(copy.body) /\ i \notin rewritten => dest[i] = copy.body[i]
    BY <1>1 DEF DownloadsOK
  <2>2. down.body \in Content /\ Len(down.body) \in Nat /\ Len(down.body) <= Width
    BY <2>1, DigestsFit
  <2>3. \A i \in DOMAIN down.body : i \in 1 .. Width /\ i <= Len(down.body)
    BY <2>2, TransferAssumption DEF Content
  <2> QED
    BY <2>1, <2>3
<1> QED
  BY <1>1, ArtifactsAreOK, PTL

\* An upload that reports success, without rivals, is recorded with its digest
\* and stays (finalizeArtifact), whatever requests are lost, sent again or
\* executed late; and without overwriting one upload of a name succeeds
\* (createArtifact refuses the others).
THEOREM UploadsAreRecorded == Spec => []UploadIsRecorded
<1>1. ASSUME UploadsOK
      PROVE  UploadIsRecorded
  <2>1. ASSUME NEW u \in Uploaders, rivals = {u}, up[u].pc \in {"outputs", "ok"}, ~lateDelete
        PROVE  art.digest = Whole(u)
    BY <1>1, <2>1 DEF UploadsOK, Recorded, Ended
  <2>2. ASSUME rivals \cap Overwrites = {}
        PROVE  Cardinality({u \in Uploaders : up[u].pc \in {"outputs", "ok"}}) <= 1
    <3> DEFINE S == {u \in Uploaders : up[u].pc \in {"outputs", "ok"}}
    <3>1. \A u \in S : u \in rivals
      BY <1>1 DEF UploadsOK, UploadersOK, UploaderOK, Created
    <3>2. \A u, v \in S : u = v
      BY <1>1, <2>2, <3>1 DEF UploadsOK, NamesOK
    <3>3. S = {} \/ \E u \in S : S = {u}
      BY <3>2
    <3> HIDE DEF S
    <3>4. Cardinality(S) <= 1
      <4>1. CASE S = {}
        <5>1. Cardinality({}) = 0
          BY FS_EmptySet
        <5> QED
          BY <4>1, <5>1
      <4>2. CASE \E u \in S : S = {u}
        <5>1. PICK u \in S : S = {u}
          BY <4>2
        <5>2. Cardinality({u}) = 1
          BY FS_Singleton
        <5> QED
          BY <5>1, <5>2
      <4> QED
        BY <3>3, <4>1, <4>2
    <3> QED
      BY <3>4 DEF S
  <2> QED
    BY <2>1, <2>2 DEF UploadIsRecorded
<1> QED
  BY <1>1, ArtifactsAreOK, PTL

=============================================================================
