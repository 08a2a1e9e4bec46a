---------------------------- MODULE ArtifactCache ----------------------------
(***************************************************************************)
(* The cache server: act/artifactcache/handler.go, handler_v2.go and       *)
(* storage.go, with entries kept on disk.                                  *)
(*                                                                         *)
(* Each request runs in a goroutine (a thread here).  What a handler does  *)
(* between openDB and db.Close is one step, because dbLock admits one      *)
(* store at a time; what it does to files it does outside the lock, one    *)
(* file operation a step.  The sweep (gcCache) and the lookups run in      *)
(* between.  A file is the sequence of the parts its bytes come from: n    *)
(* stands for as many bytes as part n has, -n for fewer, and the empty     *)
(* sequence for a file that does not exist.  The bytes are the part's own, *)
(* but for the zeros that `holes` records.  The clients (the cache action  *)
(* of a job) are external: they reserve, upload the parts, name the block  *)
(* list if the API has one, commit, and may give up on an answer and send  *)
(* the request again.                                                      *)
(***************************************************************************)
EXTENDS CachePolicy

CONSTANTS
    ApiOf,          \* the cache API a job's client speaks
    Threads,        \* requests that can be in progress at a time
    PartsOf,        \* parts a job's archive is uploaded in, each of size one
    SizedJobs,      \* v1 clients that say how large their archive is
    MaxId,          \* bound: entries ever reserved
    MaxMishaps,     \* bound: lost answers, failed calls, failed deletions, crashes
    OverlapCommits  \* a commit may be sent again while the first one runs

ASSUME ApiAssumption == ApiOf \in [Jobs -> {"v1", "v2"}]
ASSUME PartsAssumption == PartsOf \in [Jobs -> Nat \ {0}]
ASSUME MaxIdAssumption == MaxId \in Nat

Ids     == 1 .. MaxId
NoOwner == "none"

ASSUME OwnerAssumption == NoOwner \notin Jobs
\* Past this age every pass treats an entry alike.
MaxAge  == Max({InUseGrace, StallTimeout, Retention + TouchStale}) + 1

VARIABLES
    rows,           \* the entries in the database
    seq,            \* bolt's sequence: ids handed out so far
    blob,           \* storage.filename(id)
    staged,         \* storage.tempDir(id)
    url,            \* ticks for which a signed download URL stays usable
    thr,            \* the handlers' goroutines
    sweeping,       \* gcCache: "idle", or "room" once the passes are over
    client,         \* what a job's client has done
    half,           \* history: entries whose bytes went and whose row stayed
    stray,          \* history: entries written to after or amid their deletion
    holes,          \* history: parts truncated under another copy's hands
    untouched,      \* history: entries of URLs that were not marked as used
    mishaps         \* failures so far

history == <<half, stray, holes, untouched>>
disk  == <<blob, staged, history>>
store == <<rows, disk>>
vars  == <<rows, seq, disk, url, thr, sweeping, client, mishaps>>

NoDir == [dir |-> FALSE, parts |-> {}, blocks |-> {}, listed |-> FALSE]

Idle == [pc |-> "idle", job |-> CHOOSE j \in Jobs : TRUE, id |-> 0, part |-> 0,
         left |-> {}, file |-> <<>>, live |-> FALSE]

Init ==
    /\ rows = <<>>
    /\ seq = 0
    /\ blob = [i \in Ids |-> <<>>]
    /\ staged = [i \in Ids |-> NoDir]
    /\ url = [i \in Ids |-> 0]
    /\ thr = [t \in Threads |-> Idle]
    /\ sweeping = "idle"
    /\ client = [j \in Jobs |-> [phase |-> "new", id |-> 0, acked |-> {},
                               resent |-> {}]]
    /\ half = {}
    /\ stray = {}
    /\ holes = {}
    /\ untouched = {}
    /\ mishaps = 0

-----------------------------------------------------------------------------
(* Files and rows.                                                          *)

Whole(j) == [n \in 1 .. PartsOf[j] |-> n]

SizeOf(file) == Cardinality({k \in DOMAIN file : file[k] > 0})

\* The size a commit is checked against; -1 when the client sends none.
DeclaredSize(j) ==
    IF ApiOf[j] = "v2" \/ j \in SizedJobs THEN PartsOf[j] ELSE -1

\* A v2 archive of several parts is staged as blocks a list puts in order.
InBlocks(j) == ApiOf[j] = "v2" /\ PartsOf[j] > 1

Named(files, n) == files \cap {n, -n}

\* The file of the first of the names a commit has left to take; an absent
\* one, or no name at all, yields no file.
FirstOf(files, names) ==
    UNION {Named(files, n) : n \in {m \in names : \A k \in names : m <= k}}

\* One deletion of a step may fail: at the blob, so that nothing is removed,
\* at the staged parts, when the blob is gone, or at the row, when all bytes
\* are.  (A server killed amid a deletion leaves what a failed one does.)
Failures == {[id |-> 0, at |-> "none"]}
            \cup (IF mishaps < MaxMishaps
                  THEN [id : DOMAIN rows, at : {"blob", "parts", "row"}] ELSE {})

Mishap(happens) == mishaps' = IF happens THEN mishaps + 1 ELSE mishaps

\* deleteCache: an entry keeps its row when its deletion fails.
RowsDeleted(tried, f) == tried \ {f.id}

\* A commit has renamed the first part of entry i to the entry's name.
Renamed(i) == \E t \in Threads : thr[t].id = i /\ thr[t].pc \in {"append", "save"}

\* deleteCache for each entry of `tried` in a table `rs`: storage.Remove takes
\* the blob, then the staged parts, and last goes the row.  Requests that need
\* the table wait for the lock; of what the others do in between, only the
\* rename of a commit makes a difference: it is then `missed`, because the
\* removal of the blob came before it.
DeleteCaches(rs, tried, f) ==
    LET gone    == tried \ (IF f.at = "blob" THEN {f.id} ELSE {})
        cleared == gone \ (IF f.at = "parts" THEN {f.id} ELSE {})
    IN  /\ f.id \in tried \cup {0}
        /\ rows' = Without(rs, RowsDeleted(tried, f))
        /\ \E missed \in SUBSET {i \in gone : Renamed(i)} :
              /\ blob' = [i \in Ids |-> IF i \in gone \ missed THEN <<>> ELSE blob[i]]
              /\ stray' = stray \cup missed
        /\ staged' = [i \in Ids |-> IF i \in cleared THEN NoDir ELSE staged[i]]
        /\ half' = (half \cup (gone \cap {f.id})) \cap DOMAIN rows'
        /\ UNCHANGED holes
        /\ Mishap(f.at # "none")

\* makeRoom: how short of the floor the volume is, is up to the disk.
MakeRoom(f) ==
    \E short \in 0 .. TotalSize(rows, Completed(rows)) :
        LET limit == TotalSize(rows, Completed(rows)) - short
        IN  DeleteCaches(rows, IF short = 0 THEN {}
                               ELSE EvictTo(rows, Completed(rows), limit, f.id), f)

-----------------------------------------------------------------------------
(* Reservations.                                                            *)

\* insertCache: NextSequence is the id.
Insert(row) ==
    /\ seq < MaxId
    /\ seq' = seq + 1
    /\ rows' = [i \in DOMAIN rows \cup {seq + 1} |->
                    IF i = seq + 1 THEN row ELSE rows[i]]

NewRow(j) == [job |-> j, owner |-> IF ApiOf[j] = "v2" THEN j ELSE NoOwner,
              complete |-> FALSE,
              size |-> IF ApiOf[j] = "v2" THEN -1 ELSE DeclaredSize(j), age |-> 0]

\* The client learns its id, unless the answer is lost and it asks again.
Reserved(j, id) ==
    \/ /\ client' = [client EXCEPT ![j].phase = "up", ![j].id = id]
       /\ UNCHANGED mishaps
    \/ /\ mishaps < MaxMishaps
       /\ Mishap(TRUE)
       /\ UNCHANGED client

\* POST caches: the v1 API reserves without looking.
Reserve(j) ==
    /\ ApiOf[j] = "v1"
    /\ client[j].phase = "new"
    /\ Insert(NewRow(j))
    /\ Reserved(j, seq + 1)
    /\ UNCHANGED <<disk, url, thr, sweeping>>

\* CreateCacheEntry: not ok when the entry exists or another job's upload of
\* it is alive; the same reservation for a retry; else a new one.
V2CreateCacheEntry(j) ==
    LET existing == Exact(rows, j, TRUE)
        pending  == Exact(rows, j, FALSE)
        latest   == LatestOf(rows, pending, FALSE)
        alive    == pending # {} /\ rows[latest].age < StallTimeout
        skips    == client' = [client EXCEPT ![j].phase = "skipped"]
    IN  /\ ApiOf[j] = "v2"
        /\ client[j].phase = "new"
        /\ \/ /\ existing # {}
              /\ rows' = Touched(rows, LatestOf(rows, existing, TRUE))
              /\ skips
              /\ UNCHANGED <<seq, mishaps>>
           \/ /\ existing = {} /\ alive /\ rows[latest].owner # j
              /\ skips
              /\ UNCHANGED <<rows, seq, mishaps>>
           \/ /\ existing = {} /\ alive /\ rows[latest].owner = j
              /\ rows' = Touched(rows, latest)
              /\ Reserved(j, latest)
              /\ UNCHANGED seq
           \/ /\ existing = {} /\ ~alive
              /\ Insert(NewRow(j))
              /\ Reserved(j, seq + 1)
        /\ UNCHANGED <<disk, url, thr, sweeping>>

-----------------------------------------------------------------------------
(* Requests in progress.                                                    *)

Goes(t, pc) == thr' = [thr EXCEPT ![t].pc = pc]

\* The thread answers; a client that still waits takes note.
Answers(t, phaseOrPart) ==
    LET j == thr[t].job
    IN  /\ thr' = [thr EXCEPT ![t] = Idle]
        /\ client' = IF ~thr[t].live THEN client
                     ELSE IF phaseOrPart = "acked"
                          THEN [client EXCEPT ![j].acked = @ \cup {thr[t].part}]
                          ELSE [client EXCEPT ![j].phase = phaseOrPart]

\* A 4xx or "not ok" answer ends the save; a 5xx one is sent again.
Refuses(t) == Answers(t, "failed") /\ UNCHANGED mishaps
Fails(t) ==
    \/ Answers(t, "failed") /\ UNCHANGED mishaps
    \/ /\ mishaps < MaxMishaps
       /\ Mishap(TRUE)
       /\ thr' = [thr EXCEPT ![t] = Idle]
       /\ UNCHANGED client

\* A client stops waiting for an answer: its connection broke or timed out.
GiveUp(t) ==
    /\ thr[t].pc # "idle" /\ thr[t].live
    /\ mishaps < MaxMishaps
    /\ Mishap(TRUE)
    /\ thr' = [thr EXCEPT ![t].live = FALSE]
    /\ client' = [client EXCEPT ![thr[t].job].resent = @ \cup {thr[t].part}]
    /\ UNCHANGED <<rows, seq, disk, url, sweeping>>

\* Part 0 is the block list, sent once all blocks are acknowledged.
Sendable(j) ==
    LET parts == 1 .. PartsOf[j]
        next  == IF InBlocks(j) /\ parts \subseteq client[j].acked
                 THEN {0} ELSE parts
    IN  {p \in next \ client[j].acked :
            \A t \in Threads : ~(thr[t].live /\ thr[t].job = j /\ thr[t].part = p)}

Uploaded(j) ==
    (IF InBlocks(j) THEN {0} ELSE {}) \cup 1 .. PartsOf[j] \subseteq client[j].acked

Arrives(t, j, id, part, pc) ==
    thr' = [thr EXCEPT ![t] = [pc |-> pc, job |-> j, id |-> id, part |-> part,
                               left |-> {}, file |-> <<>>, live |-> TRUE]]

\* A request for a part is let in, or refused for good.
Admits(t, j, p, open) ==
    /\ thr[t].pc = "idle"
    /\ client[j].phase = "up"
    /\ p \in Sendable(j)
    /\ \/ open /\ Arrives(t, j, client[j].id, p, "room") /\ UNCHANGED client
       \/ /\ ~open
          /\ client' = [client EXCEPT ![j].phase = "failed"]
          /\ UNCHANGED thr
    /\ UNCHANGED <<seq, disk, url, sweeping, mishaps>>

\* PATCH caches/:id: an entry of the job's, not complete; touched afterwards.
Upload(t, j, p) ==
    LET id == client[j].id
    IN  /\ ApiOf[j] = "v1"
        /\ Admits(t, j, p, /\ id \in DOMAIN rows
                           /\ Owns(j, rows[id])
                           /\ ~rows[id].complete)
        /\ UNCHANGED rows

\* PUT blobs/:id: the signed URL stands for the job; touched at once.
V2UploadBlob(t, j, p) ==
    LET id == client[j].id
        open == id \in DOMAIN rows /\ ~rows[id].complete
    IN  /\ ApiOf[j] = "v2"
        /\ Admits(t, j, p, open)
        /\ rows' = IF open THEN Touched(rows, id) ELSE rows

UploadMakesRoom(t) ==
    /\ thr[t].pc = "room"
    /\ \E f \in Failures : MakeRoom(f)
    /\ Goes(t, IF thr[t].part = 0 THEN "order" ELSE "create")
    /\ UNCHANGED <<seq, url, untouched, sweeping, client>>

\* writeFile makes the directory and creates or truncates the part's file.
\* Another copy of the part that is under way writes on where it was, so that
\* the file may get its length before it gets its first bytes.
WriteCreate(t) ==
    LET i == thr[t].id
        n == thr[t].part
        put(files) == (files \ {n, -n}) \cup {-n}
    IN  /\ thr[t].pc = "create"
        /\ staged' = [staged EXCEPT ![i] =
                        [dir    |-> TRUE,
                         parts  |-> IF InBlocks(thr[t].job) THEN @.parts ELSE put(@.parts),
                         blocks |-> IF InBlocks(thr[t].job) THEN put(@.blocks) ELSE @.blocks,
                         listed |-> @.listed]]
        /\ stray' = stray \cup ({i} \ DOMAIN rows)
        /\ holes' = holes \cup {[id |-> i, job |-> thr[u].job, part |-> n] :
                                u \in {u \in Threads \ {t} : thr[u].pc = "copy" /\
                                         thr[u].id = i /\ thr[u].part = n}}
        /\ Goes(t, "copy")
        /\ UNCHANGED <<rows, seq, blob, half, untouched, url, sweeping, client, mishaps>>

\* The last byte arrives, in the file wherever it was renamed to meanwhile: the
\* file has the part's length now, whatever became of its start (`holes`).
WriteDone(t) ==
    LET i == thr[t].id
        n == thr[t].part
        v1 == ApiOf[thr[t].job] = "v1"
        fill(files) == {IF m = -n THEN n ELSE m : m \in files}
        fillHead(f) == IF f # <<>> /\ Head(f) = -n THEN <<n>> \o Tail(f) ELSE f
        answered == IF v1 THEN [thr EXCEPT ![t].pc = "touch"]
                    ELSE [thr EXCEPT ![t] = Idle]
    IN  /\ thr[t].pc = "copy"
        /\ staged' = [staged EXCEPT ![i] =
                        [dir |-> @.dir, parts |-> fill(@.parts),
                         blocks |-> fill(@.blocks), listed |-> @.listed]]
        /\ blob' = [blob EXCEPT ![i] = fillHead(@)]
        /\ thr' = [u \in Threads |->
                     IF thr[u].id = i THEN [answered[u] EXCEPT !.file = fillHead(@)]
                     ELSE answered[u]]
        /\ client' = IF v1 \/ ~thr[t].live THEN client
                     ELSE [client EXCEPT ![thr[t].job].acked = @ \cup {n}]
        /\ UNCHANGED <<rows, seq, history, url, sweeping, mishaps>>

\* The copy fails: whatever now has the part's name is removed.
WriteFails(t) ==
    LET i == thr[t].id
        n == thr[t].part
    IN  /\ thr[t].pc = "copy"
        /\ staged' = IF InBlocks(thr[t].job)
                     THEN [staged EXCEPT ![i].blocks = @ \ {n, -n}]
                     ELSE [staged EXCEPT ![i].parts = @ \ {n, -n}]
        /\ Fails(t)
        /\ UNCHANGED <<rows, seq, blob, url, sweeping, history>>

\* The v1 upload ends with touchCache, whose error is ignored.
UploadTouches(t) ==
    LET i == thr[t].id
    IN  /\ thr[t].pc = "touch"
        /\ rows' = IF i \in DOMAIN rows THEN Touched(rows, i) ELSE rows
        /\ Answers(t, "acked")
        /\ UNCHANGED <<seq, disk, url, sweeping, mishaps>>

\* OrderBlocks: a list already recorded is a retry's; else every block it
\* names is renamed into place, and one that was never uploaded is an error.
OrderBlocks(t) ==
    LET i == thr[t].id
        missing == {n \in 1 .. PartsOf[thr[t].job] : Named(staged[i].blocks, n) = {}}
    IN  /\ thr[t].pc = "order"
        /\ \/ /\ staged[i].listed
              /\ Answers(t, "acked")
              /\ UNCHANGED <<staged, mishaps>>
           \/ /\ ~staged[i].listed /\ missing = {}
              /\ staged' = [staged EXCEPT ![i] =
                              [dir |-> @.dir, parts |-> @.blocks,
                               blocks |-> {}, listed |-> TRUE]]
              /\ Answers(t, "acked")
              /\ UNCHANGED mishaps
           \/ /\ ~staged[i].listed /\ missing # {}
              /\ LET before == {b \in staged[i].blocks :
                                  \A m \in missing : b < m /\ -b < m}
                     other  == {p \in staged[i].parts : Named(before, p) = {}}
                 IN  staged' = [staged EXCEPT ![i] =
                                  [dir |-> @.dir, parts |-> other \cup before,
                                   blocks |-> @.blocks \ before, listed |-> @.listed]]
              /\ Fails(t)
        /\ UNCHANGED <<rows, seq, blob, url, sweeping, history>>

-----------------------------------------------------------------------------
(* Commits.  A thread in a commit has part -1.                              *)

\* The same request is sent again after the first answer was given up on.
MayCommit(j) ==
    /\ client[j].phase \in {"up", "commit"}
    /\ Uploaded(j)
    /\ \A t \in Threads : thr[t].job = j /\ thr[t].part = -1 =>
                              OverlapCommits /\ ~thr[t].live

\* POST caches/:id
Commit(t, j) ==
    LET id == client[j].id
        open == id \in DOMAIN rows /\ Owns(j, rows[id]) /\ ~rows[id].complete
    IN  /\ thr[t].pc = "idle"
        /\ ApiOf[j] = "v1"
        /\ MayCommit(j)
        /\ \/ /\ open
              /\ Arrives(t, j, id, -1, "list")
              /\ client' = [client EXCEPT ![j].phase = "commit"]
           \/ /\ ~open
              /\ client' = [client EXCEPT ![j].phase = "failed"]
              /\ UNCHANGED thr
        /\ UNCHANGED <<rows, seq, disk, url, sweeping, mishaps>>

\* The reservation a finalize commits: the latest one, if this job made it.
FinalizesOwn(j) ==
    {i \in Exact(rows, j, FALSE) :
        rows[i].owner = j /\ i = LatestOf(rows, Exact(rows, j, FALSE), FALSE)}

\* FinalizeCacheEntryUpload; an entry already committed is a retry's answer.
V2FinalizeCacheEntryUpload(t, j) ==
    LET own == FinalizesOwn(j)
        learns(phase) == client' = [client EXCEPT ![j].phase = phase]
    IN  /\ thr[t].pc = "idle"
        /\ ApiOf[j] = "v2"
        /\ MayCommit(j)
        /\ \/ \E i \in own : Arrives(t, j, i, -1, "list") /\ learns("commit")
           \/ /\ own = {} /\ UNCHANGED thr
              /\ learns(IF Exact(rows, j, TRUE) # {} THEN "saved" ELSE "failed")
        /\ UNCHANGED <<rows, seq, disk, url, sweeping, mishaps>>

\* The v1 route answers an error of commitCache with 500, the v2 one with
\* "not ok".
CommitFails(t) == IF ApiOf[thr[t].job] = "v1" THEN Fails(t) ELSE Refuses(t)

\* The error path of storage.Commit: the name and the staged parts go.
CommitUndone(t) ==
    /\ blob' = [blob EXCEPT ![thr[t].id] = <<>>]
    /\ staged' = [staged EXCEPT ![thr[t].id] = NoDir]
    /\ CommitFails(t)

CommitList(t) ==
    LET dir == staged[thr[t].id]
        names == {IF n > 0 THEN n ELSE -n : n \in dir.parts}
    IN  /\ thr[t].pc = "list"
        /\ \/ /\ dir.dir
              /\ thr' = [thr EXCEPT ![t].pc = "rename", ![t].left = names]
              /\ UNCHANGED <<client, mishaps>>
           \/ ~dir.dir /\ CommitFails(t)
        /\ UNCHANGED <<rows, seq, disk, url, sweeping>>

\* assemble takes the parts in the order of their names (os.ReadDir sorts):
\* it renames the first one to the entry's name and opens it.
CommitRename(t) ==
    LET i == thr[t].id
        first == FirstOf(staged[i].parts, thr[t].left)
    IN  /\ thr[t].pc = "rename"
        /\ \/ \E n \in first :
                /\ blob' = [blob EXCEPT ![i] = <<n>>]
                /\ staged' = [staged EXCEPT ![i].parts = @ \ {n}]
                /\ thr' = [thr EXCEPT ![t].pc = "append", ![t].file = <<n>>,
                                      ![t].left = @ \ {n, -n}]
                /\ UNCHANGED <<client, mishaps>>
           \/ first = {} /\ CommitUndone(t)
        /\ UNCHANGED <<rows, seq, history, url, sweeping>>

\* It copies each further part to the open file and removes the part.  The
\* entry's name shows the change if it still names that file.
CommitAppend(t) ==
    LET i == thr[t].id
        more == FirstOf(staged[i].parts, thr[t].left)
        sameFile == blob[i] # <<>> /\ Head(blob[i]) = Head(thr[t].file)
    IN  /\ thr[t].pc = "append" /\ thr[t].left # {}
        /\ \/ \E n \in more :
                /\ blob' = [blob EXCEPT ![i] = IF sameFile
                                               THEN Append(thr[t].file, n) ELSE @]
                /\ staged' = [staged EXCEPT ![i].parts = @ \ {n}]
                /\ thr' = [thr EXCEPT ![t].file = Append(@, n),
                                      ![t].left = @ \ {n, -n}]
                /\ UNCHANGED <<client, mishaps>>
           \/ more = {} /\ CommitUndone(t)
        /\ UNCHANGED <<rows, seq, history, url, sweeping>>

SizeRight(t) == DeclaredSize(thr[t].job) \in {-1, SizeOf(thr[t].file)}

\* The size is checked, and the staging directory goes either way.
CommitStat(t) ==
    /\ thr[t].pc = "append" /\ thr[t].left = {}
    /\ \/ /\ SizeRight(t)
          /\ staged' = [staged EXCEPT ![thr[t].id] = NoDir]
          /\ Goes(t, "save")
          /\ UNCHANGED <<blob, client, mishaps>>
       \/ ~SizeRight(t) /\ CommitUndone(t)
    /\ UNCHANGED <<rows, seq, history, url, sweeping>>

\* The handler's copy of the row, as commitCache saves it: complete, of the
\* measured size and used just now.
CommittedRow(t) ==
    [NewRow(thr[t].job) EXCEPT !.complete = TRUE, !.size = SizeOf(thr[t].file)]

\* A wrong guess: a late commit writes its row whatever happened meanwhile.
SavableAnyway(i) == TRUE

\* db.save refuses a row that a sweep removed meanwhile.
Savable(i) == i \in DOMAIN rows

CommitSave(t) ==
    LET i == thr[t].id
        saved == [k \in DOMAIN rows \cup {i} |->
                     IF k = i THEN CommittedRow(t) ELSE rows[k]]
        repo == RepoOf[thr[t].job]
    IN  /\ thr[t].pc = "save"
        /\ \/ /\ Savable(i)
              /\ \E f \in Failures :
                    DeleteCaches(saved, EvictedByCommit(saved, repo, f.id), f)
              /\ Answers(t, "saved")
           \/ /\ ~Savable(i)
              /\ CommitFails(t)
              /\ UNCHANGED store
        /\ UNCHANGED <<seq, url, untouched, sweeping>>

\* openDB times out before the save.
CommitLockTimeout(t) ==
    /\ thr[t].pc = "save"
    /\ mishaps < MaxMishaps
    /\ Mishap(TRUE)
    /\ Answers(t, IF ApiOf[thr[t].job] = "v1" THEN "commit" ELSE "failed")
    /\ UNCHANGED <<store, seq, url, sweeping>>

-----------------------------------------------------------------------------
(* Restores, sweeps and everything else.                                    *)

\* The touch of an entry that is found may fail.
UnwrittenTouch ==
    {f \in {[id |-> 0, at |-> "touch"]} : mishaps < MaxMishaps}

\* lookupCache: matches without a blob are deleted until one has a blob, or
\* until a deletion fails.  That one is touched, and the URL is handed out even
\* if the touch cannot be written.
LookupCache(j) ==
    \E f \in Failures \cup UnwrittenTouch :
        LET found   == Candidates(rows, j)
            present == {i \in found : blob[i] # <<>>}
            lost    == {i \in found \ present :
                           \A k \in present : Better(rows, j, i, k)}
            tried   == {i \in lost : f.id \in lost =>
                                        i = f.id \/ Better(rows, j, i, f.id)}
            hit     == {i \in present : /\ f.id \notin lost
                                        /\ \A k \in present \ {i} : Better(rows, j, i, k)}
            table   == [i \in DOMAIN rows |->
                          IF i \in hit /\ f.at # "touch" THEN Touched(rows, i)[i]
                          ELSE rows[i]]
        IN  /\ found # {}
            /\ f.at = "touch" => \E i \in hit : TouchNeeded(rows[i])
            /\ DeleteCaches(table, tried, f)
            /\ untouched' = IF f.at = "touch" THEN untouched \cup hit
                            ELSE untouched \ hit
            /\ url' = [i \in Ids |-> IF i \in hit THEN UrlTTL + 1 ELSE url[i]]
            /\ UNCHANGED <<seq, thr, sweeping, client>>

\* GET cache and GetCacheEntryDownloadURL look up and answer with a URL.
Find(j) == ApiOf[j] = "v1" /\ LookupCache(j)

V2GetCacheEntryDownloadURL(j) == ApiOf[j] = "v2" /\ LookupCache(j)

\* GET artifacts/:id with a signed URL that has not expired.
Get(i) ==
    /\ url[i] > 0
    /\ rows' = IF i \in DOMAIN rows THEN Touched(rows, i) ELSE rows
    /\ UNCHANGED <<seq, disk, url, thr, sweeping, client, mishaps>>

GcCache ==
    /\ sweeping = "idle"
    /\ \E f \in Failures : DeleteCaches(rows, EvictedBySweep(rows, f.id), f)
    /\ sweeping' = "room"
    /\ UNCHANGED <<seq, url, untouched, thr, client>>

GcMakesRoom ==
    /\ sweeping = "room"
    /\ \E f \in Failures : MakeRoom(f)
    /\ sweeping' = "idle"
    /\ UNCHANGED <<seq, url, untouched, thr, client>>

\* The server is killed and started again: files and rows stay.
Crash ==
    /\ mishaps < MaxMishaps
    /\ \E t \in Threads : thr[t].pc # "idle"
    /\ Mishap(TRUE)
    /\ thr' = [t \in Threads |-> Idle]
    /\ sweeping' = "idle"
    /\ UNCHANGED <<store, seq, url, client>>

Tick ==
    /\ rows' = [i \in DOMAIN rows |->
                  [rows[i] EXCEPT !.age = IF @ < MaxAge THEN @ + 1 ELSE @]]
    /\ url' = [i \in Ids |-> IF url[i] > 0 THEN url[i] - 1 ELSE 0]
    /\ UNCHANGED <<seq, disk, thr, sweeping, client, mishaps>>

Next ==
    \/ \E j \in Jobs : \/ Reserve(j) \/ V2CreateCacheEntry(j)
                       \/ Find(j) \/ V2GetCacheEntryDownloadURL(j)
    \/ \E t \in Threads, j \in Jobs :
          \/ \E p \in 0 .. PartsOf[j] : Upload(t, j, p) \/ V2UploadBlob(t, j, p)
          \/ Commit(t, j)
          \/ V2FinalizeCacheEntryUpload(t, j)
    \/ \E t \in Threads :
          \/ UploadMakesRoom(t) \/ WriteCreate(t) \/ WriteDone(t)
          \/ WriteFails(t) \/ UploadTouches(t) \/ OrderBlocks(t)
          \/ CommitList(t) \/ CommitRename(t) \/ CommitAppend(t)
          \/ CommitStat(t) \/ CommitSave(t) \/ CommitLockTimeout(t)
          \/ GiveUp(t)
    \/ \E i \in Ids : Get(i)
    \/ GcCache \/ GcMakesRoom \/ Crash \/ Tick

Spec == Init /\ [][Next]_vars

-----------------------------------------------------------------------------
(* Properties.                                                              *)

\* A committed entry whose size was declared has every part of the archive, in
\* order and at its full length, unless its deletion got half way: no lost,
\* cut, repeated or misplaced part is ever restored, whatever uploads were sent
\* twice, gave up half way or were cut short by a restart (storage.Commit,
\* OrderBlocks).  A part has zeros in place of bytes only if its client gave up
\* on it and sent it again while the first copy was being written: one copy
\* then truncates the file under the other's hands (writeFile), and the size
\* check cannot tell.
CommittedIsWhole ==
    \A i \in DOMAIN rows :
        rows[i].complete /\ (rows[i].owner # NoOwner \/ rows[i].job \in SizedJobs)
            => \/ /\ blob[i] = Whole(rows[i].job)
                  /\ \A h \in holes : h.id = i => h.part \in client[h.job].resent
               \/ blob[i] = <<>> /\ i \in half

\* For as long as a signed download URL is usable, the entry it names is in
\* the table with its bytes: no eviction takes it away (inUseGrace, "so an
\* entry outlives every signed URL still usable for it").  An entry that could
\* not be marked as used when its URL was handed out is excepted: `touch` logs
\* the failure and the answer goes out.
UrlServes ==
    \A i \in Ids \ untouched : url[i] > 0 =>
        i \in DOMAIN rows /\ rows[i].complete /\ blob[i] # <<>>

\* Bytes under an entry's name belong to an entry of the table or to a commit
\* still in progress: none is left where no sweep would find it, except when
\* an upload admitted before its entry was deleted wrote after the deletion, or
\* a commit's rename came between the deletion of the blob and of the parts.
NoOrphanBlob ==
    \A i \in Ids : blob[i] # <<>> =>
        i \in DOMAIN rows \cup stray
            \/ \E t \in Threads : thr[t].id = i /\ thr[t].part = -1

\* An entry that was deleted never comes back (db.save, "so a late commit
\* cannot resurrect it").
NoResurrection ==
    [][\A i \in 1 .. seq : i \notin DOMAIN rows => i \notin DOMAIN rows']_vars

\* Until a job asks for the commit, every part the server acknowledged lies
\* whole in the entry's staging directory, as long as the entry is kept: no
\* other job's finalize, upload or eviction takes it.  A part that was given
\* up on and sent again is excepted: when the first copy fails late it removes
\* the second one's file.
AckedIsStaged ==
    \A j \in Jobs :
        LET id == client[j].id
        IN  client[j].phase = "up" /\ id \in DOMAIN rows \ half =>
                client[j].acked \ (client[j].resent \cup {0})
                    \subseteq staged[id].parts \cup staged[id].blocks

\* When a client is told that its save succeeded there is a complete entry
\* under its key; when a commit has just saved it, it is that commit's own
\* entry, spared by the eviction that ends the commit ("so it cannot be its
\* own eviction victim").
SavedIsStored ==
    [][\A j \in Jobs : client[j].phase # "saved" /\ client'[j].phase = "saved" =>
          \E i \in DOMAIN rows' : /\ rows'[i].complete
                                  /\ Owns(j, rows'[i])
                                  /\ KeyOf[rows'[i].job] = KeyOf[j]
                                  /\ blob'[i] # <<>> \/ i \in half'
                                  /\ \A t \in Threads : thr[t].pc = "save" =>
                                        thr'[t] = thr[t] \/ i = thr[t].id]_vars

\* What is stored is whole and reachable, whatever uploads, commits, evictions,
\* restores and restarts come in between.
StoredIsSound == CommittedIsWhole /\ UrlServes /\ NoOrphanBlob /\ AckedIsStaged

\* No deleted entry comes back and no save is announced that is not there.
SavesAreSound == NoResurrection /\ SavedIsStored

==============================================================================
