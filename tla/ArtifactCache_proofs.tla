------------------------- MODULE ArtifactCache_proofs -------------------------
(***************************************************************************)
(* What the eviction passes never delete, for every table and every limit, *)
(* and what the cache server keeps under all interleavings of its requests *)
(* with them, for every set of jobs, threads and parts and every number of *)
(* failures.                                                               *)
(***************************************************************************)
EXTENDS ArtifactCache, SequenceTheorems, FiniteSetTheorems, TLAPS

\* A table of entries: every age is a number.
Table(rs) == \A i \in DOMAIN rs : rs[i].age \in Nat

\* No entry of `ids` that is complete is in use.
SparesInUse(rs, ids) ==
    \A i \in ids : i \in DOMAIN rs /\ (rs[i].complete => ~InUse(rs[i]))

-----------------------------------------------------------------------------

\* Removing entries from a table leaves the others as they are.
LEMMA WithoutKeeps ==
    ASSUME NEW rs, NEW ids, Table(rs)
    PROVE  /\ Table(Without(rs, ids))
           /\ DOMAIN Without(rs, ids) = DOMAIN rs \ ids
           /\ \A i \in DOMAIN Without(rs, ids) : Without(rs, ids)[i] = rs[i]
BY DEF Without, Restrict, Table

\* What a pass spares in what another pass left, it spares in the table.
LEMMA SparesAfter ==
    ASSUME NEW rs, NEW gone, NEW ids, Table(rs),
           SparesInUse(Without(rs, gone), ids)
    PROVE  SparesInUse(rs, ids)
<1> DEFINE left == Without(rs, gone)
<1>1. /\ DOMAIN left = DOMAIN rs \ gone
      /\ \A i \in DOMAIN left : left[i] = rs[i]
  BY WithoutKeeps
<1>2. \A i \in ids : i \in DOMAIN left /\ (left[i].complete => ~InUse(left[i]))
  BY DEF SparesInUse
<1> HIDE DEF left
<1> QED
  BY <1>1, <1>2 DEF SparesInUse

\* Two passes that spare what is in use do so together.
LEMMA SparesUnion ==
    ASSUME NEW rs, NEW a, NEW b, SparesInUse(rs, a), SparesInUse(rs, b)
    PROVE  SparesInUse(rs, a \cup b)
BY DEF SparesInUse

\* evictTo passes over every entry in use.
LEMMA EvictToSpares ==
    ASSUME NEW rs, NEW ids \in SUBSET DOMAIN rs, NEW limit, NEW bad
    PROVE  SparesInUse(rs, EvictTo(rs, ids, limit, bad))
BY DEF EvictTo, SparesInUse

\* The limit of one repository evicts no entry in use.
LEMMA EvictRepoSpares ==
    ASSUME NEW rs, NEW repo, NEW bad
    PROVE  SparesInUse(rs, EvictRepo(rs, repo, bad))
<1> DEFINE ids == {i \in Completed(rs) : RepoOf[rs[i].job] = repo}
<1>1. ids \in SUBSET DOMAIN rs
  BY DEF Completed
<1>2. SparesInUse(rs, EvictTo(rs, ids, RepoSizeLimit, bad))
  BY <1>1, EvictToSpares
<1> QED
  BY <1>2 DEF EvictRepo, SparesInUse

\* Nor does the limit of the whole store.
LEMMA EvictTotalSpares ==
    ASSUME NEW rs, NEW bad
    PROVE  SparesInUse(rs, EvictTotal(rs, bad))
<1>1. Completed(rs) \in SUBSET DOMAIN rs
  BY DEF Completed
<1>2. SparesInUse(rs, EvictTo(rs, Completed(rs), SizeLimit, bad))
  BY <1>1, EvictToSpares
<1> QED
  BY <1>2 DEF EvictTotal, SparesInUse

\* A retention shorter than the grace does not outrun it.
LEMMA AgePassesSpare ==
    ASSUME NEW rs, Table(rs)
    PROVE  /\ SparesInUse(rs, Stalled(rs))
           /\ SparesInUse(rs, Expired(rs))
           /\ SparesInUse(rs, Superseded(rs))
<1>1. SparesInUse(rs, Stalled(rs))
  BY DEF Stalled, SparesInUse
<1>2. SparesInUse(rs, Expired(rs))
  BY TimesAssumption DEF Expired, SparesInUse, InUse, InUseGrace, Table
<1>3. SparesInUse(rs, Superseded(rs))
  BY DEF Superseded, SparesInUse, Completed
<1> QED
  BY <1>1, <1>2, <1>3

-----------------------------------------------------------------------------

\* Whatever the limits, the retention and the entry whose deletion fails, the
\* passes that end a commit delete no entry that is in use (commitCache).
THEOREM CommitSparesInUse ==
    ASSUME NEW rs, NEW repo, NEW bad, Table(rs)
    PROVE  SparesInUse(rs, EvictedByCommit(rs, repo, bad))
<1> DEFINE ofRepo == EvictRepo(rs, repo, bad)
           left   == Without(rs, ofRepo \ {bad})
<1>1. SparesInUse(rs, ofRepo)
  BY EvictRepoSpares
<1>2. SparesInUse(rs, EvictTotal(left, bad))
  BY EvictTotalSpares, SparesAfter
<1> QED
  BY <1>1, <1>2, SparesUnion DEF EvictedByCommit

\* And so do the passes of a sweep, each over what the last one left
\* (gcCache): of the complete entries it deletes only ones out of use.
THEOREM SweepSparesInUse ==
    ASSUME NEW rs, NEW bad, Table(rs)
    PROVE  SparesInUse(rs, EvictedBySweep(rs, bad))
<1> DEFINE after(t, ids) == Without(t, ids \ {bad})
           repos    == {RepoOf[j] : j \in Jobs}
           stalled  == Stalled(rs)
           rs1      == after(rs, stalled)
           expired  == Expired(rs1)
           rs2      == after(rs1, expired)
           replaced == Superseded(rs2)
           rs3      == after(rs2, replaced)
           big      == UNION {EvictRepo(rs3, r, bad) : r \in repos}
           total    == EvictTotal(after(rs3, big), bad)
<1>1. Table(rs1) /\ Table(rs2) /\ Table(rs3)
  <2>1. Table(rs1)
    BY WithoutKeeps
  <2>2. Table(rs2)
    BY <2>1, WithoutKeeps
  <2> QED
    BY <2>1, <2>2, WithoutKeeps
<1>2. SparesInUse(rs, stalled)
  BY AgePassesSpare
<1>3. SparesInUse(rs, expired)
  <2>1. SparesInUse(rs1, expired)
    BY <1>1, AgePassesSpare
  <2> QED
    BY <2>1, SparesAfter
<1>4. SparesInUse(rs, replaced)
  <2>1. SparesInUse(rs2, replaced)
    BY <1>1, AgePassesSpare
  <2>2. SparesInUse(rs1, replaced)
    BY <1>1, <2>1, SparesAfter
  <2> QED
    BY <2>2, SparesAfter
<1>5. SparesInUse(rs, big)
  <2>1. \A r \in repos : SparesInUse(rs3, EvictRepo(rs3, r, bad))
    BY EvictRepoSpares
  <2>2. SparesInUse(rs3, big)
    BY <2>1 DEF SparesInUse
  <2>3. SparesInUse(rs2, big)
    BY <1>1, <2>2, SparesAfter
  <2>4. SparesInUse(rs1, big)
    BY <1>1, <2>3, SparesAfter
  <2> QED
    BY <2>4, SparesAfter
<1>6. SparesInUse(rs, total)
  <2>1. SparesInUse(after(rs3, big), total)
    BY EvictTotalSpares
  <2>2. SparesInUse(rs3, total)
    BY <1>1, <2>1, SparesAfter
  <2>3. SparesInUse(rs2, total)
    BY <1>1, <2>2, SparesAfter
  <2>4. SparesInUse(rs1, total)
    BY <1>1, <2>3, SparesAfter
  <2> QED
    BY <2>4, SparesAfter
<1>7. EvictedBySweep(rs, bad) = stalled \cup expired \cup replaced \cup big \cup total
  BY DEF EvictedBySweep
<1> HIDE DEF stalled, expired, replaced, big, total
<1> QED
  BY <1>2, <1>3, <1>4, <1>5, <1>6, <1>7 DEF SparesInUse

\* An entry that a lookup found, touched if that was needed, stays in use for
\* as many ticks as the URL it hands out is usable (touchNeeded, inUseGrace).
THEOREM UrlWithinGrace ==
    ASSUME NEW rs, NEW i \in DOMAIN rs, Table(rs), rs[i].complete,
           rs[i] \in [job : Jobs, owner : STRING, complete : BOOLEAN,
                      size : Int, age : Nat],
           NEW ticks \in 0 .. UrlTTL
    PROVE  InUse([Touched(rs, i)[i] EXCEPT !.age = @ + ticks])
<1>1. Touched(rs, i)[i].age \in Nat /\ Touched(rs, i)[i].age < TouchStale
  BY TimesAssumption DEF Touched, TouchNeeded, Table
<1>2. Touched(rs, i)[i] \in [job : Jobs, owner : STRING, complete : BOOLEAN,
                             size : Int, age : Nat]
  BY DEF Touched
<1> QED
  BY <1>1, <1>2, TimesAssumption DEF InUse, InUseGrace

-----------------------------------------------------------------------------
(* Types.                                                                   *)

Row == [job : Jobs, owner : Jobs \cup {NoOwner}, complete : BOOLEAN,
        size : Int, age : Nat]

Dir == [dir : BOOLEAN, parts : SUBSET Int, blocks : SUBSET Int, listed : BOOLEAN]

UploadPcs == {"room", "create", "copy", "touch", "order"}
CommitPcs == {"list", "rename", "append", "save"}

Thread == [pc : {"idle"} \cup UploadPcs \cup CommitPcs, job : Jobs, id : Nat,
           part : Int, left : SUBSET Int, file : Seq(Int), live : BOOLEAN]

Phases == {"new", "up", "commit", "saved", "failed", "skipped"}

Client == [phase : Phases, id : Nat, acked : SUBSET Int, resent : SUBSET Int]

TypeOK ==
    /\ seq \in 0 .. MaxId
    /\ DOMAIN rows \subseteq 1 .. seq
    /\ rows \in [DOMAIN rows -> Row]
    /\ blob \in [Ids -> Seq(Int)]
    /\ staged \in [Ids -> Dir]
    /\ url \in [Ids -> Nat]
    /\ thr \in [Threads -> Thread]
    /\ client \in [Jobs -> Client]
    /\ half \subseteq DOMAIN rows
    /\ stray \subseteq 1 .. seq

-----------------------------------------------------------------------------
(* Who works on which entry.                                                *)

\* A client that has a reservation.
Reserving(j) == client[j].phase \notin {"new", "skipped"}

\* What a request in progress carries.
ThreadsOK ==
    \A t \in Threads :
        /\ thr[t].pc = "idle" => thr[t].id = 0 /\ thr[t].part = 0 /\ ~thr[t].live
        /\ thr[t].pc # "idle" => thr[t].id \in 1 .. seq /\ Reserving(thr[t].job)
        /\ thr[t].pc \in CommitPcs <=> thr[t].part = -1
        /\ thr[t].pc \in UploadPcs => thr[t].part \in 0 .. PartsOf[thr[t].job]
        /\ thr[t].pc \in {"create", "copy", "touch"} => thr[t].part # 0
        /\ thr[t].pc = "order" => thr[t].part = 0

ClientsOK ==
    \A j \in Jobs :
        /\ ~Reserving(j) => client[j].acked = {}
        /\ Reserving(j) => client[j].id \in 1 .. seq
        /\ client[j].acked \subseteq 0 .. PartsOf[j]

\* Job j has, or had, something to do with entry i.
Holds(i, j) ==
    \/ i \in DOMAIN rows /\ rows[i].job = j
    \/ \E t \in Threads : thr[t].pc # "idle" /\ thr[t].id = i /\ thr[t].job = j
    \/ Reserving(j) /\ client[j].id = i

\* The names of the files job j uploads.
FilesOf(j) == {n \in Int : n \in 1 .. PartsOf[j] \/ -n \in 1 .. PartsOf[j]}

\* An entry is one job's only, and so are the files staged for it.
EntriesOK ==
    /\ \A i \in DOMAIN rows :
          rows[i].owner = IF ApiOf[rows[i].job] = "v2" THEN rows[i].job ELSE NoOwner
    /\ \A i \in Ids, j, k \in Jobs : Holds(i, j) /\ Holds(i, k) => j = k
    /\ \A i \in Ids, j \in Jobs :
          Holds(i, j) => staged[i].parts \cup staged[i].blocks \subseteq FilesOf(j)

\* An entry that is not in the table left nothing on disk, stray writes aside.
TracesOK ==
    \A i \in Ids \ (DOMAIN rows \cup stray) :
        blob[i] = <<>> /\ staged[i].parts = {} /\ staged[i].blocks = {}

-----------------------------------------------------------------------------
(* Uploads.                                                                 *)

StagedFiles(i) == staged[i].parts \cup staged[i].blocks

\* Part p of entry i lies whole in the staging directory.
IsStaged(i, p) == p \in StagedFiles(i) /\ -p \notin StagedFiles(i)

\* The parts j still counts on: its entry is kept and not yet committed.
Counts(j, p) ==
    /\ client[j].phase = "up"
    /\ client[j].id \in DOMAIN rows \ half
    /\ p \notin client[j].resent \cup {0}

RequestsOK ==
    /\ \A t \in Threads :
          /\ thr[t].pc \in UploadPcs => thr[t].id = client[thr[t].job].id
          /\ thr[t].pc \in CommitPcs => client[thr[t].job].phase # "up"
          /\ thr[t].pc # "idle" /\ ~thr[t].live =>
                thr[t].part \in client[thr[t].job].resent
          /\ thr[t].pc \in UploadPcs /\ thr[t].live =>
                thr[t].part \notin client[thr[t].job].acked
    /\ \A t, u \in Threads :
          /\ thr[t].live /\ thr[u].live
          /\ thr[t].job = thr[u].job /\ thr[t].part = thr[u].part
          /\ thr[t].pc \in UploadPcs
          => t = u

StagingOK ==
    /\ \A j \in Jobs : \A p \in client[j].acked :
          Counts(j, p) => IsStaged(client[j].id, p)
    /\ \A t \in Threads :
          thr[t].live /\ Counts(thr[t].job, thr[t].part) =>
             /\ thr[t].pc = "copy" =>
                   Named(StagedFiles(thr[t].id), thr[t].part) # {}
             /\ thr[t].pc = "touch" => IsStaged(thr[t].id, thr[t].part)

-----------------------------------------------------------------------------
(* Commits.                                                                 *)

Size(n) == IF n > 0 THEN n ELSE -n

\* One commit of a job at a time, and never of an entry that is complete.
CommitsOK ==
    /\ \A t, u \in Threads :
          thr[t].part = -1 /\ thr[u].part = -1 /\ thr[t].job = thr[u].job => t = u
    /\ \A t \in Threads :
          thr[t].part = -1 /\ thr[t].id \in DOMAIN rows => ~rows[thr[t].id].complete

\* The parts in the file of a commit come in the order of their names, and
\* each is at least the k-th of them.
InOrder(file, parts) ==
    /\ file # <<>>
    /\ Size(file[Len(file)]) <= parts
    /\ \A k \in 1 .. Len(file) :
          /\ k <= Size(file[k])
          /\ Size(file[k]) + (Len(file) - k) <= Size(file[Len(file)])

\* The names left to take come after those of the parts in the file, which
\* is the entry's own unless the entry was deleted.
FileOK(t) ==
    /\ thr[t].pc \in CommitPcs => thr[t].left \subseteq 1 .. PartsOf[thr[t].job]
    /\ thr[t].pc \in {"append", "save"} =>
          /\ InOrder(thr[t].file, PartsOf[thr[t].job])
          /\ \A n \in thr[t].left : n > Size(thr[t].file[Len(thr[t].file)])
          /\ \/ blob[thr[t].id] = thr[t].file
             \/ blob[thr[t].id] = <<>> /\ thr[t].id \notin DOMAIN rows \ half
    /\ thr[t].pc = "save" /\ DeclaredSize(thr[t].job) # -1 =>
          thr[t].file = Whole(thr[t].job)

FilesOK == \A t \in Threads : FileOK(t)

\* Complete entries keep their bytes, and those a URL names are in use.
BlobsOK ==
    /\ \A i \in DOMAIN rows : rows[i].complete =>
          \/ /\ blob[i] # <<>>
             /\ DeclaredSize(rows[i].job) # -1 => blob[i] = Whole(rows[i].job)
          \/ blob[i] = <<>> /\ i \in half
    /\ \A i \in Ids \ untouched : url[i] > 0 =>
          /\ i \in DOMAIN rows /\ rows[i].complete /\ blob[i] # <<>>
          /\ rows[i].age + url[i] <= InUseGrace

-----------------------------------------------------------------------------
(* The operators of the model.                                              *)

\* A set of numbers from 1 to n that is not empty has a least and a greatest
\* member.
LEMMA LeastAndGreatest ==
    ASSUME NEW n \in Nat, NEW S \in SUBSET (0 .. n), S # {}
    PROVE  /\ \E a \in S : \A b \in S : a <= b
           /\ \E a \in S : \A b \in S : b <= a
<1>1. \A T \in SUBSET Nat : T # {} => \E a \in T : \A b \in T : a <= b
  <2> SUFFICES ASSUME NEW T \in SUBSET Nat, T # {}
               PROVE  \E a \in T : \A b \in T : a <= b
    OBVIOUS
  <2>1. \E a \in T : \A b \in T : ~(<<b, a>> \in OpToRel(<, Nat))
    BY WFMin, NatLessThanWellFounded, Zenon
  <2>2. PICK a \in T : \A b \in T : ~(<<b, a>> \in OpToRel(<, Nat))
    BY <2>1
  <2>3. \A b \in T : ~(b < a)
    BY <2>2 DEF OpToRel
  <2> QED
    BY <2>3
<1>2. \E a \in S : \A b \in S : a <= b
  BY <1>1
<1> DEFINE T == {n - a : a \in S}
<1>3. T \in SUBSET Nat /\ T # {}
  <2>1. \A a \in S : n - a \in Nat
    OBVIOUS
  <2> QED
    BY <2>1
<1>4. PICK c \in T : \A d \in T : c <= d
  BY <1>1, <1>3
<1>5. PICK a \in S : c = n - a
  OBVIOUS
<1>6. \A b \in S : b <= a
  <2> TAKE b \in S
  <2>1. n - b \in T
    OBVIOUS
  <2>2. n - a <= n - b
    BY <2>1, <1>4, <1>5
  <2> QED
    BY <2>2
<1> QED
  BY <1>2, <1>6

\* findExactCache finds one of the entries it chooses from.
LEMMA LatestIsOne ==
    ASSUME NEW n \in Nat, NEW rs, NEW ids \in SUBSET (1 .. n), ids # {},
           \A i \in ids : rs[i].age \in Nat,
           NEW complete \in BOOLEAN
    PROVE  LatestOf(rs, ids, complete) \in ids
<1>1. \E a \in ids : \A b \in ids : b <= a
  <2>1. ids \in SUBSET (0 .. n)
    OBVIOUS
  <2> QED
    BY <2>1, LeastAndGreatest
<1>2. CASE complete
  <2>1. PICK a \in ids : \A b \in ids : b <= a
    BY <1>1
  <2>2. \A b \in ids \ {a} : a > b
    BY <2>1
  <2> QED
    BY <1>2, <2>2 DEF LatestOf
<1>3. CASE ~complete
  <2> DEFINE ages == {rs[i].age : i \in ids}
  <2>1. ages \in SUBSET Nat /\ ages # {}
    OBVIOUS
  <2>2. PICK least \in ages : \A b \in ages : ~(<<b, least>> \in OpToRel(<, Nat))
    BY <2>1, WFMin, NatLessThanWellFounded, Zenon
  <2>3. \A i \in ids : least <= rs[i].age
    <3> TAKE i \in ids
    <3>1. rs[i].age \in ages /\ rs[i].age \in Nat /\ least \in Nat
      BY <2>1
    <3>2. ~(<<rs[i].age, least>> \in OpToRel(<, Nat))
      BY <3>1, <2>2
    <3> QED
      BY <3>1, <3>2 DEF OpToRel
  <2> DEFINE young == {i \in ids : rs[i].age = least}
  <2>4. young \in SUBSET (0 .. n) /\ young # {}
    <3>1. PICK i \in ids : rs[i].age = least
      BY <2>2
    <3>2. i \in young
      BY <3>1
    <3>3. \A k \in young : k \in 0 .. n
      <4>1. \A k \in 1 .. n : k \in 0 .. n
        OBVIOUS
      <4>2. \A k \in young : k \in 1 .. n
        OBVIOUS
      <4> QED
        BY <4>1, <4>2
    <3>4. young # {}
      BY <3>2
    <3> HIDE DEF young
    <3>5. young \in SUBSET (0 .. n)
      BY <3>3
    <3> QED
      BY <3>4, <3>5
  <2>5. PICK a \in young : \A b \in young : b <= a
    BY <2>4, LeastAndGreatest
  <2>6. \A b \in ids \ {a} :
           rs[a].age < rs[b].age \/ (rs[a].age = rs[b].age /\ a > b)
    BY <2>3, <2>5
  <2> QED
    BY <1>3, <2>5, <2>6 DEF LatestOf
<1> QED
  BY <1>2, <1>3

\* Two tables with the same entries, except for when they were used.
SameEntries(rs, ss) ==
    /\ DOMAIN ss = DOMAIN rs
    /\ ss \in [DOMAIN ss -> Row]
    /\ \A i \in DOMAIN rs : /\ ss[i].job = rs[i].job
                            /\ ss[i].owner = rs[i].owner
                            /\ ss[i].complete = rs[i].complete

\* touchCache changes nothing but the time of use, and makes it no older.
LEMMA TouchedKeeps ==
    ASSUME NEW rs, rs \in [DOMAIN rs -> Row], NEW id \in DOMAIN rs
    PROVE  /\ SameEntries(rs, Touched(rs, id))
           /\ \A i \in DOMAIN rs : Touched(rs, id)[i].age <= rs[i].age
           /\ rs[id].complete => Touched(rs, id)[id].age < TouchStale
BY TimesAssumption DEF Touched, TouchNeeded, SameEntries, Row

\* A table is a table for the eviction passes too.
LEMMA RowsAreTable ==
    ASSUME NEW rs, rs \in [DOMAIN rs -> Row]
    PROVE  Table(rs)
BY DEF Table, Row

\* What a deletion leaves of entry i: no bytes and no row, or it got half way;
\* the bytes that a commit renamed to the entry's name meanwhile are missed.
Removed(i) ==
    /\ blob'[i] = <<>> \/ (blob'[i] = blob[i] /\ i \in stray')
    /\ staged'[i] = NoDir \/ (staged'[i] = staged[i] /\ i \in DOMAIN rows')
    /\ i \in DOMAIN rows' => i \in half'

\* What deleting some of the entries of `tried` from the table `rs` leaves:
\* an entry is as it was, or its bytes are gone, and then so is its row or
\* the deletion got half way.
Deletes(rs, tried) ==
    /\ rows' \in [DOMAIN rows' -> Row]
    /\ DOMAIN rows' \subseteq DOMAIN rs
    /\ \A i \in DOMAIN rows' : rows'[i] = rs[i]
    /\ blob' \in [Ids -> Seq(Int)]
    /\ staged' \in [Ids -> Dir]
    /\ half' \subseteq DOMAIN rows'
    /\ half \cap DOMAIN rows' \subseteq half'
    /\ stray \subseteq stray' /\ stray' \subseteq 1 .. seq
    /\ \A i \in Ids :
          \/ /\ blob'[i] = blob[i] /\ staged'[i] = staged[i]
             /\ i \in DOMAIN rs => i \in DOMAIN rows'
          \/ i \in tried /\ Removed(i)

\* deleteCache, one entry's failure included.
LEMMA DeleteCachesDeletes ==
    ASSUME TypeOK, NEW rs, rs \in [DOMAIN rs -> Row], NEW tried, NEW f,
           DeleteCaches(rs, tried, f),
           \A i \in tried : i \in DOMAIN rows /\ i \in DOMAIN rs
    PROVE  Deletes(rs, tried)
<1> DEFINE gone    == tried \ (IF f.at = "blob" THEN {f.id} ELSE {})
           cleared == gone \ (IF f.at = "parts" THEN {f.id} ELSE {})
<1>0. PICK missed \in SUBSET {i \in gone : Renamed(i)} :
         /\ blob' = [i \in Ids |-> IF i \in gone \ missed THEN <<>> ELSE blob[i]]
         /\ stray' = stray \cup missed
  BY DEF DeleteCaches
<1>1. /\ rows' = Without(rs, RowsDeleted(tried, f))
      /\ staged' = [i \in Ids |-> IF i \in cleared THEN NoDir ELSE staged[i]]
      /\ half' = (half \cup (gone \cap {f.id})) \cap DOMAIN rows'
  BY DEF DeleteCaches
<1>2. /\ DOMAIN rows' = DOMAIN rs \ (tried \ {f.id})
      /\ \A i \in DOMAIN rows' : rows'[i] = rs[i]
      /\ rows' \in [DOMAIN rows' -> Row]
  BY <1>1 DEF Without, Restrict, RowsDeleted
<1>3. blob' \in [Ids -> Seq(Int)] /\ staged' \in [Ids -> Dir]
  <2>1. NoDir \in Dir
    BY DEF NoDir, Dir
  <2>2. <<>> \in Seq(Int)
    OBVIOUS
  <2> QED
    BY <2>1, <2>2, <1>0, <1>1 DEF TypeOK
<1>4. ASSUME NEW i \in Ids
      PROVE  \/ /\ blob'[i] = blob[i] /\ staged'[i] = staged[i]
                /\ i \in DOMAIN rs => i \in DOMAIN rows'
             \/ i \in tried /\ Removed(i)
  <2>1. CASE i \in gone
    <3>1. blob'[i] = <<>> \/ (blob'[i] = blob[i] /\ i \in stray')
      <4>1. CASE i \in missed
        BY <1>0, <4>1
      <4>2. CASE i \notin missed
        BY <1>0, <2>1, <4>2
      <4> QED
        BY <4>1, <4>2
    <3>2. i \in DOMAIN rows' => i = f.id /\ i \in half'
      BY <2>1, <1>1, <1>2
    <3>3. staged'[i] = NoDir \/ (staged'[i] = staged[i] /\ i = f.id)
      BY <2>1, <1>1
    <3>4. CASE staged'[i] = NoDir
      BY <2>1, <3>1, <3>2, <3>4 DEF Removed
    <3>5. CASE staged'[i] = staged[i] /\ i = f.id /\ i \in DOMAIN rows'
      BY <2>1, <3>1, <3>2, <3>5 DEF Removed
    <3>6. i = f.id => i \in DOMAIN rows'
      BY <2>1, <1>2
    <3> QED
      BY <3>3, <3>4, <3>5, <3>6
  <2>2. CASE i \notin gone
    BY <2>2, <1>0, <1>1, <1>2
  <2> QED
    BY <2>1, <2>2
<1>5. stray \subseteq stray' /\ stray' \subseteq 1 .. seq
  BY <1>0 DEF TypeOK
<1> QED
  BY <1>1, <1>2, <1>3, <1>4, <1>5 DEF Deletes

-----------------------------------------------------------------------------
(* What a step does to the requests and to their clients.                   *)

\* No thread moves but t.
OnlyThread(t) ==
    /\ thr' \in [Threads -> Thread]
    /\ \A u \in Threads \ {t} : thr'[u] = thr[u]

\* Thread t is done with its request.
Rests(t) == OnlyThread(t) /\ thr'[t] = Idle

\* Thread t goes on with its request, at pc.
GoesOn(t, pc) ==
    /\ OnlyThread(t)
    /\ thr'[t].pc = pc
    /\ thr'[t].job = thr[t].job
    /\ thr'[t].id = thr[t].id
    /\ thr'[t].part = thr[t].part
    /\ thr'[t].live = thr[t].live

\* No client moves but j, which keeps its entry.
Hears(j, phase, acked) ==
    /\ client' \in [Jobs -> Client]
    /\ \A k \in Jobs \ {j} : client'[k] = client[k]
    /\ client'[j].phase = phase
    /\ client'[j].id = client[j].id
    /\ client'[j].acked = acked
    /\ client'[j].resent = client[j].resent

Moves == {"idle"} \cup UploadPcs \cup CommitPcs

\* An idle thread has the type of a thread.
LEMMA IdleIsThread == Idle \in Thread /\ Idle.pc = "idle" /\ Idle.id = 0
                      /\ Idle.part = 0 /\ Idle.live = FALSE
<1>1. (CHOOSE j \in Jobs : TRUE) \in Jobs
  BY JobsAssumption
<1>2. <<>> \in Seq(Int)
  OBVIOUS
<1> QED
  BY <1>1, <1>2 DEF Idle, Thread

\* A thread that only changes its place keeps its request.
LEMMA GoesKeeps ==
    ASSUME TypeOK, NEW t \in Threads, NEW pc \in Moves, Goes(t, pc)
    PROVE  /\ GoesOn(t, pc)
           /\ thr'[t].left = thr[t].left
           /\ thr'[t].file = thr[t].file
<1>1. thr \in [Threads -> Thread]
  BY DEF TypeOK
<1>2. thr' = [thr EXCEPT ![t].pc = pc]
  BY DEF Goes
<1>3. [thr[t] EXCEPT !.pc = pc] \in Thread
  BY <1>1 DEF Thread, Moves
<1> QED
  BY <1>1, <1>2, <1>3 DEF GoesOn, OnlyThread, Thread

\* A request arrives at an idle thread.
LEMMA ArrivesTakes ==
    ASSUME TypeOK, NEW t \in Threads, NEW j \in Jobs, NEW id \in Nat,
           NEW part \in Int, NEW pc \in Moves, Arrives(t, j, id, part, pc)
    PROVE  /\ OnlyThread(t)
           /\ thr'[t] = [pc |-> pc, job |-> j, id |-> id, part |-> part,
                         left |-> {}, file |-> <<>>, live |-> TRUE]
<1> DEFINE v == [pc |-> pc, job |-> j, id |-> id, part |-> part,
                 left |-> {}, file |-> <<>>, live |-> TRUE]
<1>1. thr \in [Threads -> Thread]
  BY DEF TypeOK
<1>2. <<>> \in Seq(Int)
  OBVIOUS
<1>3. v \in Thread
  BY <1>2 DEF Thread, Moves
<1>4. thr' = [thr EXCEPT ![t] = v]
  BY DEF Arrives
<1> HIDE DEF v
<1>5. thr' \in [Threads -> Thread] /\ thr'[t] = v
      /\ \A u \in Threads \ {t} : thr'[u] = thr[u]
  BY <1>1, <1>3, <1>4
<1> QED
  BY <1>5 DEF OnlyThread, v

\* A client is told one thing.
LEMMA HearsPhase ==
    ASSUME TypeOK, NEW j \in Jobs, NEW phase \in Phases,
           client' = [client EXCEPT ![j].phase = phase]
    PROVE  Hears(j, phase, client[j].acked)
<1>1. client \in [Jobs -> Client]
  BY DEF TypeOK
<1>2. [client[j] EXCEPT !.phase = phase] \in Client
  BY <1>1 DEF Client
<1> QED
  BY <1>1, <1>2 DEF Hears, Client

\* It is told that a part arrived.
LEMMA HearsPart ==
    ASSUME TypeOK, NEW j \in Jobs, NEW part \in Int,
           client' = [client EXCEPT ![j].acked = @ \cup {part}]
    PROVE  Hears(j, client[j].phase, client[j].acked \cup {part})
<1>1. client \in [Jobs -> Client]
  BY DEF TypeOK
<1>2. client[j].acked \cup {part} \in SUBSET Int
  BY <1>1 DEF Client
<1>3. [client[j] EXCEPT !.acked = @ \cup {part}] \in Client
  BY <1>1, <1>2 DEF Client
<1> QED
  BY <1>1, <1>3 DEF Hears, Client

\* What an answer changes.
LEMMA AnswersMoves ==
    ASSUME TypeOK, NEW t \in Threads, NEW what \in Phases \cup {"acked"},
           Answers(t, what)
    PROVE  LET j == thr[t].job
           IN  /\ j \in Jobs
               /\ Rests(t)
               /\ \/ client' = client
                  \/ /\ thr[t].live /\ what = "acked"
                     /\ Hears(j, client[j].phase, client[j].acked \cup {thr[t].part})
                  \/ /\ thr[t].live /\ what # "acked"
                     /\ Hears(j, what, client[j].acked)
<1> DEFINE j == thr[t].job
<1>1. thr \in [Threads -> Thread] /\ thr[t] \in Thread
  BY DEF TypeOK
<1>2. j \in Jobs /\ thr[t].part \in Int
  BY <1>1 DEF Thread
<1>3. Rests(t)
  BY <1>1, IdleIsThread DEF Answers, Rests, OnlyThread
<1>4. CASE ~thr[t].live
  BY <1>2, <1>3, <1>4 DEF Answers
<1>5. CASE thr[t].live /\ what = "acked"
  <2>1. client' = [client EXCEPT ![j].acked = @ \cup {thr[t].part}]
    BY <1>5 DEF Answers
  <2> QED
    BY <1>2, <1>3, <1>5, <2>1, HearsPart
<1>6. CASE thr[t].live /\ what # "acked"
  <2>1. client' = [client EXCEPT ![j].phase = what] /\ what \in Phases
    BY <1>6 DEF Answers
  <2> QED
    BY <1>2, <1>3, <1>6, <2>1, HearsPhase
<1> QED
  BY <1>4, <1>5, <1>6

\* However a request fails, its thread rests and its client learns of it or
\* sends it again.
FailsMove(t) ==
    /\ Rests(t)
    /\ \/ client' = client
       \/ thr[t].live /\ Hears(thr[t].job, "failed", client[thr[t].job].acked)

\* Every way in which a handler reports a failure.
LEMMA FailsMoves ==
    ASSUME TypeOK, NEW t \in Threads, Fails(t) \/ Refuses(t) \/ CommitFails(t)
    PROVE  FailsMove(t)
<1>1. "failed" \in Phases \cup {"acked"} /\ "failed" # "acked"
  BY DEF Phases
<1>2. CASE Answers(t, "failed")
  BY <1>1, <1>2, AnswersMoves DEF FailsMove
<1>3. CASE thr' = [thr EXCEPT ![t] = Idle] /\ client' = client
  <2>1. thr \in [Threads -> Thread]
    BY DEF TypeOK
  <2> QED
    BY <1>3, <2>1, IdleIsThread DEF FailsMove, Rests, OnlyThread
<1> QED
  BY <1>2, <1>3 DEF Fails, Refuses, CommitFails

-----------------------------------------------------------------------------
(* The requests of a client: each step's effect on ThreadsOK, ClientsOK and *)
(* RequestsOK, which are about threads and clients only.                    *)

ProtocolOK == ThreadsOK /\ ClientsOK /\ RequestsOK

\* Thread u has the same request at the same place.
SameRequest(u) ==
    /\ thr'[u].pc = thr[u].pc
    /\ thr'[u].job = thr[u].job
    /\ thr'[u].id = thr[u].id
    /\ thr'[u].part = thr[u].part
    /\ thr'[u].live = thr[u].live

\* No thread but t goes on or gets another request.
OthersWait(t) ==
    /\ thr' \in [Threads -> Thread]
    /\ \A u \in Threads \ {t} : SameRequest(u)

\* A thread that does not move keeps its request.
LEMMA OthersDoWait ==
    ASSUME NEW t, OnlyThread(t)
    PROVE  OthersWait(t)
BY DEF OnlyThread, OthersWait, SameRequest

\* Steps that no thread or client has a part in.
LEMMA ProtocolFrame ==
    ASSUME TypeOK, ProtocolOK, thr' = thr, client' = client,
           seq' \in Nat, seq <= seq'
    PROVE  ProtocolOK'
<1>1. seq \in Nat
  BY MaxIdAssumption DEF TypeOK
<1>2. \A n \in 1 .. seq : n \in 1 .. seq'
  BY <1>1
<1>3. \A j \in Jobs : Reserving(j)' <=> Reserving(j)
  BY DEF Reserving
<1>4. ThreadsOK'
  BY <1>2, <1>3 DEF ProtocolOK, ThreadsOK, Reserving, CommitPcs, UploadPcs
<1>5. ClientsOK'
  BY <1>2, <1>3 DEF ProtocolOK, ClientsOK
<1>6. RequestsOK'
  BY DEF ProtocolOK, RequestsOK
<1> QED
  BY <1>4, <1>5, <1>6 DEF ProtocolOK

\* A thread goes on within an upload or within a commit.
LEMMA ProtocolGoesOn ==
    ASSUME TypeOK, ProtocolOK, NEW t \in Threads, NEW pc \in Moves,
           OthersWait(t), thr'[t].pc = pc, thr'[t].job = thr[t].job,
           thr'[t].id = thr[t].id, thr'[t].part = thr[t].part,
           thr'[t].live = thr[t].live,
           \/ thr[t].pc \in CommitPcs /\ pc \in CommitPcs
           \/ /\ thr[t].pc \in UploadPcs /\ pc \in UploadPcs
              /\ pc \in {"create", "copy", "touch"} => thr[t].part # 0
              /\ pc = "order" => thr[t].part = 0,
           client' = client, seq' = seq
    PROVE  ProtocolOK'
<1>1. \A u \in Threads : /\ thr'[u].job = thr[u].job
                         /\ thr'[u].id = thr[u].id
                         /\ thr'[u].part = thr[u].part
                         /\ thr'[u].live = thr[u].live
                         /\ thr'[u].pc \in CommitPcs <=> thr[u].pc \in CommitPcs
                         /\ thr'[u].pc \in UploadPcs <=> thr[u].pc \in UploadPcs
                         /\ thr'[u].pc = "idle" <=> thr[u].pc = "idle"
  BY DEF OthersWait, SameRequest, CommitPcs, UploadPcs
<1>2. \A u \in Threads :
         /\ thr'[u].pc \in {"create", "copy", "touch"} => thr'[u].part # 0
         /\ thr'[u].pc = "order" => thr'[u].part = 0
  BY <1>1 DEF OthersWait, SameRequest, CommitPcs, ProtocolOK, ThreadsOK
<1>3. \A j \in Jobs : Reserving(j)' <=> Reserving(j)
  BY DEF Reserving
<1>4. \A u \in Threads : thr[u].job \in Jobs
  BY DEF TypeOK, Thread
<1>5. ThreadsOK'
  BY <1>1, <1>2, <1>3, <1>4 DEF ProtocolOK, ThreadsOK
<1>6. ClientsOK'
  BY <1>3 DEF ProtocolOK, ClientsOK
<1>7. RequestsOK'
  BY <1>1 DEF ProtocolOK, RequestsOK
<1> QED
  BY <1>5, <1>6, <1>7 DEF ProtocolOK

\* A thread answers and its client, if it still waits, hears of it.
LEMMA ProtocolRests ==
    ASSUME TypeOK, ProtocolOK, NEW t \in Threads, thr[t].pc # "idle",
           OthersWait(t), thr'[t] = Idle, seq' = seq,
           LET j == thr[t].job
           IN  \/ client' = client
               \/ /\ thr[t].live /\ thr[t].pc \in UploadPcs
                  /\ Hears(j, client[j].phase, client[j].acked \cup {thr[t].part})
               \/ \E phase \in {"failed", "saved"} : Hears(j, phase, client[j].acked)
               \/ /\ thr[t].pc \in CommitPcs
                  /\ Hears(j, "commit", client[j].acked)
    PROVE  ProtocolOK'
<1> DEFINE j == thr[t].job
<1>1. /\ thr'[t].pc = "idle" /\ thr'[t].id = 0 /\ thr'[t].part = 0 /\ ~thr'[t].live
      /\ \A u \in Threads : thr[u].job \in Jobs /\ thr'[u].job \in Jobs
      /\ \A u \in Threads : thr[u] \in Thread /\ thr'[u] \in Thread
  BY IdleIsThread DEF OthersWait, TypeOK, Thread
<1>2. /\ \A k \in Jobs : client'[k].id = client[k].id
      /\ \A k \in Jobs : client'[k].resent = client[k].resent
      /\ \A k \in Jobs \ {j} : client'[k] = client[k]
  BY DEF Hears
<1>3. client'[j].phase \in {client[j].phase, "failed", "saved", "commit"}
  BY DEF Hears
<1>4. Reserving(j)
  BY DEF ProtocolOK, ThreadsOK
<1>5. \A k \in Jobs : Reserving(k)' <=> Reserving(k)
  BY <1>2, <1>3, <1>4 DEF Reserving
<1>6. /\ \A k \in Jobs : client[k].acked \subseteq client'[k].acked
      /\ \/ client'[j].acked = client[j].acked
         \/ /\ thr[t].live /\ thr[t].pc \in UploadPcs
            /\ client'[j].acked = client[j].acked \cup {thr[t].part}
  BY <1>2 DEF Hears
<1>7. client'[j].phase = "up" => client[j].phase = "up"
  BY DEF Hears
<1>8. ThreadsOK'
  <2> SUFFICES ASSUME NEW u \in Threads
               PROVE  /\ thr'[u].pc = "idle" =>
                            thr'[u].id = 0 /\ thr'[u].part = 0 /\ ~thr'[u].live
                      /\ thr'[u].pc # "idle" =>
                            /\ thr'[u].id \in 1 .. seq'
                            /\ client'[thr'[u].job].phase \notin {"new", "skipped"}
                      /\ thr'[u].pc \in CommitPcs <=> thr'[u].part = -1
                      /\ thr'[u].pc \in UploadPcs =>
                            thr'[u].part \in 0 .. PartsOf[thr'[u].job]
                      /\ thr'[u].pc \in {"create", "copy", "touch"} => thr'[u].part # 0
                      /\ thr'[u].pc = "order" => thr'[u].part = 0
    BY DEF ThreadsOK, Reserving
  <2>1. CASE u = t
    BY <1>1, <2>1 DEF CommitPcs, UploadPcs
  <2>2. CASE u # t
    <3>1. thr[u].pc # "idle" => client'[thr[u].job].phase \notin {"new", "skipped"}
      BY <1>1, <1>5 DEF ProtocolOK, ThreadsOK, Reserving
    <3> QED
      BY <1>1, <3>1, <2>2 DEF OthersWait, SameRequest, ProtocolOK, ThreadsOK
  <2> QED
    BY <2>1, <2>2
<1>9. ClientsOK'
  <2>1. client'[j].acked \subseteq 0 .. PartsOf[j]
    <3>1. j \in Jobs /\ client[j].acked \subseteq 0 .. PartsOf[j]
      BY <1>1 DEF ProtocolOK, ClientsOK
    <3>2. thr[t].pc \in UploadPcs => thr[t].part \in 0 .. PartsOf[j]
      BY DEF ProtocolOK, ThreadsOK
    <3> QED
      BY <1>6, <3>1, <3>2
  <2> QED
    BY <1>1, <1>2, <1>4, <1>5, <2>1 DEF ProtocolOK, ClientsOK
<1>10. RequestsOK'
  <2>1. \A u, w \in Threads :
           /\ thr'[u].live /\ thr'[w].live
           /\ thr'[u].job = thr'[w].job /\ thr'[u].part = thr'[w].part
           /\ thr'[u].pc \in UploadPcs
           => u = w
    BY <1>1 DEF OthersWait, SameRequest, ProtocolOK, RequestsOK
  <2> SUFFICES ASSUME NEW u \in Threads
               PROVE  /\ thr'[u].pc \in UploadPcs => thr'[u].id = client'[thr'[u].job].id
                      /\ thr'[u].pc \in CommitPcs => client'[thr'[u].job].phase # "up"
                      /\ thr'[u].pc # "idle" /\ ~thr'[u].live =>
                            thr'[u].part \in client'[thr'[u].job].resent
                      /\ thr'[u].pc \in UploadPcs /\ thr'[u].live =>
                            thr'[u].part \notin client'[thr'[u].job].acked
    BY <2>1 DEF RequestsOK
  <2>2. CASE u = t
    BY <1>1, <2>2 DEF CommitPcs, UploadPcs
  <2>3. CASE u # t
    <3>1. SameRequest(u)
      BY <2>3 DEF OthersWait
    <3>2. thr[u].pc \in UploadPcs => thr[u].id = client'[thr[u].job].id
      BY <1>1, <1>2 DEF ProtocolOK, RequestsOK
    <3>3. thr[u].pc \in CommitPcs => client'[thr[u].job].phase # "up"
      BY <1>1, <1>2, <1>7 DEF ProtocolOK, RequestsOK
    <3>4. thr[u].pc # "idle" /\ ~thr[u].live => thr[u].part \in client'[thr[u].job].resent
      BY <1>1, <1>2 DEF ProtocolOK, RequestsOK
    <3>5. thr[u].pc \in UploadPcs /\ thr[u].live =>
             thr[u].part \notin client'[thr[u].job].acked
      <4>1. CASE thr[u].job = j
        BY <1>6, <2>3, <4>1 DEF ProtocolOK, RequestsOK
      <4>2. CASE thr[u].job # j
        BY <1>1, <1>2, <4>2 DEF ProtocolOK, RequestsOK
      <4> QED
        BY <4>1, <4>2
    <3> QED
      BY <3>1, <3>2, <3>3, <3>4, <3>5 DEF SameRequest
  <2> QED
    BY <2>2, <2>3
<1> QED
  BY <1>8, <1>9, <1>10 DEF ProtocolOK

\* Client j is told its reservation.
TakesEntry(j, id) ==
    /\ client' \in [Jobs -> Client]
    /\ \A k \in Jobs \ {j} : client'[k] = client[k]
    /\ client'[j].phase = "up"
    /\ client'[j].id = id
    /\ client'[j].acked = client[j].acked
    /\ client'[j].resent = client[j].resent

\* A reservation gives the client an entry and starts no request.
LEMMA ProtocolTakes ==
    ASSUME TypeOK, ProtocolOK, NEW j \in Jobs, client[j].phase = "new",
           seq' \in Nat, seq <= seq', NEW id \in 1 .. seq', TakesEntry(j, id),
           thr' = thr
    PROVE  ProtocolOK'
<1>1. seq \in Nat
  BY MaxIdAssumption DEF TypeOK
<1>2. \A n \in 1 .. seq : n \in 1 .. seq'
  BY <1>1
<1>3. \A t \in Threads : thr[t].pc # "idle" => thr[t].job \in Jobs \ {j}
  BY DEF ProtocolOK, ThreadsOK, Reserving, TypeOK, Thread
<1>4. \A k \in Jobs \ {j} : client'[k] = client[k]
  BY DEF TakesEntry
<1>5. ThreadsOK'
  BY <1>2, <1>3, <1>4 DEF ProtocolOK, ThreadsOK, Reserving
<1>6. ClientsOK'
  <2>1. client[j].acked = {} /\ client'[j].acked = {}
    BY DEF ProtocolOK, ClientsOK, Reserving, TakesEntry
  <2>2. client'[j].id \in 1 .. seq'
    BY DEF TakesEntry
  <2>3. \A k \in Jobs \ {j} :
           /\ ~Reserving(k)' => client'[k].acked = {}
           /\ Reserving(k)' => client'[k].id \in 1 .. seq'
           /\ client'[k].acked \subseteq 0 .. PartsOf[k]
    BY <1>2, <1>4 DEF ProtocolOK, ClientsOK, Reserving
  <2> QED
    BY <2>1, <2>2, <2>3 DEF ClientsOK
<1>7. RequestsOK'
  <2>1. \A t \in Threads : thr[t].pc \in UploadPcs \cup CommitPcs =>
                              client'[thr[t].job] = client[thr[t].job]
    BY <1>3, <1>4 DEF UploadPcs, CommitPcs
  <2>2. \A t \in Threads : thr[t].pc # "idle" =>
                              client'[thr[t].job] = client[thr[t].job]
    BY <1>3, <1>4
  <2> QED
    BY <2>1, <2>2 DEF ProtocolOK, RequestsOK
<1> QED
  BY <1>5, <1>6, <1>7 DEF ProtocolOK

\* A client is told that its save is over, or was not needed.
LEMMA ProtocolHears ==
    ASSUME TypeOK, ProtocolOK, NEW j \in Jobs, NEW phase \in Phases,
           Hears(j, phase, client[j].acked),
           \/ phase = "skipped" /\ client[j].phase = "new"
           \/ phase \in {"failed", "saved"} /\ Reserving(j),
           thr' = thr, seq' = seq
    PROVE  ProtocolOK'
<1>1. \A k \in Jobs : /\ client'[k].id = client[k].id
                      /\ client'[k].acked = client[k].acked
                      /\ client'[k].resent = client[k].resent
                      /\ client'[k].phase = "up" => client[k].phase = "up"
                      /\ Reserving(k)' <=> Reserving(k)
  BY DEF Hears, Reserving
<1>2. \A t \in Threads : thr[t].job \in Jobs
  BY DEF TypeOK, Thread
<1>3. \A t \in Threads : thr[t].pc # "idle" =>
                            client'[thr[t].job].phase \notin {"new", "skipped"}
  BY <1>1, <1>2 DEF ProtocolOK, ThreadsOK, Reserving
<1>4. ThreadsOK'
  BY <1>3 DEF ProtocolOK, ThreadsOK, Reserving
<1>5. ClientsOK'
  BY <1>1 DEF ProtocolOK, ClientsOK
<1>6. RequestsOK'
  BY <1>1, <1>2 DEF ProtocolOK, RequestsOK
<1> QED
  BY <1>4, <1>5, <1>6 DEF ProtocolOK

\* The request for a part is let in.
LEMMA ProtocolUploads ==
    ASSUME TypeOK, ProtocolOK, NEW t \in Threads, NEW j \in Jobs,
           NEW p \in Sendable(j), p \in 0 .. PartsOf[j],
           thr[t].pc = "idle", client[j].phase = "up",
           Arrives(t, j, client[j].id, p, "room"),
           client' = client, seq' = seq
    PROVE  /\ ProtocolOK'
           /\ OnlyThread(t)
           /\ thr'[t] = [pc |-> "room", job |-> j, id |-> client[j].id, part |-> p,
                         left |-> {}, file |-> <<>>, live |-> TRUE]
<1>1. "room" \in Moves /\ p \in Int /\ client[j].id \in Nat
  BY PartsAssumption DEF Moves, UploadPcs, TypeOK, Client
<1>2. /\ OnlyThread(t)
      /\ thr'[t] = [pc |-> "room", job |-> j, id |-> client[j].id, part |-> p,
                    left |-> {}, file |-> <<>>, live |-> TRUE]
  BY <1>1, ArrivesTakes
<1>3. /\ thr'[t].pc = "room" /\ thr'[t].job = j /\ thr'[t].id = client[j].id
      /\ thr'[t].part = p /\ thr'[t].live = TRUE
  BY <1>2
<1>4. /\ p \notin client[j].acked
      /\ \A u \in Threads : ~(thr[u].live /\ thr[u].job = j /\ thr[u].part = p)
  BY DEF Sendable
<1>5. Reserving(j) /\ client[j].id \in 1 .. seq
  BY DEF Reserving, ProtocolOK, ClientsOK
<1>6. "room" \in UploadPcs /\ "room" \notin CommitPcs /\ p # -1
  BY PartsAssumption DEF UploadPcs, CommitPcs
<1>7. \A u \in Threads \ {t} : thr'[u] = thr[u]
  BY <1>2 DEF OnlyThread
<1>8. ThreadsOK'
  <2>1. \A u \in Threads \ {t} :
           /\ thr'[u].pc = "idle" => thr'[u].id = 0 /\ thr'[u].part = 0 /\ ~thr'[u].live
           /\ thr'[u].pc # "idle" =>
                 thr'[u].id \in 1 .. seq' /\ client'[thr'[u].job].phase \notin {"new", "skipped"}
           /\ thr'[u].pc \in CommitPcs <=> thr'[u].part = -1
           /\ thr'[u].pc \in UploadPcs => thr'[u].part \in 0 .. PartsOf[thr'[u].job]
           /\ thr'[u].pc \in {"create", "copy", "touch"} => thr'[u].part # 0
           /\ thr'[u].pc = "order" => thr'[u].part = 0
    BY <1>7 DEF ProtocolOK, ThreadsOK, Reserving
  <2>2. /\ thr'[t].pc # "idle" /\ thr'[t].pc \notin {"create", "copy", "touch", "order"}
        /\ thr'[t].id \in 1 .. seq' /\ client'[thr'[t].job].phase \notin {"new", "skipped"}
        /\ thr'[t].pc \notin CommitPcs /\ thr'[t].part # -1
        /\ thr'[t].part \in 0 .. PartsOf[thr'[t].job]
    BY <1>3, <1>5, <1>6 DEF Reserving
  <2> QED
    BY <2>1, <2>2 DEF ThreadsOK, Reserving
<1>9. ClientsOK'
  BY DEF ProtocolOK, ClientsOK, Reserving
<1>10. RequestsOK'
  <2>1. \A u \in Threads \ {t} :
           /\ thr'[u].pc \in UploadPcs => thr'[u].id = client'[thr'[u].job].id
           /\ thr'[u].pc \in CommitPcs => client'[thr'[u].job].phase # "up"
           /\ thr'[u].pc # "idle" /\ ~thr'[u].live =>
                 thr'[u].part \in client'[thr'[u].job].resent
           /\ thr'[u].pc \in UploadPcs /\ thr'[u].live =>
                 thr'[u].part \notin client'[thr'[u].job].acked
    BY <1>7 DEF ProtocolOK, RequestsOK
  <2>2. \A u, w \in Threads :
           /\ thr'[u].live /\ thr'[w].live
           /\ thr'[u].job = thr'[w].job /\ thr'[u].part = thr'[w].part
           /\ thr'[u].pc \in UploadPcs
           => u = w
    BY <1>3, <1>4, <1>7 DEF ProtocolOK, RequestsOK
  <2> QED
    BY <1>3, <1>4, <1>6, <2>1, <2>2 DEF RequestsOK
<1> QED
  BY <1>2, <1>8, <1>9, <1>10 DEF ProtocolOK

\* A commit begins.
LEMMA ProtocolCommits ==
    ASSUME TypeOK, ProtocolOK, NEW t \in Threads, NEW j \in Jobs,
           NEW id \in 1 .. seq, thr[t].pc = "idle",
           client[j].phase \in {"up", "commit"},
           Arrives(t, j, id, -1, "list"),
           Hears(j, "commit", client[j].acked), seq' = seq
    PROVE  /\ ProtocolOK'
           /\ OnlyThread(t)
           /\ thr'[t] = [pc |-> "list", job |-> j, id |-> id, part |-> -1,
                         left |-> {}, file |-> <<>>, live |-> TRUE]
<1>1. "list" \in Moves /\ -1 \in Int /\ id \in Nat
  BY MaxIdAssumption DEF Moves, CommitPcs, TypeOK
<1>2. /\ OnlyThread(t)
      /\ thr'[t] = [pc |-> "list", job |-> j, id |-> id, part |-> -1,
                    left |-> {}, file |-> <<>>, live |-> TRUE]
  BY <1>1, ArrivesTakes
<1>3. /\ thr'[t].pc = "list" /\ thr'[t].job = j /\ thr'[t].id = id
      /\ thr'[t].part = -1 /\ thr'[t].live = TRUE
  BY <1>2
<1>4. \A k \in Jobs : /\ client'[k].id = client[k].id
                      /\ client'[k].acked = client[k].acked
                      /\ client'[k].resent = client[k].resent
                      /\ client'[k].phase = "up" => client[k].phase = "up"
                      /\ Reserving(k)' <=> Reserving(k)
  BY DEF Hears, Reserving
<1>5. client'[j].phase = "commit"
  BY DEF Hears
<1>6. "list" \notin UploadPcs /\ "list" \in CommitPcs
  BY DEF UploadPcs, CommitPcs
<1>7. \A u \in Threads \ {t} : thr'[u] = thr[u] /\ thr[u].job \in Jobs
  BY <1>2 DEF OnlyThread, TypeOK, Thread
<1>8. ThreadsOK'
  <2>1. \A u \in Threads \ {t} :
           /\ thr'[u].pc = "idle" => thr'[u].id = 0 /\ thr'[u].part = 0 /\ ~thr'[u].live
           /\ thr'[u].pc # "idle" =>
                 thr'[u].id \in 1 .. seq' /\ client'[thr'[u].job].phase \notin {"new", "skipped"}
           /\ thr'[u].pc \in CommitPcs <=> thr'[u].part = -1
           /\ thr'[u].pc \in UploadPcs => thr'[u].part \in 0 .. PartsOf[thr'[u].job]
           /\ thr'[u].pc \in {"create", "copy", "touch"} => thr'[u].part # 0
           /\ thr'[u].pc = "order" => thr'[u].part = 0
    BY <1>4, <1>7 DEF ProtocolOK, ThreadsOK, Reserving
  <2> QED
    BY <1>3, <1>5, <1>6, <2>1 DEF ThreadsOK, Reserving
<1>9. ClientsOK'
  BY <1>4 DEF ProtocolOK, ClientsOK
<1>10. RequestsOK'
  <2>1. \A u \in Threads \ {t} :
           /\ thr'[u].pc \in UploadPcs => thr'[u].id = client'[thr'[u].job].id
           /\ thr'[u].pc \in CommitPcs => client'[thr'[u].job].phase # "up"
           /\ thr'[u].pc # "idle" /\ ~thr'[u].live =>
                 thr'[u].part \in client'[thr'[u].job].resent
           /\ thr'[u].pc \in UploadPcs /\ thr'[u].live =>
                 thr'[u].part \notin client'[thr'[u].job].acked
    BY <1>4, <1>7 DEF ProtocolOK, RequestsOK
  <2>2. \A u, w \in Threads :
           /\ thr'[u].live /\ thr'[w].live
           /\ thr'[u].job = thr'[w].job /\ thr'[u].part = thr'[w].part
           /\ thr'[u].pc \in UploadPcs
           => u = w
    <3>1. \A u \in Threads : thr[u].pc \in UploadPcs => thr[u].part # -1
      BY PartsAssumption DEF ProtocolOK, ThreadsOK, UploadPcs, CommitPcs
    <3> QED
      BY <1>3, <1>6, <1>7, <3>1 DEF ProtocolOK, RequestsOK
  <2> QED
    BY <1>3, <1>5, <1>6, <2>1, <2>2 DEF RequestsOK
<1> QED
  BY <1>2, <1>8, <1>9, <1>10 DEF ProtocolOK

\* A client gives up on its request.
LEMMA GiveUpMoves ==
    ASSUME TypeOK, NEW t \in Threads, GiveUp(t)
    PROVE  LET j == thr[t].job
           IN  /\ OnlyThread(t)
               /\ thr'[t].pc = thr[t].pc /\ thr'[t].job = j
               /\ thr'[t].id = thr[t].id /\ thr'[t].part = thr[t].part
               /\ thr'[t].left = thr[t].left /\ thr'[t].file = thr[t].file
               /\ thr'[t].live = FALSE
               /\ j \in Jobs
               /\ client' \in [Jobs -> Client]
               /\ \A k \in Jobs \ {j} : client'[k] = client[k]
               /\ client'[j].phase = client[j].phase
               /\ client'[j].id = client[j].id
               /\ client'[j].acked = client[j].acked
               /\ client'[j].resent = client[j].resent \cup {thr[t].part}
<1> DEFINE j == thr[t].job
<1>1. thr \in [Threads -> Thread] /\ thr[t] \in Thread /\ client \in [Jobs -> Client]
  BY DEF TypeOK
<1>2. j \in Jobs /\ thr[t].part \in Int
  BY <1>1 DEF Thread
<1>3. [thr[t] EXCEPT !.live = FALSE] \in Thread
  BY <1>1 DEF Thread
<1>4. thr' = [thr EXCEPT ![t].live = FALSE]
  BY DEF GiveUp
<1>5. client[j].resent \cup {thr[t].part} \in SUBSET Int
  BY <1>1, <1>2 DEF Client
<1>6. [client[j] EXCEPT !.resent = @ \cup {thr[t].part}] \in Client
  BY <1>1, <1>2, <1>5 DEF Client
<1>7. client' = [client EXCEPT ![j].resent = @ \cup {thr[t].part}]
  BY DEF GiveUp
<1>8. /\ OnlyThread(t)
      /\ thr'[t].pc = thr[t].pc /\ thr'[t].job = j
      /\ thr'[t].id = thr[t].id /\ thr'[t].part = thr[t].part
      /\ thr'[t].left = thr[t].left /\ thr'[t].file = thr[t].file
      /\ thr'[t].live = FALSE
  BY <1>1, <1>3, <1>4 DEF OnlyThread, Thread
<1> HIDE DEF j
<1>9. /\ client' \in [Jobs -> Client]
      /\ \A k \in Jobs \ {j} : client'[k] = client[k]
      /\ client'[j].phase = client[j].phase
      /\ client'[j].id = client[j].id
      /\ client'[j].acked = client[j].acked
      /\ client'[j].resent = client[j].resent \cup {thr[t].part}
  BY <1>1, <1>2, <1>6, <1>7 DEF Client
<1> QED
  BY <1>2, <1>8, <1>9 DEF j

\* A request that was given up on is one the client may send again.
LEMMA ProtocolGivesUp ==
    ASSUME TypeOK, ProtocolOK, NEW t \in Threads, GiveUp(t)
    PROVE  ProtocolOK'
<1> DEFINE j == thr[t].job
<1>1. /\ OnlyThread(t)
      /\ thr'[t].pc = thr[t].pc /\ thr'[t].job = j
      /\ thr'[t].id = thr[t].id /\ thr'[t].part = thr[t].part
      /\ thr'[t].live = FALSE
      /\ j \in Jobs
      /\ \A k \in Jobs \ {j} : client'[k] = client[k]
      /\ client'[j].phase = client[j].phase
      /\ client'[j].id = client[j].id
      /\ client'[j].acked = client[j].acked
      /\ client'[j].resent = client[j].resent \cup {thr[t].part}
  BY GiveUpMoves
<1>2. seq' = seq /\ thr[t].pc # "idle"
  BY DEF GiveUp
<1>3. \A k \in Jobs : /\ client'[k].id = client[k].id
                      /\ client'[k].acked = client[k].acked
                      /\ client[k].resent \subseteq client'[k].resent
                      /\ client'[k].phase = client[k].phase
                      /\ Reserving(k)' <=> Reserving(k)
  BY <1>1 DEF Reserving
<1>4. \A u \in Threads : /\ thr'[u].pc = thr[u].pc /\ thr'[u].job = thr[u].job
                         /\ thr'[u].id = thr[u].id /\ thr'[u].part = thr[u].part
                         /\ thr'[u].live => thr[u].live
                         /\ thr[u].job \in Jobs
  BY <1>1 DEF OnlyThread, TypeOK, Thread
<1>5. ThreadsOK'
  <2>1. \A u \in Threads : thr[u].pc # "idle" =>
                              client'[thr[u].job].phase \notin {"new", "skipped"}
    BY <1>3, <1>4 DEF ProtocolOK, ThreadsOK, Reserving
  <2> QED
    BY <1>2, <1>4, <2>1 DEF ProtocolOK, ThreadsOK, Reserving
<1>6. ClientsOK'
  BY <1>2, <1>3 DEF ProtocolOK, ClientsOK
<1>7. RequestsOK'
  <2>1. \A u \in Threads : thr'[u].pc # "idle" /\ ~thr'[u].live =>
                              thr'[u].part \in client'[thr'[u].job].resent
    <3> SUFFICES ASSUME NEW u \in Threads, thr'[u].pc # "idle" /\ ~thr'[u].live
                 PROVE  thr'[u].part \in client'[thr'[u].job].resent
      OBVIOUS
    <3>1. CASE u = t
      BY <1>1, <3>1
    <3>2. CASE u # t
      BY <1>1, <1>3, <1>4, <3>2 DEF OnlyThread, ProtocolOK, RequestsOK
    <3> QED
      BY <3>1, <3>2
  <2> QED
    BY <1>3, <1>4, <2>1 DEF ProtocolOK, RequestsOK
<1> QED
  BY <1>5, <1>6, <1>7 DEF ProtocolOK

\* A restart leaves no request in progress.
LEMMA ProtocolCrashes ==
    ASSUME TypeOK, ProtocolOK, Crash
    PROVE  ProtocolOK' /\ thr' \in [Threads -> Thread]
<1>1. \A t \in Threads : thr'[t] = Idle
  BY DEF Crash
<1>2. client' = client /\ seq' = seq
  BY DEF Crash
<1>3. \A t \in Threads : /\ thr'[t].pc = "idle" /\ thr'[t].id = 0
                         /\ thr'[t].part = 0 /\ ~thr'[t].live
  BY <1>1, IdleIsThread
<1>4. ThreadsOK'
  BY <1>3 DEF ThreadsOK, CommitPcs, UploadPcs
<1>5. ClientsOK'
  BY <1>2 DEF ProtocolOK, ClientsOK, Reserving
<1>6. RequestsOK'
  BY <1>3 DEF RequestsOK, CommitPcs, UploadPcs
<1>7. thr' \in [Threads -> Thread]
  BY IdleIsThread DEF Crash
<1> QED
  BY <1>4, <1>5, <1>6, <1>7 DEF ProtocolOK

-----------------------------------------------------------------------------
(* What a step does to the table and the disk.                              *)

\* Entries of `tried` lose their bytes and their rows, or only their bytes;
\* the other entries stay, whatever becomes of their state and time of use.
Thins(tried) ==
    /\ seq' = seq
    /\ rows' \in [DOMAIN rows' -> Row]
    /\ DOMAIN rows' \subseteq DOMAIN rows
    /\ \A i \in DOMAIN rows' : /\ rows'[i].job = rows[i].job
                               /\ rows'[i].owner = rows[i].owner
    /\ blob' \in [Ids -> Seq(Int)]
    /\ staged' \in [Ids -> Dir]
    /\ half' \subseteq DOMAIN rows'
    /\ half \cap DOMAIN rows' \subseteq half'
    /\ stray \subseteq stray' /\ stray' \subseteq 1 .. seq
    /\ \A i \in Ids :
          \/ /\ blob'[i] = blob[i] /\ staged'[i] = staged[i]
             /\ i \in DOMAIN rows => i \in DOMAIN rows'
          \/ i \in tried /\ Removed(i)

\* No entry is committed either.
Shrinks(tried) ==
    /\ Thins(tried)
    /\ \A i \in DOMAIN rows' : rows'[i].complete = rows[i].complete

\* No entry was used longer ago than before.
Younger == \A i \in DOMAIN rows' : rows'[i].age <= rows[i].age

\* Only entries out of use, or without bytes, are tried.
Evictable(tried) ==
    \A i \in tried : /\ i \in DOMAIN rows
                     /\ rows[i].complete => ~InUse(rows[i]) \/ blob[i] = <<>>

\* Deleting from a table of the same entries removes entries and no more.
LEMMA DeletesShrinks ==
    ASSUME TypeOK, NEW rs, SameEntries(rows, rs), NEW tried, Deletes(rs, tried),
           seq' = seq
    PROVE  /\ Shrinks(tried)
           /\ (\A i \in DOMAIN rows : rs[i].age <= rows[i].age) => Younger
<1>1. DOMAIN rs = DOMAIN rows
  BY DEF SameEntries
<1>2. \A i \in DOMAIN rows' : /\ i \in DOMAIN rows
                              /\ rows'[i] = rs[i]
                              /\ rows'[i].job = rows[i].job
                              /\ rows'[i].owner = rows[i].owner
                              /\ rows'[i].complete = rows[i].complete
  BY <1>1 DEF SameEntries, Deletes
<1> QED
  BY <1>1, <1>2 DEF Deletes, Shrinks, Thins, Removed, Younger

\* Marking entries as used, or letting them age, removes none.
LEMMA AgesShrink ==
    ASSUME TypeOK, SameEntries(rows, rows'), UNCHANGED <<blob, staged, half, stray, seq>>
    PROVE  Shrinks({})
BY DEF TypeOK, SameEntries, Shrinks, Thins, Removed

\* The table has the entries it has.
LEMMA SameIsSame ==
    ASSUME TypeOK
    PROVE  SameEntries(rows, rows) /\ \A i \in DOMAIN rows : rows[i].age <= rows[i].age
BY DEF TypeOK, SameEntries, Row

\* Steps that leave the table and the disk alone.
LEMMA StaysShrinks ==
    ASSUME TypeOK, UNCHANGED <<rows, blob, staged, half, stray, seq>>
    PROVE  Shrinks({}) /\ Younger
<1>1. SameEntries(rows, rows')
  BY SameIsSame
<1> QED
  BY <1>1, AgesShrink, SameIsSame DEF Younger

\* makeRoom removes entries that are out of use.
LEMMA MakeRoomShrinks ==
    ASSUME TypeOK, NEW f, MakeRoom(f), seq' = seq
    PROVE  \E tried : Shrinks(tried) /\ Younger /\ Evictable(tried)
<1>1. PICK short : \E limit :
         DeleteCaches(rows, IF short = 0 THEN {}
                            ELSE EvictTo(rows, Completed(rows), limit, f.id), f)
  BY DEF MakeRoom
<1>2. PICK limit :
         DeleteCaches(rows, IF short = 0 THEN {}
                            ELSE EvictTo(rows, Completed(rows), limit, f.id), f)
  BY <1>1
<1> DEFINE tried == IF short = 0 THEN {} ELSE EvictTo(rows, Completed(rows), limit, f.id)
<1>3. SparesInUse(rows, tried)
  <2>1. Completed(rows) \in SUBSET DOMAIN rows
    BY DEF Completed
  <2>2. SparesInUse(rows, EvictTo(rows, Completed(rows), limit, f.id))
    BY <2>1, EvictToSpares
  <2> QED
    BY <2>2 DEF SparesInUse
<1>4. DeleteCaches(rows, tried, f)
  BY <1>2
<1> HIDE DEF tried
<1>5. rows \in [DOMAIN rows -> Row]
  BY DEF TypeOK
<1>6. Deletes(rows, tried)
  BY <1>3, <1>4, <1>5, DeleteCachesDeletes DEF SparesInUse
<1>7. Shrinks(tried) /\ Younger
  BY <1>6, SameIsSame, DeletesShrinks
<1>8. Evictable(tried)
  BY <1>3 DEF SparesInUse, Evictable
<1> QED
  BY <1>7, <1>8

\* So does a sweep.
LEMMA GcCacheShrinks ==
    ASSUME TypeOK, GcCache
    PROVE  \E tried : Shrinks(tried) /\ Younger /\ Evictable(tried)
<1>1. PICK f \in Failures : DeleteCaches(rows, EvictedBySweep(rows, f.id), f)
  BY DEF GcCache
<1> DEFINE tried == EvictedBySweep(rows, f.id)
<1>2. rows \in [DOMAIN rows -> Row] /\ Table(rows)
  BY RowsAreTable DEF TypeOK
<1>3. SparesInUse(rows, tried)
  BY <1>2, SweepSparesInUse
<1>4. DeleteCaches(rows, tried, f) /\ seq' = seq
  BY <1>1 DEF GcCache
<1> HIDE DEF tried
<1>5. Deletes(rows, tried)
  BY <1>2, <1>3, <1>4, DeleteCachesDeletes DEF SparesInUse
<1>6. Shrinks(tried) /\ Younger
  BY <1>4, <1>5, SameIsSame, DeletesShrinks
<1>7. Evictable(tried)
  BY <1>3 DEF SparesInUse, Evictable
<1> QED
  BY <1>6, <1>7

\* lookupCache deletes matches without bytes, and hands out a URL for one
\* that has bytes and has just been marked as used.
LEMMA LookupShrinks ==
    ASSUME TypeOK, NEW j \in Jobs, LookupCache(j)
    PROVE  /\ \E tried : Shrinks(tried) /\ Younger /\ Evictable(tried)
           /\ UNCHANGED <<seq, thr, client>>
           /\ url' \in [Ids -> Nat]
           /\ \A i \in Ids \ untouched' :
                 \/ url'[i] = url[i] /\ i \notin untouched
                 \/ /\ url'[i] = UrlTTL + 1
                    /\ i \in DOMAIN rows' /\ rows'[i].complete
                    /\ blob'[i] # <<>> /\ rows'[i].age < TouchStale
<1>1. PICK f \in Failures \cup UnwrittenTouch :
        LET found   == Candidates(rows, j)
            present == {i \in found : blob[i] # <<>>}
            lost    == {i \in found \ present :
                           \A k \in present : Better(rows, j, i, k)}
            tried   == {i \in lost : f.id \in lost =>
                                        i = f.id \/ Better(rows, j, i, f.id)}
            hit     == {i \in present : /\ f.id \notin lost
                                        /\ \A k \in present \ {i} : Better(rows, j, i, k)}
            table   == [i \in DOMAIN rows |->
                          IF i \in hit /\ f.at # "touch" THEN Touched(rows, i)[i]
                          ELSE rows[i]]
        IN  /\ DeleteCaches(table, tried, f)
            /\ untouched' = IF f.at = "touch" THEN untouched \cup hit
                            ELSE untouched \ hit
            /\ url' = [i \in Ids |-> IF i \in hit THEN UrlTTL + 1 ELSE url[i]]
            /\ UNCHANGED <<seq, thr, sweeping, client>>
  BY DEF LookupCache
<1> DEFINE found   == Candidates(rows, j)
           present == {i \in found : blob[i] # <<>>}
           lost    == {i \in found \ present :
                           \A k \in present : Better(rows, j, i, k)}
           tried   == {i \in lost : f.id \in lost =>
                                        i = f.id \/ Better(rows, j, i, f.id)}
           hit     == {i \in present : /\ f.id \notin lost
                                       /\ \A k \in present \ {i} : Better(rows, j, i, k)}
           table   == [i \in DOMAIN rows |->
                         IF i \in hit /\ f.at # "touch" THEN Touched(rows, i)[i]
                         ELSE rows[i]]
<1>2. /\ DeleteCaches(table, tried, f)
      /\ untouched' = IF f.at = "touch" THEN untouched \cup hit ELSE untouched \ hit
      /\ url' = [i \in Ids |-> IF i \in hit THEN UrlTTL + 1 ELSE url[i]]
      /\ UNCHANGED <<seq, thr, client>>
  BY <1>1
<1>3. \A i \in tried : i \in DOMAIN rows /\ blob[i] = <<>>
  BY DEF Candidates, Completed
<1>4. \A i \in hit : i \in DOMAIN rows /\ rows[i].complete /\ blob[i] # <<>>
  BY DEF Candidates, Completed
<1>5. table = [i \in DOMAIN rows |-> IF i \in hit /\ f.at # "touch"
                                     THEN Touched(rows, i)[i] ELSE rows[i]]
  OBVIOUS
<1> HIDE DEF hit, tried, table
<1>6. rows \in [DOMAIN rows -> Row]
  BY DEF TypeOK
<1>7. /\ SameEntries(rows, table)
      /\ \A i \in DOMAIN rows : table[i].age <= rows[i].age
      /\ f.at # "touch" => \A i \in hit : table[i].age < TouchStale
  <2>1. \A i \in hit : /\ Touched(rows, i)[i] \in Row
                       /\ Touched(rows, i)[i].job = rows[i].job
                       /\ Touched(rows, i)[i].owner = rows[i].owner
                       /\ Touched(rows, i)[i].complete = rows[i].complete
                       /\ Touched(rows, i)[i].age <= rows[i].age
                       /\ Touched(rows, i)[i].age < TouchStale
    BY <1>4, <1>6, TouchedKeeps DEF SameEntries
  <2>2. \A i \in DOMAIN rows : /\ rows[i] \in Row
                               /\ rows[i].age <= rows[i].age
    BY <1>6 DEF Row
  <2> QED
    BY <1>4, <1>5, <2>1, <2>2 DEF SameEntries
<1>8. Deletes(table, tried)
  BY <1>2, <1>3, <1>7, DeleteCachesDeletes DEF SameEntries
<1>9. Shrinks(tried) /\ Younger
  BY <1>2, <1>7, <1>8, DeletesShrinks
<1>10. Evictable(tried)
  BY <1>3 DEF Evictable
<1>11. url' \in [Ids -> Nat]
  BY <1>2, TimesAssumption DEF TypeOK
<1>12. ASSUME NEW i \in Ids \ untouched', url'[i] # url[i] \/ i \in untouched
       PROVE  /\ url'[i] = UrlTTL + 1
              /\ i \in DOMAIN rows' /\ rows'[i].complete
              /\ blob'[i] # <<>> /\ rows'[i].age < TouchStale
  <2>1. i \in hit /\ url'[i] = UrlTTL + 1 /\ f.at # "touch"
    BY <1>2, <1>12
  <2>2. i \notin tried /\ i \in DOMAIN table
    BY <2>1, <1>3, <1>4, <1>7 DEF SameEntries
  <2>3. i \in DOMAIN rows' /\ blob'[i] = blob[i] /\ rows'[i] = table[i]
    BY <1>8, <2>2 DEF Deletes
  <2> QED
    BY <2>1, <2>3, <1>4, <1>7 DEF SameEntries
<1> QED
  BY <1>2, <1>9, <1>10, <1>11, <1>12

-----------------------------------------------------------------------------
(* TracesOK and EntriesOK.                                                  *)

\* The files of entry i change, and no row does.
DiskStep(i) ==
    /\ rows' = rows
    /\ seq' = seq
    /\ half' = half
    /\ stray \subseteq stray'
    /\ stray' \subseteq 1 .. seq
    /\ blob' \in [Ids -> Seq(Int)]
    /\ staged' \in [Ids -> Dir]
    /\ \A k \in Ids \ {i} : blob'[k] = blob[k] /\ staged'[k] = staged[k]

\* Deleted entries leave nothing on disk.
LEMMA TracesShrink ==
    ASSUME TypeOK, TracesOK, NEW tried, Thins(tried)
    PROVE  TracesOK'
<1> SUFFICES ASSUME NEW i \in Ids, i \notin DOMAIN rows' \cup stray'
             PROVE  blob'[i] = <<>> /\ staged'[i].parts = {} /\ staged'[i].blocks = {}
  BY DEF TracesOK
<1>1. NoDir.parts = {} /\ NoDir.blocks = {}
  BY DEF NoDir
<1> QED
  BY <1>1 DEF TracesOK, Thins, Removed

\* Nor does work on the files of an entry, unless it is recorded as stray.
LEMMA TracesDisk ==
    ASSUME TypeOK, TracesOK, NEW i \in Ids, DiskStep(i),
           i \notin DOMAIN rows \cup stray' =>
               blob'[i] = <<>> /\ staged'[i].parts = {} /\ staged'[i].blocks = {}
    PROVE  TracesOK'
<1> SUFFICES ASSUME NEW k \in Ids, k \notin DOMAIN rows' \cup stray'
             PROVE  blob'[k] = <<>> /\ staged'[k].parts = {} /\ staged'[k].blocks = {}
  BY DEF TracesOK
<1>1. CASE k = i
  BY <1>1 DEF DiskStep
<1>2. CASE k # i
  BY <1>2 DEF DiskStep, TracesOK
<1> QED
  BY <1>1, <1>2

\* Nobody takes up an entry of another's.
HoldsKept == \A i \in Ids, j \in Jobs : Holds(i, j)' => Holds(i, j)

\* Holding an entry after a step that inserts none means having held it.
LEMMA HoldsStep ==
    ASSUME NEW ids,
           \A i \in ids \cap DOMAIN rows' :
               i \in DOMAIN rows /\ rows'[i].job = rows[i].job,
           \A t \in Threads : thr'[t].pc # "idle" /\ thr'[t].id \in ids =>
               Holds(thr'[t].id, thr'[t].job),
           \A j \in Jobs : client'[j].phase \notin {"new", "skipped"} /\ client'[j].id \in ids =>
               Holds(client'[j].id, j)
    PROVE  \A i \in ids, j \in Jobs : Holds(i, j)' => Holds(i, j)
<1> SUFFICES ASSUME NEW i \in ids, NEW j \in Jobs, Holds(i, j)'
             PROVE  Holds(i, j)
  OBVIOUS
<1>1. CASE i \in DOMAIN rows' /\ rows'[i].job = j
  BY <1>1 DEF Holds
<1>2. CASE \E t \in Threads : thr'[t].pc # "idle" /\ thr'[t].id = i /\ thr'[t].job = j
  BY <1>2
<1>3. CASE client'[j].phase \notin {"new", "skipped"} /\ client'[j].id = i
  BY <1>3
<1> QED
  BY <1>1, <1>2, <1>3 DEF Holds, Reserving

\* Entries stay one job's when nobody takes up another's.
LEMMA EntriesKept ==
    ASSUME TypeOK, EntriesOK, HoldsKept,
           \A i \in DOMAIN rows' : /\ i \in DOMAIN rows
                                   /\ rows'[i].job = rows[i].job
                                   /\ rows'[i].owner = rows[i].owner,
           \A i \in Ids, j \in Jobs : Holds(i, j) =>
               staged'[i].parts \cup staged'[i].blocks \subseteq FilesOf(j)
    PROVE  EntriesOK'
<1>1. \A i \in DOMAIN rows' :
        rows'[i].owner = IF ApiOf[rows'[i].job] = "v2" THEN rows'[i].job ELSE NoOwner
  BY DEF EntriesOK
<1>2. \A i \in Ids, j, k \in Jobs : Holds(i, j)' /\ Holds(i, k)' => j = k
  BY DEF EntriesOK, HoldsKept
<1>3. \A i \in Ids, j \in Jobs :
        Holds(i, j)' => staged'[i].parts \cup staged'[i].blocks \subseteq FilesOf(j)
  BY DEF HoldsKept
<1> QED
  BY <1>1, <1>2, <1>3 DEF EntriesOK

\* They do when entries are deleted.
LEMMA EntriesShrink ==
    ASSUME TypeOK, EntriesOK, HoldsKept, NEW tried, Thins(tried)
    PROVE  EntriesOK'
<1>1. \A i \in DOMAIN rows' : /\ i \in DOMAIN rows
                              /\ rows'[i].job = rows[i].job
                              /\ rows'[i].owner = rows[i].owner
  BY DEF Thins, Removed
<1>2. NoDir.parts \cup NoDir.blocks = {}
  BY DEF NoDir
<1>3. ASSUME NEW i \in Ids, NEW j \in Jobs, Holds(i, j)
      PROVE  staged'[i].parts \cup staged'[i].blocks \subseteq FilesOf(j)
  <2>1. staged'[i] = staged[i] \/ staged'[i] = NoDir
    BY DEF Thins, Removed
  <2> QED
    BY <1>2, <1>3, <2>1 DEF EntriesOK
<1> QED
  BY <1>1, <1>3, EntriesKept

\* Job j works on the files of its entry i.
LEMMA EntriesDisk ==
    ASSUME TypeOK, EntriesOK, HoldsKept, NEW i \in Ids, DiskStep(i),
           NEW j \in Jobs, Holds(i, j),
           staged'[i].parts \cup staged'[i].blocks \subseteq FilesOf(j)
    PROVE  EntriesOK'
<1>1. \A k \in DOMAIN rows' : /\ k \in DOMAIN rows
                              /\ rows'[k].job = rows[k].job
                              /\ rows'[k].owner = rows[k].owner
  BY DEF DiskStep
<1>2. ASSUME NEW k \in Ids, NEW m \in Jobs, Holds(k, m)
      PROVE  staged'[k].parts \cup staged'[k].blocks \subseteq FilesOf(m)
  <2>1. CASE k = i
    BY <1>2, <2>1 DEF EntriesOK
  <2>2. CASE k # i
    BY <1>2, <2>2 DEF EntriesOK, DiskStep
  <2> QED
    BY <2>1, <2>2
<1> QED
  BY <1>1, <1>2, EntriesKept

\* Nothing is taken up when threads only go on or rest, and clients keep
\* their entries.
LEMMA HoldsGoOn ==
    ASSUME \A i \in DOMAIN rows' : i \in DOMAIN rows /\ rows'[i].job = rows[i].job,
           \A t \in Threads : thr'[t].pc # "idle" =>
               /\ thr[t].pc # "idle"
               /\ thr'[t].id = thr[t].id /\ thr'[t].job = thr[t].job,
           \A j \in Jobs : client'[j].phase \notin {"new", "skipped"} =>
               Reserving(j) /\ client'[j].id = client[j].id
    PROVE  HoldsKept
<1>1. \A t \in Threads : thr'[t].pc # "idle" => Holds(thr'[t].id, thr'[t].job)
  BY DEF Holds
<1>2. \A j \in Jobs : client'[j].phase \notin {"new", "skipped"} => Holds(client'[j].id, j)
  BY DEF Holds
<1> QED
  BY <1>1, <1>2, HoldsStep DEF HoldsKept

-----------------------------------------------------------------------------
(* What the steps of uploads and commits do to files.                       *)

\* A request in progress is about an entry.
LEMMA IdOfThread ==
    ASSUME TypeOK, ProtocolOK, NEW t \in Threads, thr[t].pc # "idle"
    PROVE  /\ thr[t].id \in Ids /\ thr[t].id \in 1 .. seq
           /\ thr[t].job \in Jobs
           /\ Holds(thr[t].id, thr[t].job)
           /\ staged[thr[t].id] \in Dir
           /\ blob[thr[t].id] \in Seq(Int)
<1>1. thr[t].id \in 1 .. seq /\ thr[t].job \in Jobs
  BY DEF ProtocolOK, ThreadsOK, TypeOK, Thread
<1>2. thr[t].id \in Ids
  BY <1>1, MaxIdAssumption DEF TypeOK, Ids
<1>3. Holds(thr[t].id, thr[t].job)
  BY DEF Holds
<1> QED
  BY <1>1, <1>2, <1>3 DEF TypeOK

\* The file of part n is created empty in place of what had its name.
PutFile(files, n) == (files \ {n, -n}) \cup {-n}

\* Its last byte arrives.
FillFiles(files, n) == {IF m = -n THEN n ELSE m : m \in files}
FillHead(f, n) == IF f # <<>> /\ Head(f) = -n THEN <<n>> \o Tail(f) ELSE f

\* What creating a part's file changes.
LEMMA WriteCreateMoves ==
    ASSUME TypeOK, ProtocolOK, NEW t \in Threads, WriteCreate(t)
    PROVE  LET i == thr[t].id
               n == thr[t].part
           IN  /\ DiskStep(i)
               /\ blob' = blob
               /\ i \in DOMAIN rows \cup stray'
               /\ \/ /\ staged'[i].parts = staged[i].parts
                     /\ staged'[i].blocks = PutFile(staged[i].blocks, n)
                  \/ /\ staged'[i].parts = PutFile(staged[i].parts, n)
                     /\ staged'[i].blocks = staged[i].blocks
               /\ GoesOn(t, "copy")
               /\ thr'[t].left = thr[t].left /\ thr'[t].file = thr[t].file
               /\ client' = client /\ url' = url
<1> DEFINE i == thr[t].id
           n == thr[t].part
           j == thr[t].job
<1>1. thr[t].pc = "create"
  BY DEF WriteCreate
<1>2. i \in Ids /\ i \in 1 .. seq /\ staged[i] \in Dir /\ staged \in [Ids -> Dir]
  BY <1>1, IdOfThread DEF TypeOK
<1>3. n \in Int
  BY DEF TypeOK, Thread
<1> DEFINE dir == [dir |-> TRUE,
                   parts |-> IF InBlocks(j) THEN staged[i].parts
                             ELSE PutFile(staged[i].parts, n),
                   blocks |-> IF InBlocks(j) THEN PutFile(staged[i].blocks, n)
                              ELSE staged[i].blocks,
                   listed |-> staged[i].listed]
<1>4. dir \in Dir
  <2>1. staged[i].parts \in SUBSET Int /\ staged[i].blocks \in SUBSET Int
        /\ staged[i].listed \in BOOLEAN
    BY <1>2 DEF Dir
  <2>2. PutFile(staged[i].parts, n) \in SUBSET Int /\ PutFile(staged[i].blocks, n) \in SUBSET Int
    BY <1>3, <2>1 DEF PutFile
  <2> QED
    BY <2>1, <2>2 DEF Dir
<1>5. staged' = [staged EXCEPT ![i] = dir]
  BY <1>2 DEF WriteCreate, PutFile, Dir
<1>6. stray' = stray \cup ({i} \ DOMAIN rows)
  BY DEF WriteCreate
<1>7. UNCHANGED <<rows, seq, blob, half, client, url>>
  BY DEF WriteCreate
<1>8. DiskStep(i)
  <2> HIDE DEF dir, i
  <2>1. staged' \in [Ids -> Dir] /\ \A k \in Ids \ {i} : staged'[k] = staged[k]
    BY <1>2, <1>4, <1>5
  <2>2. stray \subseteq stray' /\ stray' \subseteq 1 .. seq
    BY <1>2, <1>6 DEF TypeOK
  <2> QED
    BY <2>1, <2>2, <1>7 DEF DiskStep, TypeOK
<1>9. staged'[i] = dir
  BY <1>2, <1>5
<1>10. /\ GoesOn(t, "copy")
       /\ thr'[t].left = thr[t].left /\ thr'[t].file = thr[t].file
  <2>1. Goes(t, "copy") /\ "copy" \in Moves
    BY DEF WriteCreate, Moves, UploadPcs
  <2> QED
    BY <2>1, GoesKeeps
<1> QED
  BY <1>6, <1>7, <1>8, <1>9, <1>10

\* What the last byte of a part changes.
LEMMA WriteDoneMoves ==
    ASSUME TypeOK, ProtocolOK, NEW t \in Threads, WriteDone(t)
    PROVE  LET i == thr[t].id
               n == thr[t].part
               j == thr[t].job
           IN  /\ DiskStep(i) /\ stray' = stray /\ url' = url
               /\ staged'[i].parts = FillFiles(staged[i].parts, n)
               /\ staged'[i].blocks = FillFiles(staged[i].blocks, n)
               /\ blob'[i] = FillHead(blob[i], n)
               /\ OthersWait(t)
               /\ \A u \in Threads \ {t} :
                     /\ thr'[u].left = thr[u].left
                     /\ thr'[u].file = IF thr[u].id = i THEN FillHead(thr[u].file, n)
                                       ELSE thr[u].file
               /\ \/ /\ thr'[t].pc = "touch" /\ thr'[t].job = j
                     /\ thr'[t].id = i /\ thr'[t].part = n
                     /\ thr'[t].live = thr[t].live
                     /\ client' = client
                  \/ /\ thr'[t] = Idle
                     /\ \/ client' = client
                        \/ thr[t].live /\ Hears(j, client[j].phase, client[j].acked \cup {n})
<1> DEFINE i == thr[t].id
           n == thr[t].part
           j == thr[t].job
           v1 == ApiOf[thr[t].job] = "v1"
           answered == IF v1 THEN [thr EXCEPT ![t].pc = "touch"]
                       ELSE [thr EXCEPT ![t] = Idle]
<1>1. thr[t].pc = "copy"
  BY DEF WriteDone
<1>2. /\ i \in Ids /\ i \in 1 .. seq /\ staged[i] \in Dir /\ staged \in [Ids -> Dir]
      /\ blob[i] \in Seq(Int) /\ blob \in [Ids -> Seq(Int)] /\ j \in Jobs
  BY <1>1, IdOfThread DEF TypeOK
<1>3. n \in Int /\ thr \in [Threads -> Thread] /\ thr[t] \in Thread
  BY DEF TypeOK, Thread
<1>4. ASSUME NEW f \in Seq(Int)
      PROVE  FillHead(f, n) \in Seq(Int)
  <2>1. CASE f # <<>> /\ Head(f) = -n
    <3>1. Tail(f) \in Seq(Int) /\ <<n>> \in Seq(Int)
      BY <2>1, <1>3
    <3>2. <<n>> \o Tail(f) \in Seq(Int)
      BY <3>1
    <3> QED
      BY <3>2, <2>1 DEF FillHead
  <2> QED
    BY <2>1 DEF FillHead
<1> DEFINE dir == [dir |-> staged[i].dir,
                   parts |-> FillFiles(staged[i].parts, n),
                   blocks |-> FillFiles(staged[i].blocks, n),
                   listed |-> staged[i].listed]
<1>5. dir \in Dir
  <2>1. staged[i].parts \in SUBSET Int /\ staged[i].blocks \in SUBSET Int
        /\ staged[i].listed \in BOOLEAN /\ staged[i].dir \in BOOLEAN
    BY <1>2 DEF Dir
  <2>2. FillFiles(staged[i].parts, n) \in SUBSET Int /\ FillFiles(staged[i].blocks, n) \in SUBSET Int
    BY <1>3, <2>1 DEF FillFiles
  <2> QED
    BY <2>1, <2>2 DEF Dir
<1>6. staged' = [staged EXCEPT ![i] = dir]
  BY <1>2 DEF WriteDone, FillFiles, Dir
<1>7. blob' = [blob EXCEPT ![i] = FillHead(blob[i], n)]
  BY <1>2 DEF WriteDone, FillHead
<1>8. thr' = [u \in Threads |->
                IF thr[u].id = i
                THEN [answered[u] EXCEPT !.file = FillHead(answered[u].file, n)]
                ELSE answered[u]]
  BY DEF WriteDone, FillHead
<1>9. client' = IF v1 \/ ~thr[t].live THEN client
                ELSE [client EXCEPT ![j].acked = @ \cup {n}]
  BY DEF WriteDone
<1>10. UNCHANGED <<rows, seq, half, stray, url>>
  BY DEF WriteDone, history
<1>11. DiskStep(i)
  <2> HIDE DEF dir, i
  <2>1. staged' \in [Ids -> Dir] /\ \A k \in Ids \ {i} : staged'[k] = staged[k]
    BY <1>2, <1>5, <1>6
  <2>2. blob' \in [Ids -> Seq(Int)] /\ \A k \in Ids \ {i} : blob'[k] = blob[k]
    BY <1>2, <1>4, <1>7
  <2> QED
    BY <2>1, <2>2, <1>10 DEF DiskStep, TypeOK
<1>12. staged'[i] = dir /\ blob'[i] = FillHead(blob[i], n)
  BY <1>2, <1>6, <1>7
<1>13. \A u \in Threads : thr[u] \in Thread /\ answered[u] \in Thread
  <2>1. [thr[t] EXCEPT !.pc = "touch"] \in Thread
    BY <1>3 DEF Thread, UploadPcs
  <2>2. \A u \in Threads : thr[u] \in Thread
    BY <1>3
  <2> QED
    BY <1>3, <2>1, <2>2, IdleIsThread
<1>14. \A u \in Threads \ {t} : answered[u] = thr[u]
  BY <1>3
<1>15. thr' \in [Threads -> Thread]
  <2> SUFFICES ASSUME NEW u \in Threads
               PROVE  thr'[u] \in Thread
    BY <1>8
  <2> DEFINE a == answered[u]
  <2>1. a \in Thread
    BY <1>13
  <2> HIDE DEF a
  <2>2. FillHead(a.file, n) \in Seq(Int)
    BY <2>1, <1>4 DEF Thread
  <2>3. [a EXCEPT !.file = FillHead(a.file, n)] \in Thread
    BY <2>1, <2>2 DEF Thread
  <2> QED
    BY <1>8, <2>1, <2>3 DEF a
<1>16. ASSUME NEW u \in Threads \ {t}
       PROVE  /\ SameRequest(u)
              /\ thr'[u].left = thr[u].left
              /\ thr'[u].file = IF thr[u].id = i THEN FillHead(thr[u].file, n)
                                ELSE thr[u].file
  <2>1. thr[u] \in Thread /\ answered[u] = thr[u]
    BY <1>13, <1>14
  <2>2. thr'[u] = IF thr[u].id = i
                  THEN [thr[u] EXCEPT !.file = FillHead(thr[u].file, n)]
                  ELSE thr[u]
    BY <1>8, <2>1
  <2> QED
    BY <2>1, <2>2 DEF SameRequest, Thread
<1>17. CASE v1
  <2>1. answered[t] = [thr[t] EXCEPT !.pc = "touch"]
    BY <1>17, <1>3
  <2>2. thr'[t] = [answered[t] EXCEPT !.file = FillHead(answered[t].file, n)]
    BY <1>8
  <2>3. /\ thr'[t].pc = "touch" /\ thr'[t].job = j
        /\ thr'[t].id = i /\ thr'[t].part = n
        /\ thr'[t].live = thr[t].live
    BY <2>1, <2>2, <1>3 DEF Thread
  <2> QED
    BY <2>3, <1>9, <1>10, <1>11, <1>12, <1>15, <1>16, <1>17 DEF OthersWait
<1>18. CASE ~v1
  <2>1. answered[t] = Idle
    BY <1>18, <1>3
  <2>2. thr'[t] = [Idle EXCEPT !.file = FillHead(Idle.file, n)]
    BY <1>8, <2>1
  <2>3. Idle.file = <<>> /\ FillHead(<<>>, n) = <<>>
    BY DEF Idle, FillHead
  <2>4. thr'[t] = Idle
    BY <2>2, <2>3 DEF Idle
  <2>5. client' = client \/ (thr[t].live /\ Hears(j, client[j].phase, client[j].acked \cup {n}))
    BY <1>2, <1>3, <1>9, <1>18, HearsPart
  <2> QED
    BY <2>4, <2>5, <1>10, <1>11, <1>12, <1>15, <1>16 DEF OthersWait
<1> QED
  BY <1>17, <1>18

\* What a failed copy changes.
LEMMA WriteFailsMoves ==
    ASSUME TypeOK, ProtocolOK, NEW t \in Threads, WriteFails(t)
    PROVE  LET i == thr[t].id
               n == thr[t].part
           IN  /\ DiskStep(i) /\ blob' = blob /\ stray' = stray /\ url' = url
               /\ staged'[i].parts \in {staged[i].parts, staged[i].parts \ {n, -n}}
               /\ staged'[i].blocks \in {staged[i].blocks, staged[i].blocks \ {n, -n}}
               /\ FailsMove(t)
<1> DEFINE i == thr[t].id
           n == thr[t].part
<1>1. thr[t].pc = "copy"
  BY DEF WriteFails
<1>2. /\ i \in Ids /\ staged[i] \in Dir /\ staged \in [Ids -> Dir]
  BY <1>1, IdOfThread DEF TypeOK
<1>3. FailsMove(t)
  BY FailsMoves DEF WriteFails
<1>4. UNCHANGED <<rows, seq, half, stray, url, blob>>
  BY DEF WriteFails, history
<1>5. /\ [staged[i] EXCEPT !.blocks = @ \ {n, -n}] \in Dir
      /\ [staged[i] EXCEPT !.parts = @ \ {n, -n}] \in Dir
  BY <1>2 DEF Dir
<1>6. \/ staged' = [staged EXCEPT ![i].blocks = @ \ {n, -n}]
      \/ staged' = [staged EXCEPT ![i].parts = @ \ {n, -n}]
  BY DEF WriteFails
<1> HIDE DEF i
<1>7. /\ staged' \in [Ids -> Dir] /\ \A k \in Ids \ {i} : staged'[k] = staged[k]
      /\ staged'[i].parts \in {staged[i].parts, staged[i].parts \ {n, -n}}
      /\ staged'[i].blocks \in {staged[i].blocks, staged[i].blocks \ {n, -n}}
  BY <1>2, <1>5, <1>6 DEF Dir
<1>8. DiskStep(i)
  BY <1>4, <1>7 DEF DiskStep, TypeOK
<1> QED
  BY <1>3, <1>4, <1>7, <1>8 DEF i

\* What a list of blocks does to the files: none is lost or torn.
LEMMA OrderBlocksMoves ==
    ASSUME TypeOK, ProtocolOK, NEW t \in Threads, OrderBlocks(t)
    PROVE  LET i == thr[t].id
               j == thr[t].job
           IN  /\ DiskStep(i) /\ blob' = blob /\ stray' = stray /\ url' = url
               /\ staged'[i].parts \cup staged'[i].blocks \subseteq StagedFiles(i)
               /\ \A p \in 1 .. PartsOf[j] :
                     /\ p \in StagedFiles(i) /\ -p \notin StagedFiles(i) =>
                           p \in staged'[i].parts \cup staged'[i].blocks
                     /\ Named(StagedFiles(i), p) # {} =>
                           Named(staged'[i].parts \cup staged'[i].blocks, p) # {}
               /\ Answers(t, "acked") \/ FailsMove(t)
<1> DEFINE i == thr[t].id
           j == thr[t].job
           missing == {n \in 1 .. PartsOf[j] : Named(staged[i].blocks, n) = {}}
           before == {b \in staged[i].blocks : \A m \in missing : b < m /\ -b < m}
           other  == {p \in staged[i].parts : Named(before, p) = {}}
<1>1. thr[t].pc = "order"
  BY DEF OrderBlocks
<1>2. i \in Ids /\ staged[i] \in Dir /\ staged \in [Ids -> Dir] /\ j \in Jobs
  BY <1>1, IdOfThread DEF TypeOK
<1>3. UNCHANGED <<rows, seq, half, stray, url, blob>>
  BY DEF OrderBlocks, history
<1>4. /\ staged[i].parts \in SUBSET Int /\ staged[i].blocks \in SUBSET Int
      /\ staged[i].dir \in BOOLEAN /\ staged[i].listed \in BOOLEAN
  BY <1>2 DEF Dir
<1>5. before \subseteq staged[i].blocks /\ other \subseteq staged[i].parts
  OBVIOUS
<1>6. \A d \in Dir : staged' = [staged EXCEPT ![i] = d] => staged'[i] = d /\ DiskStep(i)
  <2> SUFFICES ASSUME NEW d \in Dir, staged' = [staged EXCEPT ![i] = d]
               PROVE  staged'[i] = d /\ DiskStep(i)
    OBVIOUS
  <2> HIDE DEF i
  <2> QED
    BY <1>2, <1>3 DEF DiskStep, TypeOK
<1>7. CASE staged' = staged /\ Answers(t, "acked")
  <2>1. DiskStep(i)
    BY <1>3, <1>7 DEF DiskStep, TypeOK
  <2> QED
    BY <1>3, <1>7, <2>1 DEF StagedFiles
<1>8. CASE /\ missing = {}
           /\ staged' = [staged EXCEPT ![i] = [dir |-> @.dir, parts |-> @.blocks,
                                               blocks |-> {}, listed |-> TRUE]]
           /\ Answers(t, "acked")
  <2> DEFINE d == [dir |-> staged[i].dir, parts |-> staged[i].blocks,
                   blocks |-> {}, listed |-> TRUE]
  <2>1. d \in Dir
    BY <1>4 DEF Dir
  <2>2. staged' = [staged EXCEPT ![i] = d]
    BY <1>8
  <2>3. staged'[i] = d /\ DiskStep(i)
    BY <1>6, <2>1, <2>2
  <2>4. staged'[i].parts = staged[i].blocks /\ staged'[i].blocks = {}
    BY <2>3
  <2>5. \A p \in 1 .. PartsOf[j] : Named(staged[i].blocks, p) # {}
    BY <1>8
  <2> QED
    BY <1>3, <1>8, <2>3, <2>4, <2>5 DEF StagedFiles, Named
<1>9. CASE /\ staged' = [staged EXCEPT ![i] =
                           [dir |-> @.dir, parts |-> other \cup before,
                            blocks |-> @.blocks \ before, listed |-> @.listed]]
           /\ Fails(t)
  <2> DEFINE d == [dir |-> staged[i].dir, parts |-> other \cup before,
                   blocks |-> staged[i].blocks \ before, listed |-> staged[i].listed]
  <2>1. other \cup before \in SUBSET Int /\ staged[i].blocks \ before \in SUBSET Int
    BY <1>4, <1>5
  <2>2. d \in Dir
    BY <1>4, <2>1 DEF Dir
  <2>3. staged' = [staged EXCEPT ![i] = d]
    BY <1>9
  <2>4. staged'[i] = d /\ DiskStep(i)
    BY <1>6, <2>2, <2>3
  <2>5. staged'[i].parts = other \cup before /\ staged'[i].blocks = staged[i].blocks \ before
    BY <2>4
  <2>6. \A p \in staged[i].parts : p \in other \/ Named(before, p) # {}
    OBVIOUS
  <2>7. FailsMove(t)
    BY <1>9, FailsMoves
  <2> HIDE DEF before, other, missing, d
  <2>8. staged'[i].parts \cup staged'[i].blocks \subseteq StagedFiles(i)
    BY <1>5, <2>5 DEF StagedFiles
  <2>9. StagedFiles(i) = staged[i].parts \cup staged[i].blocks
    BY DEF StagedFiles
  <2>10. ASSUME NEW p \in 1 .. PartsOf[j]
         PROVE  /\ p \in StagedFiles(i) /\ -p \notin StagedFiles(i) =>
                      p \in staged'[i].parts \cup staged'[i].blocks
                /\ Named(StagedFiles(i), p) # {} =>
                      Named(staged'[i].parts \cup staged'[i].blocks, p) # {}
    <3>1. p \in Int /\ -p \in Int /\ -(-p) = p
      BY PartsAssumption
    <3>2. \A q \in {p, -p} : q \in StagedFiles(i) =>
             q \in staged'[i].parts \cup staged'[i].blocks
               \/ Named(before, q) # {}
      BY <2>5, <2>6, <2>9
    <3>3. \A q \in {p, -p} : Named(before, q) = before \cap {p, -p}
      BY <3>1 DEF Named
    <3>4. before \cap {p, -p} \subseteq staged'[i].parts /\ before \subseteq StagedFiles(i)
      BY <1>5, <2>5, <2>9
    <3> QED
      BY <3>1, <3>2, <3>3, <3>4 DEF Named
  <2> QED
    BY <1>3, <2>4, <2>7, <2>8, <2>10
<1> QED
  BY <1>7, <1>8, <1>9 DEF OrderBlocks

-----------------------------------------------------------------------------

\* The error path of a commit.
LEMMA CommitUndoneMoves ==
    ASSUME TypeOK, ProtocolOK, NEW t \in Threads, thr[t].pc # "idle",
           CommitUndone(t), UNCHANGED <<rows, seq, half, stray>>
    PROVE  LET i == thr[t].id
           IN  /\ DiskStep(i) /\ blob'[i] = <<>> /\ staged'[i] = NoDir
               /\ FailsMove(t)
<1> DEFINE i == thr[t].id
<1>1. /\ i \in Ids /\ staged \in [Ids -> Dir] /\ blob \in [Ids -> Seq(Int)]
  BY IdOfThread DEF TypeOK
<1>2. FailsMove(t)
  BY FailsMoves DEF CommitUndone
<1>3. /\ blob' = [blob EXCEPT ![i] = <<>>]
      /\ staged' = [staged EXCEPT ![i] = NoDir]
  BY DEF CommitUndone
<1>4. NoDir \in Dir /\ <<>> \in Seq(Int)
  BY DEF NoDir, Dir
<1> HIDE DEF i
<1>5. /\ blob' \in [Ids -> Seq(Int)] /\ staged' \in [Ids -> Dir]
      /\ blob'[i] = <<>> /\ staged'[i] = NoDir
      /\ \A k \in Ids \ {i} : blob'[k] = blob[k] /\ staged'[k] = staged[k]
  BY <1>1, <1>3, <1>4
<1>6. DiskStep(i)
  BY <1>5 DEF DiskStep, TypeOK
<1> QED
  BY <1>2, <1>5, <1>6 DEF i

\* A commit lists the files it is to take.
LEMMA CommitListMoves ==
    ASSUME TypeOK, ProtocolOK, NEW t \in Threads, CommitList(t)
    PROVE  /\ thr[t].pc = "list"
           /\ UNCHANGED <<rows, seq, blob, staged, half, stray, url>>
           /\ \/ /\ GoesOn(t, "rename")
                 /\ thr'[t].left = {Size(n) : n \in staged[thr[t].id].parts}
                 /\ client' = client
              \/ FailsMove(t)
<1>1. /\ thr[t].pc = "list"
      /\ UNCHANGED <<rows, seq, blob, staged, half, stray, url>>
  BY DEF CommitList, disk, history
<1>2. CASE CommitFails(t)
  BY <1>1, <1>2, FailsMoves
<1>3. CASE ~CommitFails(t)
  <2> DEFINE names == {Size(n) : n \in staged[thr[t].id].parts}
  <2>1. /\ thr' = [thr EXCEPT ![t].pc = "rename", ![t].left = names]
        /\ client' = client
    BY <1>3 DEF CommitList, Size
  <2>2. names \in SUBSET Int
    <3>1. staged[thr[t].id].parts \in SUBSET Int
      BY <1>1, IdOfThread DEF Dir
    <3> QED
      BY <3>1 DEF Size
  <2>3. thr \in [Threads -> Thread] /\ thr[t] \in Thread
    BY DEF TypeOK
  <2> HIDE DEF names
  <2>4. /\ GoesOn(t, "rename")
        /\ thr'[t].left = names
    BY <2>1, <2>2, <2>3 DEF GoesOn, OnlyThread, Thread, CommitPcs
  <2> QED
    BY <1>1, <2>1, <2>4 DEF names
<1> QED
  BY <1>2, <1>3

\* The next file a commit takes is that of the least name it has left.
Takes(t, n) ==
    /\ n \in staged[thr[t].id].parts
    /\ \E m \in thr[t].left : n \in {m, -m} /\ \A k \in thr[t].left : m <= k
    /\ thr'[t].left = thr[t].left \ {n, -n}
    /\ staged'[thr[t].id].parts = staged[thr[t].id].parts \ {n}
    /\ staged'[thr[t].id].blocks = staged[thr[t].id].blocks

\* It renames the first of them.
LEMMA CommitRenameMoves ==
    ASSUME TypeOK, ProtocolOK, NEW t \in Threads, CommitRename(t)
    PROVE  LET i == thr[t].id
           IN  /\ thr[t].pc = "rename"
               /\ DiskStep(i) /\ stray' = stray /\ url' = url
               /\ \/ /\ GoesOn(t, "append") /\ client' = client
                     /\ \E n \in Int : /\ Takes(t, n)
                                       /\ thr'[t].file = <<n>>
                                       /\ blob'[i] = <<n>>
                  \/ FailsMove(t) /\ blob'[i] = <<>> /\ staged'[i] = NoDir
<1> DEFINE i == thr[t].id
<1>1. thr[t].pc = "rename" /\ UNCHANGED <<rows, seq, half, stray, url>>
  BY DEF CommitRename, history
<1>2. /\ i \in Ids /\ staged[i] \in Dir
      /\ staged \in [Ids -> Dir] /\ blob \in [Ids -> Seq(Int)]
      /\ thr \in [Threads -> Thread] /\ thr[t] \in Thread
  BY <1>1, IdOfThread DEF TypeOK
<1>3. CASE CommitUndone(t)
  BY <1>1, <1>3, CommitUndoneMoves
<1>4. CASE ~CommitUndone(t)
  <2>1. PICK n \in FirstOf(staged[i].parts, thr[t].left) :
          /\ blob' = [blob EXCEPT ![i] = <<n>>]
          /\ staged' = [staged EXCEPT ![i].parts = @ \ {n}]
          /\ thr' = [thr EXCEPT ![t].pc = "append", ![t].file = <<n>>,
                                ![t].left = @ \ {n, -n}]
          /\ client' = client
    BY <1>4 DEF CommitRename
  <2>2. /\ n \in staged[i].parts /\ n \in Int
        /\ \E m \in thr[t].left : n \in {m, -m} /\ \A k \in thr[t].left : m <= k
    BY <1>2 DEF FirstOf, Named, Dir
  <2>3. <<n>> \in Seq(Int)
    BY <2>2
  <2>4. [staged[i] EXCEPT !.parts = @ \ {n}] \in Dir
    BY <1>2 DEF Dir
  <2>5. PICK file \in Seq(Int) : file = <<n>>
    BY <2>3
  <2>6. PICK left \in SUBSET Int : left = thr[t].left \ {n, -n}
    BY <1>2 DEF Thread
  <2>7. thr' = [thr EXCEPT ![t].pc = "append", ![t].file = file, ![t].left = left]
    BY <2>1, <2>5, <2>6, <1>2
  <2>8. GoesOn(t, "append") /\ thr'[t].left = left /\ thr'[t].file = file
    BY <1>2, <2>7 DEF GoesOn, OnlyThread, Thread, CommitPcs
  <2> HIDE DEF i
  <2>9. /\ staged' \in [Ids -> Dir] /\ blob' \in [Ids -> Seq(Int)]
        /\ \A k \in Ids \ {i} : blob'[k] = blob[k] /\ staged'[k] = staged[k]
        /\ blob'[i] = <<n>>
        /\ staged'[i].parts = staged[i].parts \ {n}
        /\ staged'[i].blocks = staged[i].blocks
    BY <1>2, <2>1, <2>3, <2>4 DEF Dir
  <2>10. DiskStep(i)
    BY <1>1, <2>9 DEF DiskStep, TypeOK
  <2> QED
    BY <1>1, <2>1, <2>2, <2>5, <2>6, <2>8, <2>9, <2>10 DEF Takes, i
<1> QED
  BY <1>3, <1>4

\* It appends the next one.
LEMMA CommitAppendMoves ==
    ASSUME TypeOK, ProtocolOK, NEW t \in Threads, CommitAppend(t)
    PROVE  LET i == thr[t].id
           IN  /\ thr[t].pc = "append"
               /\ DiskStep(i) /\ stray' = stray /\ url' = url
               /\ \/ /\ GoesOn(t, "append") /\ client' = client
                     /\ \E n \in Int :
                          /\ Takes(t, n)
                          /\ thr'[t].file = Append(thr[t].file, n)
                          /\ blob'[i] = IF blob[i] # <<>> /\ Head(blob[i]) = Head(thr[t].file)
                                        THEN Append(thr[t].file, n) ELSE blob[i]
                  \/ FailsMove(t) /\ blob'[i] = <<>> /\ staged'[i] = NoDir
<1> DEFINE i == thr[t].id
           sameFile == blob[i] # <<>> /\ Head(blob[i]) = Head(thr[t].file)
<1>1. thr[t].pc = "append" /\ UNCHANGED <<rows, seq, half, stray, url>>
  BY DEF CommitAppend, history
<1>2. /\ i \in Ids /\ staged[i] \in Dir /\ blob[i] \in Seq(Int)
      /\ staged \in [Ids -> Dir] /\ blob \in [Ids -> Seq(Int)]
      /\ thr \in [Threads -> Thread] /\ thr[t] \in Thread
  BY <1>1, IdOfThread DEF TypeOK
<1>3. CASE CommitUndone(t)
  BY <1>1, <1>3, CommitUndoneMoves
<1>4. CASE ~CommitUndone(t)
  <2>1. PICK n \in FirstOf(staged[i].parts, thr[t].left) :
          /\ blob' = [blob EXCEPT ![i] = IF sameFile THEN Append(thr[t].file, n) ELSE @]
          /\ staged' = [staged EXCEPT ![i].parts = @ \ {n}]
          /\ thr' = [thr EXCEPT ![t].file = Append(@, n), ![t].left = @ \ {n, -n}]
          /\ client' = client
    BY <1>4 DEF CommitAppend
  <2>2. /\ n \in staged[i].parts /\ n \in Int
        /\ \E m \in thr[t].left : n \in {m, -m} /\ \A k \in thr[t].left : m <= k
    BY <1>2 DEF FirstOf, Named, Dir
  <2>3. PICK file \in Seq(Int) : file = Append(thr[t].file, n)
    <3>1. thr[t].file \in Seq(Int)
      BY <1>2 DEF Thread
    <3>2. Append(thr[t].file, n) \in Seq(Int)
      BY <2>2, <3>1, AppendProperties
    <3> QED
      BY <3>2
  <2>4. [staged[i] EXCEPT !.parts = @ \ {n}] \in Dir
    BY <1>2 DEF Dir
  <2>5. PICK left \in SUBSET Int : left = thr[t].left \ {n, -n}
    BY <1>2 DEF Thread
  <2>6. PICK bytes \in Seq(Int) : bytes = IF sameFile THEN file ELSE blob[i]
    BY <1>2, <2>3
  <2>7. thr' = [thr EXCEPT ![t].file = file, ![t].left = left]
    BY <2>1, <2>3, <2>5, <1>2
  <2>8. blob' = [blob EXCEPT ![i] = bytes]
    BY <2>1, <2>3, <2>6, <1>2
  <2>9. GoesOn(t, "append") /\ thr'[t].left = left /\ thr'[t].file = file
    BY <1>1, <1>2, <2>7 DEF GoesOn, OnlyThread, Thread
  <2> HIDE DEF i, sameFile
  <2>10. /\ staged' \in [Ids -> Dir] /\ blob' \in [Ids -> Seq(Int)]
         /\ \A k \in Ids \ {i} : blob'[k] = blob[k] /\ staged'[k] = staged[k]
         /\ blob'[i] = bytes
         /\ staged'[i].parts = staged[i].parts \ {n}
         /\ staged'[i].blocks = staged[i].blocks
    BY <1>2, <2>1, <2>8, <2>4 DEF Dir
  <2>11. DiskStep(i)
    BY <1>1, <2>10 DEF DiskStep, TypeOK
  <2>12. Takes(t, n)
    BY <2>2, <2>5, <2>9, <2>10 DEF Takes, i
  <2>13. /\ thr'[t].file = Append(thr[t].file, n)
         /\ blob'[i] = IF blob[i] # <<>> /\ Head(blob[i]) = Head(thr[t].file)
                       THEN Append(thr[t].file, n) ELSE blob[i]
    BY <2>3, <2>6, <2>9, <2>10, Zenon DEF sameFile
  <2>14. n \in Int /\ client' = client
    BY <2>1, <2>2
  <2> QED
    BY <1>1, <2>9, <2>11, <2>12, <2>13, <2>14, Zenon DEF i
<1> QED
  BY <1>3, <1>4

\* It checks the size.
LEMMA CommitStatMoves ==
    ASSUME TypeOK, ProtocolOK, NEW t \in Threads, CommitStat(t)
    PROVE  LET i == thr[t].id
           IN  /\ thr[t].pc = "append"
               /\ DiskStep(i) /\ stray' = stray /\ url' = url /\ staged'[i] = NoDir
               /\ \/ /\ GoesOn(t, "save") /\ client' = client
                     /\ SizeRight(t) /\ thr[t].left = {}
                     /\ thr'[t].left = thr[t].left /\ thr'[t].file = thr[t].file
                     /\ blob' = blob
                  \/ FailsMove(t) /\ blob'[i] = <<>>
<1> DEFINE i == thr[t].id
<1>1. thr[t].pc = "append" /\ UNCHANGED <<rows, seq, half, stray, url>>
  BY DEF CommitStat, history
<1>2. /\ i \in Ids /\ staged[i] \in Dir
      /\ staged \in [Ids -> Dir] /\ blob \in [Ids -> Seq(Int)]
  BY <1>1, IdOfThread DEF TypeOK
<1>3. CASE CommitUndone(t)
  BY <1>1, <1>3, CommitUndoneMoves
<1>4. CASE ~CommitUndone(t)
  <2>1. /\ SizeRight(t) /\ thr[t].left = {}
        /\ staged' = [staged EXCEPT ![i] = NoDir]
        /\ Goes(t, "save")
        /\ blob' = blob /\ client' = client
    BY <1>4 DEF CommitStat
  <2>2. NoDir \in Dir /\ "save" \in Moves
    BY DEF NoDir, Dir, Moves, CommitPcs
  <2>3. GoesOn(t, "save") /\ thr'[t].left = thr[t].left /\ thr'[t].file = thr[t].file
    BY <2>1, <2>2, GoesKeeps
  <2> HIDE DEF i
  <2>4. /\ staged' \in [Ids -> Dir] /\ staged'[i] = NoDir
        /\ \A k \in Ids \ {i} : staged'[k] = staged[k]
    BY <1>2, <2>1, <2>2
  <2>5. DiskStep(i)
    BY <1>1, <2>1, <2>4 DEF DiskStep, TypeOK
  <2> QED
    BY <1>1, <2>1, <2>3, <2>4, <2>5 DEF i
<1> QED
  BY <1>3, <1>4

-----------------------------------------------------------------------------
(* StagingOK.                                                               *)

\* Steps that move no file of a job that counts on its parts.
LEMMA StagingKept ==
    ASSUME TypeOK, ProtocolOK, StagingOK,
           thr' \in [Threads -> Thread],
           \A j \in Jobs : client'[j].phase = "up" =>
              \/ /\ client'[j].acked = {}
                 /\ \A t \in Threads : thr'[t].pc \in {"copy", "touch"} => thr'[t].job # j
              \/ /\ client[j].phase = "up"
                 /\ client'[j].id = client[j].id
                 /\ client[j].resent \subseteq client'[j].resent
                 /\ client[j].id \in DOMAIN rows' \ half' =>
                       /\ client[j].id \in DOMAIN rows \ half
                       /\ staged'[client[j].id] = staged[client[j].id],
           \A j \in Jobs : \A p \in client'[j].acked :
              p \in client[j].acked \/ p = 0 \/ (Counts(j, p) => IsStaged(client[j].id, p)),
           \A t \in Threads : thr'[t].live /\ thr'[t].pc \in {"copy", "touch"} =>
              thr[t].live /\ SameRequest(t)
    PROVE  StagingOK'
<1>1. ASSUME NEW j \in Jobs, NEW p \in client'[j].acked, Counts(j, p)'
      PROVE  IsStaged(client[j].id, p)'
  <2>1. /\ client'[j].phase = "up" /\ client'[j].id \in DOMAIN rows' \ half'
        /\ p \notin client'[j].resent \cup {0}
    BY <1>1 DEF Counts
  <2>2. /\ client[j].phase = "up" /\ client'[j].id = client[j].id
        /\ client[j].resent \subseteq client'[j].resent
        /\ client[j].id \in DOMAIN rows \ half
        /\ staged'[client[j].id] = staged[client[j].id]
    BY <2>1, <1>1
  <2>3. Counts(j, p)
    BY <2>1, <2>2 DEF Counts
  <2>4. IsStaged(client[j].id, p)
    BY <2>1, <2>3 DEF StagingOK
  <2> QED
    BY <2>2, <2>4 DEF IsStaged, StagedFiles
<1>2. ASSUME NEW t \in Threads, thr'[t].live, Counts(thr[t].job, thr[t].part)',
             thr'[t].pc \in {"copy", "touch"}
      PROVE  /\ thr'[t].pc = "copy" => (Named(StagedFiles(thr[t].id), thr[t].part) # {})'
             /\ thr'[t].pc = "touch" => IsStaged(thr[t].id, thr[t].part)'
  <2>1. thr[t].live /\ SameRequest(t)
    BY <1>2
  <2> DEFINE j == thr[t].job
  <2>2. j \in Jobs /\ thr'[t].job = j /\ thr'[t].part = thr[t].part /\ thr'[t].id = thr[t].id
        /\ thr'[t].pc = thr[t].pc
    BY <2>1 DEF SameRequest, TypeOK, Thread
  <2>3. thr[t].id = client[j].id
    BY <1>2, <2>2 DEF ProtocolOK, RequestsOK, UploadPcs
  <2>4. /\ client'[j].phase = "up" /\ client'[j].id \in DOMAIN rows' \ half'
        /\ thr[t].part \notin client'[j].resent \cup {0}
    BY <1>2, <2>2 DEF Counts
  <2>5. /\ client[j].phase = "up" /\ client'[j].id = client[j].id
        /\ client[j].resent \subseteq client'[j].resent
        /\ client[j].id \in DOMAIN rows \ half
        /\ staged'[client[j].id] = staged[client[j].id]
    BY <2>4, <2>2, <1>2
  <2>6. Counts(thr[t].job, thr[t].part)
    BY <2>4, <2>5 DEF Counts
  <2>7. /\ thr[t].pc = "copy" => Named(StagedFiles(thr[t].id), thr[t].part) # {}
        /\ thr[t].pc = "touch" => IsStaged(thr[t].id, thr[t].part)
    BY <2>1, <2>6 DEF StagingOK
  <2>8. (Named(StagedFiles(thr[t].id), thr[t].part) # {})'
           <=> Named(StagedFiles(thr[t].id), thr[t].part) # {}
    BY <2>2, <2>3, <2>5 DEF StagedFiles
  <2>9. IsStaged(thr[t].id, thr[t].part)' <=> IsStaged(thr[t].id, thr[t].part)
    BY <2>2, <2>3, <2>5 DEF StagedFiles, IsStaged
  <2> QED
    BY <2>2, <2>7, <2>8, <2>9
<1> QED
  BY <1>1, <1>2 DEF StagingOK

\* The entry a client counts on is not one another job works on.
LEMMA OwnEntry ==
    ASSUME TypeOK, ProtocolOK, EntriesOK, NEW t \in Threads, thr[t].pc # "idle",
           NEW j \in Jobs, client[j].phase = "up", client[j].id = thr[t].id
    PROVE  j = thr[t].job
<1>1. Holds(thr[t].id, thr[t].job) /\ thr[t].id \in Ids /\ thr[t].job \in Jobs
  BY IdOfThread
<1>2. Holds(thr[t].id, j)
  BY DEF Holds, Reserving
<1> QED
  BY <1>1, <1>2 DEF EntriesOK

\* A commit disturbs no upload.
LEMMA StagingCommits ==
    ASSUME TypeOK, ProtocolOK, EntriesOK, StagingOK, NEW t \in Threads,
           thr[t].pc \in CommitPcs, DiskStep(thr[t].id), OnlyThread(t),
           thr'[t].pc \notin {"copy", "touch"},
           \/ client' = client
           \/ \E phase \in {"failed", "saved", "commit"} :
                 Hears(thr[t].job, phase, client[thr[t].job].acked)
    PROVE  StagingOK'
<1>1. thr[t].job \in Jobs /\ thr[t].pc # "idle"
  BY DEF TypeOK, Thread, CommitPcs
<1>2. ASSUME NEW j \in Jobs, client'[j].phase = "up"
      PROVE  /\ client[j].phase = "up"
             /\ client'[j].id = client[j].id
             /\ client[j].resent \subseteq client'[j].resent
             /\ client[j].id \in DOMAIN rows' \ half' =>
                   /\ client[j].id \in DOMAIN rows \ half
                   /\ staged'[client[j].id] = staged[client[j].id]
  <2>1. client[j].phase = "up" /\ client'[j].id = client[j].id
        /\ client[j].resent \subseteq client'[j].resent
    BY <1>1, <1>2 DEF Hears
  <2>2. client[j].id # thr[t].id
    BY <1>1, <2>1, OwnEntry DEF ProtocolOK, RequestsOK
  <2>3. client[j].id \in Ids
    <3>1. client[j].id \in 1 .. seq
      BY <2>1 DEF ProtocolOK, ClientsOK, Reserving
    <3> QED
      BY <3>1, MaxIdAssumption DEF TypeOK, Ids
  <2> QED
    BY <2>1, <2>2, <2>3 DEF DiskStep
<1>3. \A j \in Jobs : \A p \in client'[j].acked : p \in client[j].acked
  BY <1>1 DEF Hears
<1>4. \A u \in Threads : thr'[u].live /\ thr'[u].pc \in {"copy", "touch"} =>
                            thr[u].live /\ SameRequest(u)
  BY DEF OnlyThread, SameRequest
<1>5. thr' \in [Threads -> Thread]
  BY DEF OnlyThread
<1> QED
  BY <1>2, <1>3, <1>4, <1>5, StagingKept

\* A write disturbs no part but its own.
LEMMA StagingWrites ==
    ASSUME TypeOK, ProtocolOK, EntriesOK, StagingOK, NEW t \in Threads,
           thr[t].pc \in {"create", "copy"}, DiskStep(thr[t].id), OthersWait(t),
           \A p \in Int \ {thr[t].part, -thr[t].part} :
              p \in staged'[thr[t].id].parts \cup staged'[thr[t].id].blocks
                 <=> p \in StagedFiles(thr[t].id),
           \A j \in Jobs : client'[j].phase = "up" =>
              /\ client[j].phase = "up" /\ client'[j].id = client[j].id
              /\ client'[j].resent = client[j].resent
              /\ \A p \in client'[j].acked :
                    p \in client[j].acked \/ (j = thr[t].job /\ p = thr[t].part),
           thr'[t].pc # "idle" => /\ thr'[t].job = thr[t].job /\ thr'[t].id = thr[t].id
                                  /\ thr'[t].part = thr[t].part /\ thr'[t].live = thr[t].live,
           thr'[t].pc = "idle" => ~thr'[t].live,
           thr[t].live /\ Counts(thr[t].job, thr[t].part) =>
              /\ thr'[t].pc = "copy" =>
                    Named(staged'[thr[t].id].parts \cup staged'[thr[t].id].blocks, thr[t].part) # {}
              /\ thr'[t].pc = "touch" \/ thr[t].part \in client'[thr[t].job].acked =>
                    /\ thr[t].part \in staged'[thr[t].id].parts \cup staged'[thr[t].id].blocks
                    /\ -thr[t].part \notin staged'[thr[t].id].parts \cup staged'[thr[t].id].blocks,
           thr[t].part \in client'[thr[t].job].acked \ client[thr[t].job].acked => thr[t].live
    PROVE  StagingOK'
<1> DEFINE i == thr[t].id
           n == thr[t].part
           j0 == thr[t].job
           files == staged'[i].parts \cup staged'[i].blocks
<1>1. /\ i \in Ids /\ j0 \in Jobs /\ n \in Int /\ PartsOf[j0] \in Nat
      /\ n \in 1 .. PartsOf[j0]
  <2>1. thr[t].pc # "idle" /\ thr[t].pc \in UploadPcs
    BY DEF UploadPcs
  <2>2. i \in Ids /\ j0 \in Jobs
    BY <2>1, IdOfThread
  <2>3. n \in 0 .. PartsOf[j0] /\ n # 0
    BY <2>1 DEF ProtocolOK, ThreadsOK
  <2> QED
    BY <2>2, <2>3, PartsAssumption
<1>2. ASSUME NEW j \in Jobs, NEW p, Counts(j, p)'
      PROVE  /\ client[j].phase = "up" /\ client'[j].id = client[j].id
             /\ Counts(j, p)
             /\ client[j].id # i => staged'[client[j].id] = staged[client[j].id]
             /\ client[j].id = i => j = j0
  <2>1. client'[j].phase = "up" /\ client'[j].id \in DOMAIN rows' \ half'
        /\ p \notin client'[j].resent \cup {0}
    BY <1>2 DEF Counts
  <2>2. /\ client[j].phase = "up" /\ client'[j].id = client[j].id
        /\ client'[j].resent = client[j].resent
    BY <2>1
  <2>3. Counts(j, p)
    BY <2>1, <2>2 DEF Counts, DiskStep
  <2>4. client[j].id \in Ids
    <3>1. client[j].id \in 1 .. seq
      BY <2>2 DEF ProtocolOK, ClientsOK, Reserving
    <3> QED
      BY <3>1, MaxIdAssumption DEF TypeOK, Ids
  <2> QED
    BY <2>2, <2>3, <2>4, OwnEntry DEF DiskStep
<1>3. \A p \in 1 .. PartsOf[j0] : p # n =>
         /\ p \in files <=> p \in StagedFiles(i)
         /\ -p \in files <=> -p \in StagedFiles(i)
  <2> SUFFICES ASSUME NEW p \in 1 .. PartsOf[j0], p # n
               PROVE  /\ p \in files <=> p \in StagedFiles(i)
                      /\ -p \in files <=> -p \in StagedFiles(i)
    OBVIOUS
  <2>1. p \in Int \ {n, -n} /\ -p \in Int \ {n, -n}
    BY <1>1
  <2> QED
    BY <2>1
<1>4. ASSUME NEW j \in Jobs, NEW p \in client'[j].acked, Counts(j, p)'
      PROVE  IsStaged(client[j].id, p)'
  <2>1. /\ client[j].phase = "up" /\ client'[j].id = client[j].id
        /\ Counts(j, p)
        /\ client[j].id # i => staged'[client[j].id] = staged[client[j].id]
        /\ client[j].id = i => j = j0
    BY <1>2, <1>4
  <2>2. client'[j].phase = "up"
    BY <1>4 DEF Counts
  <2>3. p \in client[j].acked \/ (j = j0 /\ p = n)
    BY <2>2
  <2>4. CASE client[j].id # i
    <3>1. j # j0
      BY <1>1, <2>4 DEF ProtocolOK, RequestsOK, UploadPcs
    <3>2. IsStaged(client[j].id, p)
      BY <2>1, <2>3, <3>1 DEF StagingOK
    <3> QED
      BY <2>1, <2>4, <3>2 DEF IsStaged, StagedFiles
  <2>5. CASE client[j].id = i /\ p = n
    <3>1. j = j0
      BY <2>1, <2>5
    <3>2. thr[t].live
      <4>1. CASE p \in client[j].acked
        <5>1. p \notin client[j].resent
          BY <2>1 DEF Counts
        <5> QED
          BY <5>1, <2>5, <3>1 DEF ProtocolOK, RequestsOK
      <4>2. CASE p \notin client[j].acked
        BY <4>2, <3>1, <2>5
      <4> QED
        BY <4>1, <4>2
    <3>3. n \in files /\ -n \notin files
      BY <2>1, <2>5, <3>1, <3>2
    <3> QED
      BY <2>1, <2>5, <3>3 DEF IsStaged, StagedFiles
  <2>6. CASE client[j].id = i /\ p # n
    <3>1. j = j0 /\ p \in client[j].acked
      BY <2>1, <2>3, <2>6
    <3>2. IsStaged(i, p)
      BY <2>1, <2>6, <3>1 DEF StagingOK
    <3>3. p \in 1 .. PartsOf[j0]
      <4>1. p \in 0 .. PartsOf[j0] /\ p # 0
        BY <2>1, <3>1 DEF ProtocolOK, ClientsOK, Counts
      <4> QED
        BY <4>1, <1>1
    <3>4. p \in files /\ -p \notin files
      BY <1>3, <2>6, <3>2, <3>3 DEF IsStaged
    <3> QED
      BY <2>1, <2>6, <3>4 DEF IsStaged, StagedFiles
  <2> QED
    BY <2>4, <2>5, <2>6
<1>5. ASSUME NEW u \in Threads, thr'[u].live, thr'[u].pc \in {"copy", "touch"},
             Counts(thr[u].job, thr[u].part)'
      PROVE  /\ thr'[u].pc = "copy" => (Named(StagedFiles(thr[u].id), thr[u].part) # {})'
             /\ thr'[u].pc = "touch" => IsStaged(thr[u].id, thr[u].part)'
  <2> DEFINE j == thr[u].job
             p == thr[u].part
  <2>1. /\ thr'[u].job = j /\ thr'[u].part = p /\ thr'[u].id = thr[u].id
        /\ thr[u].live /\ j \in Jobs
    BY <1>5 DEF OthersWait, SameRequest, TypeOK, Thread
  <2>2. /\ client[j].phase = "up" /\ Counts(j, p)
        /\ client[j].id # i => staged'[client[j].id] = staged[client[j].id]
        /\ client[j].id = i => j = j0
    <3>1. /\ client'[j].phase = "up" /\ client'[j].id \in DOMAIN rows' \ half'
          /\ p \notin client'[j].resent \cup {0}
      BY <1>5, <2>1 DEF Counts
    <3>2. Counts(j, p)'
      BY <3>1, <2>1 DEF Counts
    <3> QED
      BY <2>1, <3>2, <1>2
  <2>3. CASE u = t
    <3>1. (Named(StagedFiles(thr[u].id), thr[u].part) # {})' <=> Named(files, n) # {}
      BY <2>1, <2>3 DEF StagedFiles
    <3>2. IsStaged(thr[u].id, thr[u].part)' <=> (n \in files /\ -n \notin files)
      BY <2>1, <2>3 DEF StagedFiles, IsStaged
    <3> QED
      BY <2>1, <2>2, <2>3, <3>1, <3>2
  <2>4. CASE u # t
    <3>1. thr[u].pc = thr'[u].pc
      BY <2>4 DEF OthersWait, SameRequest
    <3>2. thr[u].id = client[j].id /\ thr[u].pc \in UploadPcs
      BY <1>5, <3>1 DEF ProtocolOK, RequestsOK, UploadPcs
    <3>3. /\ thr[u].pc = "copy" => Named(StagedFiles(thr[u].id), p) # {}
          /\ thr[u].pc = "touch" => IsStaged(thr[u].id, p)
      BY <2>1, <2>2 DEF StagingOK
    <3>4. CASE client[j].id # i
      <4>1. staged'[thr[u].id] = staged[thr[u].id]
        BY <2>2, <3>2, <3>4
      <4>2. (Named(StagedFiles(thr[u].id), thr[u].part) # {})'
               <=> Named(StagedFiles(thr[u].id), p) # {}
        BY <2>1, <4>1 DEF StagedFiles
      <4>3. IsStaged(thr[u].id, thr[u].part)' <=> IsStaged(thr[u].id, p)
        BY <2>1, <4>1 DEF StagedFiles, IsStaged
      <4> QED
        BY <3>1, <3>3, <4>2, <4>3
    <3>5. CASE client[j].id = i
      <4>1. j = j0
        BY <2>2, <3>5
      <4>2. p # n
        <5>1. CASE thr[t].live
          BY <5>1, <2>1, <2>4, <3>2, <4>1 DEF ProtocolOK, RequestsOK
        <5>2. CASE ~thr[t].live
          <6>1. n \in client[j0].resent
            BY <5>2 DEF ProtocolOK, RequestsOK
          <6>2. p \notin client[j].resent
            BY <2>2 DEF Counts
          <6> QED
            BY <6>1, <6>2, <4>1
        <5> QED
          BY <5>1, <5>2
      <4>3. p \in 1 .. PartsOf[j0]
        <5>1. p \in 0 .. PartsOf[j0] /\ p # 0
          BY <2>2, <3>2, <4>1 DEF ProtocolOK, ThreadsOK, Counts
        <5> QED
          BY <5>1, <1>1
      <4>4. /\ p \in files <=> p \in StagedFiles(i)
            /\ -p \in files <=> -p \in StagedFiles(i)
        BY <1>3, <4>2, <4>3
      <4>5. /\ thr[u].pc = "copy" => Named(files, p) # {}
            /\ thr[u].pc = "touch" => p \in files /\ -p \notin files
        BY <3>2, <3>3, <3>5, <4>4 DEF Named, IsStaged
      <4>6. (Named(StagedFiles(thr[u].id), thr[u].part) # {})' <=> Named(files, p) # {}
        BY <2>1, <3>2, <3>5 DEF StagedFiles
      <4>7. IsStaged(thr[u].id, thr[u].part)' <=> (p \in files /\ -p \notin files)
        BY <2>1, <3>2, <3>5 DEF StagedFiles, IsStaged
      <4> QED
        BY <3>1, <4>5, <4>6, <4>7
    <3> QED
      BY <3>4, <3>5
  <2> QED
    BY <2>3, <2>4
<1> QED
  BY <1>4, <1>5 DEF StagingOK

\* Putting blocks in order loses no part.
LEMMA StagingOrders ==
    ASSUME TypeOK, ProtocolOK, EntriesOK, StagingOK, NEW t \in Threads,
           OrderBlocks(t)
    PROVE  StagingOK'
<1> DEFINE i == thr[t].id
           j0 == thr[t].job
           files == staged'[i].parts \cup staged'[i].blocks
<1>1. thr[t].pc = "order"
  BY DEF OrderBlocks
<1>2. /\ i \in Ids /\ j0 \in Jobs /\ PartsOf[j0] \in Nat /\ thr[t].part = 0
      /\ thr[t].pc # "idle"
  BY <1>1, IdOfThread, PartsAssumption DEF ProtocolOK, ThreadsOK
<1>3. /\ DiskStep(i)
      /\ files \subseteq StagedFiles(i)
      /\ \A p \in 1 .. PartsOf[j0] :
            /\ p \in StagedFiles(i) /\ -p \notin StagedFiles(i) => p \in files
            /\ Named(StagedFiles(i), p) # {} => Named(files, p) # {}
      /\ Answers(t, "acked") \/ FailsMove(t)
  BY OrderBlocksMoves
<1>4. /\ Rests(t)
      /\ \/ client' = client
         \/ Hears(j0, client[j0].phase, client[j0].acked \cup {0})
         \/ Hears(j0, "failed", client[j0].acked)
  <2>1. CASE Answers(t, "acked")
    BY <2>1, <1>2, AnswersMoves
  <2>2. CASE FailsMove(t)
    BY <2>2 DEF FailsMove
  <2> QED
    BY <1>3, <2>1, <2>2
<1>5. ASSUME NEW j \in Jobs, client'[j].phase = "up"
      PROVE  /\ client[j].phase = "up" /\ client'[j].id = client[j].id
             /\ client'[j].resent = client[j].resent
             /\ client'[j].acked \subseteq client[j].acked \cup {0}
  BY <1>4, <1>5, <1>2 DEF Hears
<1> HIDE DEF files
<1>6. ASSUME NEW j \in Jobs, NEW p, Counts(j, p)'
      PROVE  /\ client[j].phase = "up" /\ client'[j].id = client[j].id
             /\ Counts(j, p) /\ p # 0
             /\ client[j].id # i => staged'[client[j].id] = staged[client[j].id]
             /\ client[j].id = i => j = j0
  <2>1. client'[j].phase = "up" /\ client'[j].id \in DOMAIN rows' \ half'
        /\ p \notin client'[j].resent \cup {0}
    BY <1>6 DEF Counts
  <2>2. /\ client[j].phase = "up" /\ client'[j].id = client[j].id
        /\ client'[j].resent = client[j].resent
    BY <2>1, <1>5
  <2>3. Counts(j, p)
    BY <2>1, <2>2, <1>3 DEF Counts, DiskStep
  <2>4. client[j].id \in Ids
    <3>1. client[j].id \in 1 .. seq
      BY <2>2 DEF ProtocolOK, ClientsOK, Reserving
    <3> QED
      BY <3>1, MaxIdAssumption DEF TypeOK, Ids
  <2> QED
    BY <1>2, <1>3, <2>1, <2>2, <2>3, <2>4, OwnEntry DEF DiskStep
<1>7. ASSUME NEW j \in Jobs, NEW p \in client'[j].acked, Counts(j, p)'
      PROVE  IsStaged(client[j].id, p)'
  <2>1. /\ client[j].phase = "up" /\ client'[j].id = client[j].id
        /\ Counts(j, p) /\ p # 0
        /\ client[j].id # i => staged'[client[j].id] = staged[client[j].id]
        /\ client[j].id = i => j = j0
    BY <1>6, <1>7
  <2>2. client'[j].phase = "up"
    BY <1>7 DEF Counts
  <2>3. p \in client[j].acked
    BY <1>5, <1>7, <2>1, <2>2
  <2>4. IsStaged(client[j].id, p)
    BY <2>1, <2>3 DEF StagingOK
  <2>5. CASE client[j].id # i
    BY <2>1, <2>4, <2>5 DEF IsStaged, StagedFiles
  <2>6. CASE client[j].id = i
    <3>1. p \in 0 .. PartsOf[j0]
      BY <2>1, <2>3, <2>6 DEF ProtocolOK, ClientsOK
    <3>2. p \in 1 .. PartsOf[j0]
      BY <3>1, <2>1, <1>2
    <3>3. p \in files /\ -p \notin files
      BY <3>2, <1>3, <2>4, <2>6 DEF IsStaged
    <3> QED
      BY <2>1, <2>6, <3>3 DEF IsStaged, StagedFiles, files
  <2> QED
    BY <2>5, <2>6
<1>8. ASSUME NEW u \in Threads, thr'[u].live, thr'[u].pc \in {"copy", "touch"},
             Counts(thr[u].job, thr[u].part)'
      PROVE  /\ thr'[u].pc = "copy" => (Named(StagedFiles(thr[u].id), thr[u].part) # {})'
             /\ thr'[u].pc = "touch" => IsStaged(thr[u].id, thr[u].part)'
  <2> DEFINE j == thr[u].job
             p == thr[u].part
             k == thr[u].id
  <2>1. u # t /\ thr'[u] = thr[u] /\ j \in Jobs
    BY <1>4, <1>8, IdleIsThread DEF Rests, OnlyThread, TypeOK, Thread
  <2>2. /\ client[j].phase = "up" /\ Counts(j, p) /\ p # 0
        /\ client[j].id # i => staged'[client[j].id] = staged[client[j].id]
        /\ client[j].id = i => j = j0
    <3>1. /\ client'[j].phase = "up" /\ client'[j].id \in DOMAIN rows' \ half'
          /\ p \notin client'[j].resent \cup {0}
      BY <1>8, <2>1 DEF Counts
    <3>2. Counts(j, p)'
      BY <3>1, <2>1 DEF Counts
    <3> QED
      BY <2>1, <3>2, <1>6
  <2>3. k = client[j].id /\ thr[u].pc \in UploadPcs /\ p \in 0 .. PartsOf[j]
    BY <1>8, <2>1 DEF ProtocolOK, RequestsOK, ThreadsOK, UploadPcs
  <2>4. /\ thr[u].pc = "copy" => Named(StagedFiles(k), p) # {}
        /\ thr[u].pc = "touch" => IsStaged(k, p)
    BY <1>8, <2>1, <2>2 DEF StagingOK
  <2>5. CASE k # i
    <3>1. staged'[k] = staged[k]
      BY <2>2, <2>3, <2>5
    <3>2. (Named(StagedFiles(thr[u].id), thr[u].part) # {})' <=> Named(StagedFiles(k), p) # {}
      BY <2>1, <3>1 DEF StagedFiles
    <3>3. IsStaged(thr[u].id, thr[u].part)' <=> IsStaged(k, p)
      BY <2>1, <3>1 DEF StagedFiles, IsStaged
    <3> QED
      BY <2>1, <2>4, <3>2, <3>3
  <2>6. CASE k = i
    <3>1. p \in 1 .. PartsOf[j0]
      BY <2>2, <2>3, <2>6, <1>2
    <3>2. /\ thr[u].pc = "copy" => Named(files, p) # {}
          /\ thr[u].pc = "touch" => p \in files /\ -p \notin files
      BY <1>3, <2>4, <2>6, <3>1 DEF IsStaged
    <3>3. (Named(StagedFiles(thr[u].id), thr[u].part) # {})' <=> Named(files, p) # {}
      BY <2>1, <2>6 DEF StagedFiles, files
    <3>4. IsStaged(thr[u].id, thr[u].part)' <=> (p \in files /\ -p \notin files)
      BY <2>1, <2>6 DEF StagedFiles, IsStaged, files
    <3> QED
      BY <2>1, <3>2, <3>3, <3>4
  <2> QED
    BY <2>5, <2>6
<1> QED
  BY <1>7, <1>8 DEF StagingOK

\* Nor does deleting entries: one that is kept keeps its staging directory.
LEMMA StagingThins ==
    ASSUME TypeOK, ProtocolOK, StagingOK, NEW tried, Thins(tried),
           thr' \in [Threads -> Thread],
           \A j \in Jobs : client'[j].phase = "up" =>
              /\ client[j].phase = "up"
              /\ client'[j].id = client[j].id
              /\ client[j].resent \subseteq client'[j].resent,
           \A j \in Jobs : \A p \in client'[j].acked :
              p \in client[j].acked \/ p = 0 \/ (Counts(j, p) => IsStaged(client[j].id, p)),
           \A t \in Threads : thr'[t].live /\ thr'[t].pc \in {"copy", "touch"} =>
              thr[t].live /\ SameRequest(t)
    PROVE  StagingOK'
<1>1. ASSUME NEW j \in Jobs, client'[j].phase = "up",
             client[j].id \in DOMAIN rows' \ half'
      PROVE  /\ client[j].id \in DOMAIN rows \ half
             /\ staged'[client[j].id] = staged[client[j].id]
  <2>1. client[j].id \in DOMAIN rows \ half
    BY <1>1 DEF Thins, Removed
  <2>2. client[j].id \in Ids
    BY <2>1, MaxIdAssumption DEF TypeOK, Ids
  <2> QED
    BY <1>1, <2>1, <2>2 DEF Thins, Removed
<1> QED
  BY <1>1, StagingKept

-----------------------------------------------------------------------------
(* What holds however commits overlap.                                      *)

\* The part of the inductive invariant that is about uploads and deletions.
UploadsOK == TypeOK /\ ProtocolOK /\ EntriesOK /\ TracesOK /\ StagingOK

\* What is left to show of a step that deletes entries.
LEMMA UploadsThin ==
    ASSUME UploadsOK, NEW tried, Thins(tried), url' \in [Ids -> Nat],
           thr' \in [Threads -> Thread], client' \in [Jobs -> Client],
           ProtocolOK', HoldsKept, StagingOK'
    PROVE  UploadsOK'
<1>1. TypeOK'
  <2>1. /\ seq' \in 0 .. MaxId /\ DOMAIN rows' \subseteq 1 .. seq'
        /\ stray' \subseteq 1 .. seq'
    BY DEF UploadsOK, TypeOK, Thins, Removed
  <2> QED
    BY <2>1 DEF TypeOK, Thins, Removed
<1>2. EntriesOK' /\ TracesOK'
  BY EntriesShrink, TracesShrink DEF UploadsOK
<1> QED
  BY <1>1, <1>2 DEF UploadsOK

\* What is left to show of a step on the files of one entry.
LEMMA UploadsDisk ==
    ASSUME UploadsOK, NEW i \in Ids, DiskStep(i), url' \in [Ids -> Nat],
           thr' \in [Threads -> Thread], client' \in [Jobs -> Client],
           ProtocolOK', HoldsKept, StagingOK',
           NEW j \in Jobs, Holds(i, j),
           staged'[i].parts \cup staged'[i].blocks \subseteq FilesOf(j),
           i \notin DOMAIN rows \cup stray' =>
               blob'[i] = <<>> /\ staged'[i].parts = {} /\ staged'[i].blocks = {}
    PROVE  UploadsOK'
<1>1. TypeOK'
  <2>1. /\ seq' \in 0 .. MaxId /\ DOMAIN rows' \subseteq 1 .. seq'
        /\ rows' \in [DOMAIN rows' -> Row]
        /\ stray' \subseteq 1 .. seq' /\ half' \subseteq DOMAIN rows'
    BY DEF UploadsOK, TypeOK, DiskStep
  <2> QED
    BY <2>1 DEF TypeOK, DiskStep
<1>2. EntriesOK' /\ TracesOK'
  BY EntriesDisk, TracesDisk DEF UploadsOK
<1> QED
  BY <1>1, <1>2 DEF UploadsOK


\* What a client hears when its request is answered: nothing if it no longer
\* waits, that the part arrived, how the save ended, or that it may try again.
Told(t) ==
    LET j == thr[t].job
    IN  \/ client' = client
        \/ /\ thr[t].live /\ thr[t].pc \in UploadPcs
           /\ Hears(j, client[j].phase, client[j].acked \cup {thr[t].part})
        \/ \E phase \in {"failed", "saved"} : Hears(j, phase, client[j].acked)
        \/ /\ thr[t].pc \in CommitPcs
           /\ Hears(j, "commit", client[j].acked)

\* Hearing an answer changes no client's entry, and only one client.
LEMMA ToldKeeps ==
    ASSUME TypeOK, ProtocolOK, NEW t \in Threads, thr[t].pc # "idle", Told(t)
    PROVE  /\ client' \in [Jobs -> Client]
           /\ \A j \in Jobs :
                 /\ client'[j].id = client[j].id
                 /\ client'[j].resent = client[j].resent
                 /\ client'[j].phase = "up" => client[j].phase = "up"
                 /\ client'[j].phase \notin {"new", "skipped"} => Reserving(j)
                 /\ \A p \in client'[j].acked :
                       \/ p \in client[j].acked
                       \/ /\ j = thr[t].job /\ p = thr[t].part
                          /\ thr[t].live /\ thr[t].pc \in UploadPcs
<1>1. thr[t].job \in Jobs /\ Reserving(thr[t].job) /\ client \in [Jobs -> Client]
  BY DEF TypeOK, Thread, ProtocolOK, ThreadsOK
<1>2. CASE client' = client
  BY <1>1, <1>2 DEF Reserving
<1>3. CASE /\ thr[t].live /\ thr[t].pc \in UploadPcs
           /\ Hears(thr[t].job, client[thr[t].job].phase,
                    client[thr[t].job].acked \cup {thr[t].part})
  BY <1>1, <1>3 DEF Hears, Reserving
<1>4. CASE \E phase \in {"failed", "saved", "commit"} :
              Hears(thr[t].job, phase, client[thr[t].job].acked)
  BY <1>1, <1>4 DEF Hears, Reserving
<1> QED
  BY <1>2, <1>3, <1>4 DEF Told

\* A failure is told, and so is an answer.
LEMMA FailsTold ==
    ASSUME TypeOK, NEW t \in Threads, FailsMove(t)
    PROVE  Rests(t) /\ Told(t)
BY DEF FailsMove, Told

\* A request that rests, or goes on, takes up no entry.
LEMMA HoldsThread ==
    ASSUME TypeOK, ProtocolOK,
           \A i \in DOMAIN rows' : i \in DOMAIN rows /\ rows'[i].job = rows[i].job,
           NEW t \in Threads, thr[t].pc # "idle", OthersWait(t),
           thr'[t].pc # "idle" => thr'[t].id = thr[t].id /\ thr'[t].job = thr[t].job,
           \A j \in Jobs : client'[j].phase \notin {"new", "skipped"} =>
               Reserving(j) /\ client'[j].id = client[j].id
    PROVE  HoldsKept
<1>1. \A u \in Threads : thr'[u].pc # "idle" =>
          /\ thr[u].pc # "idle"
          /\ thr'[u].id = thr[u].id /\ thr'[u].job = thr[u].job
  BY DEF OthersWait, SameRequest
<1> QED
  BY <1>1, HoldsGoOn

\* Steps that no thread or client has a part in.
LEMMA UploadsFrame ==
    ASSUME UploadsOK, NEW tried, Thins(tried), url' \in [Ids -> Nat],
           thr' = thr, client' = client
    PROVE  UploadsOK'
<1> USE DEF UploadsOK
<1>1. thr' \in [Threads -> Thread] /\ client' \in [Jobs -> Client]
  BY DEF TypeOK
<1>2. ProtocolOK'
  BY ProtocolFrame DEF Thins, Removed, TypeOK
<1>3. HoldsKept
  BY HoldsGoOn DEF Thins, Removed, Reserving
<1>4. StagingOK'
  <2>1. \A t \in Threads : SameRequest(t)
    BY DEF SameRequest
  <2> QED
    BY <1>1, <2>1, StagingThins
<1> QED
  BY <1>1, <1>2, <1>3, <1>4, UploadsThin

\* A request ends while entries are deleted, or none is.
LEMMA UploadsRest ==
    ASSUME UploadsOK, NEW tried, Thins(tried), url' \in [Ids -> Nat],
           NEW t \in Threads, thr[t].pc \in CommitPcs \cup {"touch"}, Rests(t), Told(t)
    PROVE  UploadsOK'
<1> USE DEF UploadsOK
<1>1. thr[t].pc # "idle" /\ OthersWait(t) /\ thr' \in [Threads -> Thread] /\ thr'[t] = Idle
  BY OthersDoWait DEF CommitPcs, Rests, OnlyThread
<1>2. ProtocolOK'
  BY <1>1, ProtocolRests DEF Told, Thins, Removed
<1>3. /\ client' \in [Jobs -> Client]
      /\ \A j \in Jobs :
                 /\ client'[j].id = client[j].id
                 /\ client'[j].resent = client[j].resent
                 /\ client'[j].phase = "up" => client[j].phase = "up"
                 /\ client'[j].phase \notin {"new", "skipped"} => Reserving(j)
                 /\ \A p \in client'[j].acked :
                       \/ p \in client[j].acked
                       \/ /\ j = thr[t].job /\ p = thr[t].part
                          /\ thr[t].live /\ thr[t].pc \in UploadPcs
  BY <1>1, ToldKeeps
<1>4. HoldsKept
  BY <1>1, <1>3, HoldsThread, IdleIsThread DEF Thins, Removed
<1>5. StagingOK'
  <2>1. ASSUME NEW j \in Jobs, NEW p \in client'[j].acked, p \notin client[j].acked, Counts(j, p)
        PROVE  IsStaged(client[j].id, p)
    <3>1. /\ j = thr[t].job /\ p = thr[t].part
          /\ thr[t].live /\ thr[t].pc \in UploadPcs
      BY <1>3, <2>1
    <3>2. thr[t].pc = "touch"
      BY <3>1 DEF UploadPcs, CommitPcs
    <3>3. IsStaged(thr[t].id, thr[t].part)
      BY <2>1, <3>1, <3>2 DEF StagingOK
    <3>4. thr[t].id = client[j].id
      BY <3>1 DEF ProtocolOK, RequestsOK
    <3> QED
      BY <3>1, <3>3, <3>4
  <2>2. ASSUME NEW u \in Threads, thr'[u].live
        PROVE  thr[u].live /\ SameRequest(u)
    BY <1>1, <2>2, IdleIsThread DEF OthersWait, SameRequest
  <2>3. \A j \in Jobs : \A p \in client'[j].acked :
              p \in client[j].acked \/ p = 0 \/ (Counts(j, p) => IsStaged(client[j].id, p))
    BY <2>1
  <2> QED
    BY <1>1, <1>3, <2>2, <2>3, StagingThins
<1> QED
  BY <1>1, <1>2, <1>3, <1>4, <1>5, UploadsThin

\* A request goes on while entries are deleted, or none is.
LEMMA UploadsGoOn ==
    ASSUME UploadsOK, NEW tried, Thins(tried), url' \in [Ids -> Nat],
           NEW t \in Threads, NEW pc \in Moves, GoesOn(t, pc), client' = client,
           \/ thr[t].pc \in CommitPcs /\ pc \in CommitPcs
           \/ /\ thr[t].pc = "room"
              /\ pc = IF thr[t].part = 0 THEN "order" ELSE "create"
    PROVE  UploadsOK'
<1> USE DEF UploadsOK
<1>1. thr[t].pc # "idle" /\ OthersWait(t) /\ thr' \in [Threads -> Thread]
      /\ client' \in [Jobs -> Client] /\ pc \notin {"copy", "touch"}
  BY OthersDoWait DEF CommitPcs, GoesOn, OnlyThread, TypeOK
<1>2. ProtocolOK'
  BY <1>1, ProtocolGoesOn DEF GoesOn, Thins, Removed, UploadPcs, CommitPcs
<1>3. HoldsKept
  BY <1>1, HoldsThread DEF Thins, Removed, GoesOn, Reserving
<1>4. StagingOK'
  <2>1. ASSUME NEW u \in Threads, thr'[u].pc \in {"copy", "touch"}, thr'[u].live
        PROVE  thr[u].live /\ SameRequest(u)
    BY <1>1, <2>1 DEF OthersWait, SameRequest, GoesOn
  <2> QED
    BY <1>1, <2>1, StagingThins
<1> QED
  BY <1>1, <1>2, <1>3, <1>4, UploadsThin


\* A restore, a sweep and the passing of time.
LEMMA UploadsSweep ==
    ASSUME UploadsOK,
           \/ \E j \in Jobs : Find(j) \/ V2GetCacheEntryDownloadURL(j)
           \/ \E i \in Ids : Get(i)
           \/ GcCache
           \/ GcMakesRoom
           \/ Tick
    PROVE  UploadsOK'
<1> USE DEF UploadsOK
<1>1. rows \in [DOMAIN rows -> Row] /\ url \in [Ids -> Nat]
  BY DEF TypeOK
<1>2. ASSUME NEW j \in Jobs, LookupCache(j)
      PROVE  UploadsOK'
  <2>1. /\ \E tried : Shrinks(tried)
        /\ UNCHANGED <<seq, thr, client>>
        /\ url' \in [Ids -> Nat]
    BY <1>2, LookupShrinks
  <2> QED
    BY <2>1, UploadsFrame DEF Shrinks
<1>3. ASSUME NEW i \in Ids, Get(i)
      PROVE  UploadsOK'
  <2>1. /\ rows' = IF i \in DOMAIN rows THEN Touched(rows, i) ELSE rows
        /\ UNCHANGED <<seq, blob, staged, half, stray, url, thr, client>>
    BY <1>3 DEF Get, disk, history
  <2>2. SameEntries(rows, rows')
    BY <1>1, <2>1, TouchedKeeps, SameIsSame
  <2> QED
    BY <1>1, <2>1, <2>2, AgesShrink, UploadsFrame DEF Shrinks
<1>4. ASSUME GcCache
      PROVE  UploadsOK'
  <2>1. \E tried : Shrinks(tried)
    BY <1>4, GcCacheShrinks
  <2>2. UNCHANGED <<url, thr, client>>
    BY <1>4 DEF GcCache
  <2> QED
    BY <1>1, <2>1, <2>2, UploadsFrame DEF Shrinks
<1>5. ASSUME GcMakesRoom
      PROVE  UploadsOK'
  <2>1. \E tried : Shrinks(tried)
    BY <1>5, MakeRoomShrinks DEF GcMakesRoom
  <2>2. UNCHANGED <<url, thr, client>>
    BY <1>5 DEF GcMakesRoom
  <2> QED
    BY <1>1, <2>1, <2>2, UploadsFrame DEF Shrinks
<1>6. ASSUME Tick
      PROVE  UploadsOK'
  <2>1. /\ rows' = [i \in DOMAIN rows |->
                     [rows[i] EXCEPT !.age = IF @ < MaxAge THEN @ + 1 ELSE @]]
        /\ url' = [i \in Ids |-> IF url[i] > 0 THEN url[i] - 1 ELSE 0]
        /\ UNCHANGED <<seq, blob, staged, half, stray, thr, client>>
    BY <1>6 DEF Tick, disk, history
  <2>2. SameEntries(rows, rows')
    BY <1>1, <2>1 DEF SameEntries, Row
  <2>3. url' \in [Ids -> Nat]
    BY <1>1, <2>1
  <2> QED
    BY <2>1, <2>2, <2>3, AgesShrink, UploadsFrame DEF Shrinks
<1> QED
  BY <1>2, <1>3, <1>4, <1>5, <1>6 DEF Find, V2GetCacheEntryDownloadURL

\* A restart of the server.
LEMMA UploadsCrash ==
    ASSUME UploadsOK, Crash
    PROVE  UploadsOK'
<1> USE DEF UploadsOK
<1>1. /\ \A t \in Threads : thr'[t] = Idle
      /\ UNCHANGED <<rows, seq, blob, staged, half, stray, url, client>>
  BY DEF Crash, store, disk, history
<1>2. ProtocolOK' /\ thr' \in [Threads -> Thread]
  BY ProtocolCrashes
<1>3. Thins({}) /\ url' \in [Ids -> Nat] /\ client' \in [Jobs -> Client]
  BY <1>1, StaysShrinks DEF Shrinks, TypeOK
<1>4. HoldsKept
  BY <1>1, HoldsGoOn, IdleIsThread DEF Reserving
<1>5. StagingOK'
  BY <1>1, <1>2, <1>3, StagingThins, IdleIsThread
<1> QED
  BY <1>2, <1>3, <1>4, <1>5, UploadsThin

\* A client gives up on an answer.
LEMMA UploadsGiveUp ==
    ASSUME UploadsOK, NEW t \in Threads, GiveUp(t)
    PROVE  UploadsOK'
<1> USE DEF UploadsOK
<1>1. /\ OnlyThread(t)
      /\ thr'[t].pc = thr[t].pc /\ thr'[t].job = thr[t].job
      /\ thr'[t].id = thr[t].id /\ thr'[t].live = FALSE
      /\ client' \in [Jobs -> Client]
      /\ \A j \in Jobs : /\ client'[j].phase = client[j].phase
                         /\ client'[j].id = client[j].id
                         /\ client'[j].acked = client[j].acked
                         /\ client[j].resent \subseteq client'[j].resent
  BY GiveUpMoves
<1>2. thr[t].pc # "idle" /\ UNCHANGED <<rows, seq, blob, staged, half, stray, url>>
  BY DEF GiveUp, disk, history
<1>3. Thins({}) /\ url' \in [Ids -> Nat] /\ thr' \in [Threads -> Thread] /\ OthersWait(t)
  BY <1>1, <1>2, StaysShrinks, OthersDoWait DEF Shrinks, TypeOK, OnlyThread
<1>4. HoldsKept
  BY <1>1, <1>2, <1>3, HoldsThread DEF Reserving
<1>5. StagingOK'
  <2>1. ASSUME NEW u \in Threads, thr'[u].live
        PROVE  thr[u].live /\ SameRequest(u)
    BY <1>1, <1>3, <2>1 DEF OthersWait, SameRequest
  <2> QED
    BY <1>1, <1>3, <2>1, StagingThins
<1> QED
  BY <1>1, <1>3, <1>4, <1>5, ProtocolGivesUp, UploadsThin

\* An upload makes room, or ends.
LEMMA UploadsMakeRoom ==
    ASSUME UploadsOK, NEW t \in Threads, UploadMakesRoom(t)
    PROVE  UploadsOK'
<1> USE DEF UploadsOK
<1> DEFINE pc == IF thr[t].part = 0 THEN "order" ELSE "create"
<1>1. /\ thr[t].pc = "room" /\ \E f \in Failures : MakeRoom(f)
      /\ Goes(t, pc) /\ UNCHANGED <<seq, url, client>>
  BY DEF UploadMakesRoom
<1>2. \E tried : Thins(tried)
  BY <1>1, MakeRoomShrinks DEF Shrinks
<1>3. pc \in Moves
  BY DEF Moves, UploadPcs
<1>4. GoesOn(t, pc)
  BY <1>1, <1>3, GoesKeeps
<1>5. url' \in [Ids -> Nat]
  BY <1>1 DEF TypeOK
<1> HIDE DEF UploadsOK
<1> QED
  BY <1>1, <1>2, <1>3, <1>4, <1>5, UploadsGoOn

\* The upload marks its entry as used and answers.
LEMMA UploadsTouch ==
    ASSUME UploadsOK, NEW t \in Threads, UploadTouches(t)
    PROVE  UploadsOK'
<1> USE DEF UploadsOK
<1> DEFINE i == thr[t].id
<1>1. /\ thr[t].pc = "touch"
      /\ rows' = IF i \in DOMAIN rows THEN Touched(rows, i) ELSE rows
      /\ Answers(t, "acked")
      /\ UNCHANGED <<seq, blob, staged, half, stray, url>>
  BY DEF UploadTouches, disk, history
<1>2. SameEntries(rows, rows')
  BY <1>1, TouchedKeeps, SameIsSame DEF TypeOK
<1>3. Thins({}) /\ url' \in [Ids -> Nat]
  BY <1>1, <1>2, AgesShrink DEF Shrinks, TypeOK
<1>4. Rests(t) /\ Told(t)
  BY <1>1, AnswersMoves DEF Told, UploadPcs
<1> QED
  BY <1>1, <1>3, <1>4, UploadsRest

\* The parts of a commit that touch no file but through the table.
LEMMA UploadsList ==
    ASSUME UploadsOK, NEW t \in Threads, CommitList(t) \/ CommitLockTimeout(t)
    PROVE  UploadsOK'
<1> USE DEF UploadsOK
<1>1. CASE CommitList(t)
  <2>1. /\ thr[t].pc = "list"
        /\ UNCHANGED <<rows, seq, blob, staged, half, stray, url>>
        /\ \/ GoesOn(t, "rename") /\ client' = client
           \/ FailsMove(t)
    BY <1>1, CommitListMoves
  <2>2. Thins({}) /\ url' \in [Ids -> Nat]
    BY <2>1, StaysShrinks DEF Shrinks, TypeOK
  <2>3. CASE GoesOn(t, "rename") /\ client' = client
    BY <2>1, <2>2, <2>3, UploadsGoOn DEF Moves, CommitPcs
  <2>4. CASE FailsMove(t)
    BY <2>1, <2>2, <2>4, FailsTold, UploadsRest DEF CommitPcs
  <2> QED
    BY <2>1, <2>3, <2>4
<1>2. CASE CommitLockTimeout(t)
  <2>1. /\ thr[t].pc = "save"
        /\ \E phase \in {"commit", "failed"} : Answers(t, phase)
        /\ UNCHANGED <<rows, seq, blob, staged, half, stray, url>>
    BY <1>2 DEF CommitLockTimeout, store, disk, history
  <2>2. Thins({}) /\ url' \in [Ids -> Nat]
    BY <2>1, StaysShrinks DEF Shrinks, TypeOK
  <2>3. Rests(t) /\ Told(t)
    BY <2>1, AnswersMoves DEF Told, CommitPcs, Phases
  <2> QED
    BY <2>1, <2>2, <2>3, UploadsRest DEF CommitPcs
<1> QED
  BY <1>1, <1>2


\* How many parts a file holds is a number.
LEMMA SizeOfIsNat ==
    ASSUME NEW file \in Seq(Int)
    PROVE  SizeOf(file) \in Nat
<1>1. DOMAIN file = 1 .. Len(file) /\ Len(file) \in Nat
  OBVIOUS
<1>2. IsFiniteSet(1 .. Len(file))
  BY <1>1, FS_Interval
<1>3. {k \in DOMAIN file : file[k] > 0} \subseteq 1 .. Len(file)
  BY <1>1
<1>4. IsFiniteSet({k \in DOMAIN file : file[k] > 0})
  BY <1>2, <1>3, FS_Subset
<1> QED
  BY <1>4, FS_CardinalityType DEF SizeOf

\* A new reservation is a row.
LEMMA NewRowIsRow ==
    ASSUME NEW j \in Jobs
    PROVE  /\ NewRow(j) \in Row /\ NewRow(j).job = j /\ ~NewRow(j).complete
           /\ NewRow(j).owner = IF ApiOf[j] = "v2" THEN j ELSE NoOwner
<1>1. DeclaredSize(j) \in Int
  BY PartsAssumption DEF DeclaredSize
<1> QED
  BY <1>1 DEF NewRow, Row

\* The entry a commit saves is complete, just used and spared by the passes
\* that end the commit; only entries out of use go.
LEMMA CommitSaveMoves ==
    ASSUME UploadsOK, NEW t \in Threads, CommitSave(t)
    PROVE  LET i == thr[t].id
           IN  /\ thr[t].pc = "save" /\ url' = url
               /\ \/ /\ i \in DOMAIN rows /\ i \in DOMAIN rows'
                     /\ rows'[i] = CommittedRow(t)
                     /\ \A k \in DOMAIN rows' \ {i} : rows'[k] = rows[k]
                     /\ \E tried : /\ Thins(tried) /\ i \notin tried
                                   /\ \A k \in tried : k \in DOMAIN rows
                                         /\ (rows[k].complete => ~InUse(rows[k]))
                     /\ Answers(t, "saved")
                  \/ /\ UNCHANGED <<rows, seq, blob, staged, half, stray>>
                     /\ FailsMove(t)
<1> USE DEF UploadsOK
<1> DEFINE i == thr[t].id
           saved == [k \in DOMAIN rows \cup {i} |->
                        IF k = i THEN CommittedRow(t) ELSE rows[k]]
           repo == RepoOf[thr[t].job]
<1>1. thr[t].pc = "save" /\ url' = url /\ seq' = seq
  BY DEF CommitSave
<1>2. CASE ~Savable(i) /\ CommitFails(t) /\ UNCHANGED store
  BY <1>1, <1>2, FailsMoves DEF store, disk, history
<1>3. CASE /\ Savable(i) /\ Answers(t, "saved")
           /\ \E f \in Failures :
                 DeleteCaches(saved, EvictedByCommit(saved, repo, f.id), f)
  <2>1. PICK f \in Failures : DeleteCaches(saved, EvictedByCommit(saved, repo, f.id), f)
    BY <1>3
  <2> DEFINE tried == EvictedByCommit(saved, repo, f.id)
  <2>2. i \in DOMAIN rows
    BY <1>3 DEF Savable
  <2>3. thr[t].job \in Jobs /\ thr[t].file \in Seq(Int) /\ rows \in [DOMAIN rows -> Row]
    BY DEF TypeOK, Thread
  <2>4. /\ CommittedRow(t) \in Row
        /\ CommittedRow(t).job = thr[t].job
        /\ CommittedRow(t).complete /\ CommittedRow(t).age = 0
        /\ CommittedRow(t).owner = NewRow(thr[t].job).owner
    <3>1. NewRow(thr[t].job) \in Row /\ NewRow(thr[t].job).job = thr[t].job
      BY <2>3, NewRowIsRow
    <3>2. SizeOf(thr[t].file) \in Int
      BY <2>3, SizeOfIsNat
    <3>3. NewRow(thr[t].job).age = 0
      BY DEF NewRow
    <3> QED
      BY <3>1, <3>2, <3>3 DEF CommittedRow, Row
  <2>5. saved \in [DOMAIN saved -> Row] /\ DOMAIN saved = DOMAIN rows /\ saved[i] = CommittedRow(t)
    BY <2>2, <2>3, <2>4
  <2>6. \A k \in DOMAIN rows \ {i} : saved[k] = rows[k]
    OBVIOUS
  <2>7. DeleteCaches(saved, tried, f)
    BY <2>1
  <2> HIDE DEF saved
  <2>8. SparesInUse(saved, tried)
    BY <2>5, RowsAreTable, CommitSparesInUse
  <2> HIDE DEF tried
  <2>9. Deletes(saved, tried)
    BY <2>5, <2>7, <2>8, DeleteCachesDeletes DEF SparesInUse
  <2>10. i \notin tried
    BY <2>4, <2>5, <2>8, TimesAssumption DEF SparesInUse, InUse, InUseGrace
  <2>11. \A k \in tried : k \in DOMAIN rows /\ (rows[k].complete => ~InUse(rows[k]))
    BY <2>5, <2>6, <2>8, <2>10 DEF SparesInUse
  <2>12. rows[i].job = thr[t].job /\ rows[i].owner = NewRow(thr[t].job).owner
    <3>1. i \in Ids /\ Holds(i, thr[t].job)
      BY <1>1, IdOfThread
    <3>2. rows[i].job \in Jobs /\ Holds(i, rows[i].job)
      BY <2>2, <2>3 DEF Holds, Row
    <3>3. rows[i].job = thr[t].job
      BY <3>1, <3>2, <2>3 DEF EntriesOK
    <3> QED
      BY <3>3, <2>2, <2>3, NewRowIsRow DEF EntriesOK
  <2>13. DOMAIN rows' \subseteq DOMAIN rows /\ \A k \in DOMAIN rows' : rows'[k] = saved[k]
    BY <2>5, <2>9 DEF Deletes
  <2>14. \A k \in DOMAIN rows' : /\ rows'[k].job = rows[k].job
                                 /\ rows'[k].owner = rows[k].owner
    <3> TAKE k \in DOMAIN rows'
    <3>1. CASE k = i
      BY <3>1, <2>4, <2>5, <2>12, <2>13
    <3>2. CASE k # i
      BY <3>2, <2>6, <2>13
    <3> QED
      BY <3>1, <3>2
  <2>15. i \in DOMAIN rows'
    <3>1. i \in Ids
      BY <1>1, IdOfThread
    <3> QED
      BY <3>1, <2>2, <2>5, <2>9, <2>10 DEF Deletes
  <2>16. Thins(tried)
    BY <1>1, <2>5, <2>9, <2>13, <2>14 DEF Thins, Removed, Deletes
  <2>17. rows'[i] = CommittedRow(t) /\ \A k \in DOMAIN rows' \ {i} : rows'[k] = rows[k]
    BY <2>5, <2>6, <2>13, <2>15
  <2> QED
    BY <1>1, <1>3, <2>2, <2>10, <2>11, <2>15, <2>16, <2>17
<1> QED
  BY <1>2, <1>3 DEF CommitSave

\* A commit is saved, or is not because its entry is gone.
LEMMA UploadsSave ==
    ASSUME UploadsOK, NEW t \in Threads, CommitSave(t)
    PROVE  UploadsOK'
<1>1. thr[t].pc \in CommitPcs \cup {"touch"} /\ url' \in [Ids -> Nat]
  BY CommitSaveMoves DEF CommitPcs, UploadsOK, TypeOK
<1>2. CASE (\E tried : Thins(tried)) /\ Answers(t, "saved")
  <2>1. Rests(t) /\ Told(t)
    BY <1>2, AnswersMoves DEF Told, Phases, UploadsOK
  <2> QED
    BY <1>1, <1>2, <2>1, UploadsRest
<1>3. CASE UNCHANGED <<rows, seq, blob, staged, half, stray>> /\ FailsMove(t)
  <2>1. Thins({})
    BY <1>3, StaysShrinks DEF Shrinks, UploadsOK
  <2> QED
    BY <1>1, <1>3, <2>1, FailsTold, UploadsRest DEF UploadsOK
<1> QED
  BY <1>2, <1>3, CommitSaveMoves

\* A commit takes files from the staging directory, or its error path
\* removes them.
LEMMA UploadsTake ==
    ASSUME UploadsOK, NEW t \in Threads,
           CommitRename(t) \/ CommitAppend(t) \/ CommitStat(t)
    PROVE  UploadsOK'
<1> USE DEF UploadsOK
<1> DEFINE i == thr[t].id
<1>1. /\ thr[t].pc \in CommitPcs /\ DiskStep(i) /\ stray' = stray /\ url' = url
      /\ \/ \E pc \in CommitPcs : GoesOn(t, pc) /\ client' = client
         \/ FailsMove(t)
      /\ \/ \E n \in Int : Takes(t, n)
         \/ staged'[i] = NoDir /\ (blob'[i] = <<>> \/ blob' = blob)
  <2>1. CASE CommitRename(t)
    BY <2>1, CommitRenameMoves DEF CommitPcs
  <2>2. CASE CommitAppend(t)
    BY <2>2, CommitAppendMoves DEF CommitPcs
  <2>3. CASE CommitStat(t)
    BY <2>3, CommitStatMoves DEF CommitPcs
  <2> QED
    BY <2>1, <2>2, <2>3
<1>2. /\ thr[t].pc # "idle" /\ i \in Ids /\ thr[t].job \in Jobs /\ Holds(i, thr[t].job)
      /\ url' \in [Ids -> Nat]
  BY <1>1, IdOfThread DEF CommitPcs, TypeOK
<1>3. /\ ProtocolOK' /\ client' \in [Jobs -> Client] /\ OnlyThread(t)
      /\ thr'[t].pc \notin {"copy", "touch"}
      /\ thr'[t].pc # "idle" => thr'[t].id = thr[t].id /\ thr'[t].job = thr[t].job
      /\ \A j \in Jobs : client'[j].phase \notin {"new", "skipped"} =>
               Reserving(j) /\ client'[j].id = client[j].id
      /\ \/ client' = client
         \/ \E phase \in {"failed", "saved", "commit"} :
               Hears(thr[t].job, phase, client[thr[t].job].acked)
  <2>1. CASE \E pc \in CommitPcs : GoesOn(t, pc) /\ client' = client
    <3>1. PICK pc \in CommitPcs : GoesOn(t, pc)
      BY <2>1
    <3>2. pc \in Moves /\ pc \notin {"copy", "touch"} /\ OthersWait(t)
      BY <3>1, OthersDoWait DEF Moves, CommitPcs, GoesOn
    <3>3. ProtocolOK'
      BY <1>1, <2>1, <3>1, <3>2, ProtocolGoesOn DEF GoesOn, DiskStep
    <3> QED
      BY <2>1, <3>1, <3>2, <3>3 DEF GoesOn, Reserving, TypeOK
  <2>2. CASE FailsMove(t)
    <3>1. Rests(t) /\ Told(t) /\ OthersWait(t) /\ thr'[t] = Idle /\ OnlyThread(t)
      BY <2>2, FailsTold, OthersDoWait DEF Rests
    <3>2. ProtocolOK'
      BY <1>1, <1>2, <3>1, ProtocolRests DEF Told, DiskStep
    <3> QED
      BY <1>2, <2>2, <3>1, <3>2, ToldKeeps, IdleIsThread DEF FailsMove
  <2> QED
    BY <1>1, <2>1, <2>2
<1>4. OthersWait(t) /\ thr' \in [Threads -> Thread]
  BY <1>3, OthersDoWait DEF OnlyThread
<1>5. HoldsKept
  <2>1. \A k \in DOMAIN rows' : k \in DOMAIN rows /\ rows'[k].job = rows[k].job
    BY <1>1 DEF DiskStep
  <2> QED
    BY <1>2, <1>3, <1>4, <2>1, HoldsThread
<1>6. StagingOK'
  BY <1>1, <1>3, StagingCommits
<1>7. staged'[i].parts \cup staged'[i].blocks \subseteq staged[i].parts \cup staged[i].blocks
  BY <1>1 DEF Takes, NoDir
<1>8. staged'[i].parts \cup staged'[i].blocks \subseteq FilesOf(thr[t].job)
  BY <1>2, <1>7 DEF EntriesOK
<1>9. i \notin DOMAIN rows \cup stray' =>
         blob'[i] = <<>> /\ staged'[i].parts = {} /\ staged'[i].blocks = {}
  BY <1>1, <1>2 DEF TracesOK, Takes, NoDir
<1> HIDE DEF UploadsOK, i
<1>10. UploadsOK'
  BY <1>1, <1>2, <1>3, <1>4, <1>5, <1>6, <1>8, <1>9, UploadsDisk
<1> QED
  BY <1>10


\* An upload writes its part.
LEMMA UploadsCreate ==
    ASSUME UploadsOK, NEW t \in Threads, WriteCreate(t)
    PROVE  UploadsOK'
<1> USE DEF UploadsOK
<1> DEFINE i == thr[t].id
           n == thr[t].part
           j == thr[t].job
           files == staged'[i].parts \cup staged'[i].blocks
<1>1. thr[t].pc = "create"
  BY DEF WriteCreate
<1>2. /\ thr[t].pc # "idle" /\ i \in Ids /\ j \in Jobs /\ Holds(i, j)
      /\ n \in 1 .. PartsOf[j] /\ PartsOf[j] \in Nat
  <2>1. n \in 0 .. PartsOf[j] /\ n # 0 /\ j \in Jobs
    BY <1>1 DEF ProtocolOK, ThreadsOK, UploadPcs, TypeOK, Thread
  <2> QED
    BY <1>1, <2>1, IdOfThread, PartsAssumption
<1>3. /\ DiskStep(i) /\ i \in DOMAIN rows \cup stray'
      /\ \/ /\ staged'[i].parts = staged[i].parts
            /\ staged'[i].blocks = PutFile(staged[i].blocks, n)
         \/ /\ staged'[i].parts = PutFile(staged[i].parts, n)
            /\ staged'[i].blocks = staged[i].blocks
      /\ GoesOn(t, "copy")
      /\ client' = client /\ url' = url
  BY WriteCreateMoves
<1>4. /\ OthersWait(t) /\ thr' \in [Threads -> Thread] /\ client' \in [Jobs -> Client]
      /\ url' \in [Ids -> Nat] /\ "copy" \in Moves
  BY <1>3, OthersDoWait DEF GoesOn, OnlyThread, TypeOK, Moves, UploadPcs
<1>5. ProtocolOK'
  BY <1>1, <1>2, <1>3, <1>4, ProtocolGoesOn DEF GoesOn, DiskStep, UploadPcs
<1>6. HoldsKept
  BY <1>1, <1>2, <1>3, <1>4, HoldsThread DEF GoesOn, DiskStep, Reserving
<1>7. /\ -n \in files
      /\ \A p \in Int \ {n, -n} : p \in files <=> p \in StagedFiles(i)
  BY <1>3 DEF PutFile, StagedFiles
<1>8. files \subseteq FilesOf(j)
  <2>1. \A p \in files : p = -n \/ p \in staged[i].parts \cup staged[i].blocks
    BY <1>3 DEF PutFile
  <2>2. -n \in FilesOf(j)
    BY <1>2 DEF FilesOf
  <2>3. staged[i].parts \cup staged[i].blocks \subseteq FilesOf(j)
    BY <1>2 DEF EntriesOK
  <2> QED
    BY <2>1, <2>2, <2>3
<1>9. StagingOK'
  <2>1. Named(files, n) # {}
    BY <1>7 DEF Named
  <2>2. thr[t].live => n \notin client[j].acked
    BY <1>1 DEF ProtocolOK, RequestsOK, UploadPcs
  <2> HIDE DEF files
  <2>3. thr[t].live /\ Counts(j, n) => ~(thr'[t].pc = "touch" \/ n \in client'[j].acked)
    BY <1>3, <2>2 DEF GoesOn
  <2> QED
    BY <1>1, <1>2, <1>3, <1>4, <1>7, <2>1, <2>3, StagingWrites DEF GoesOn, files
<1> HIDE DEF UploadsOK, i, j, n
<1> QED
  BY <1>2, <1>3, <1>4, <1>5, <1>6, <1>8, <1>9, UploadsDisk

\* The last byte of it arrives.
LEMMA UploadsDone ==
    ASSUME UploadsOK, NEW t \in Threads, WriteDone(t)
    PROVE  UploadsOK'
<1> USE DEF UploadsOK
<1> DEFINE i == thr[t].id
           n == thr[t].part
           j == thr[t].job
           files == staged'[i].parts \cup staged'[i].blocks
<1>1. thr[t].pc = "copy"
  BY DEF WriteDone
<1>2. /\ thr[t].pc # "idle" /\ i \in Ids /\ j \in Jobs /\ Holds(i, j)
      /\ n \in 1 .. PartsOf[j] /\ PartsOf[j] \in Nat /\ blob[i] \in Seq(Int)
      /\ staged[i] \in Dir
  <2>1. n \in 0 .. PartsOf[j] /\ n # 0 /\ j \in Jobs
    BY <1>1 DEF ProtocolOK, ThreadsOK, UploadPcs, TypeOK, Thread
  <2> QED
    BY <1>1, <2>1, IdOfThread, PartsAssumption
<1>3. /\ DiskStep(i) /\ stray' = stray /\ url' = url
      /\ staged'[i].parts = FillFiles(staged[i].parts, n)
      /\ staged'[i].blocks = FillFiles(staged[i].blocks, n)
      /\ blob'[i] = FillHead(blob[i], n)
      /\ OthersWait(t)
      /\ \/ /\ thr'[t].pc = "touch" /\ thr'[t].job = j
            /\ thr'[t].id = i /\ thr'[t].part = n
            /\ thr'[t].live = thr[t].live
            /\ client' = client
         \/ /\ thr'[t] = Idle
            /\ \/ client' = client
               \/ thr[t].live /\ Hears(j, client[j].phase, client[j].acked \cup {n})
  BY WriteDoneMoves
<1>4. thr' \in [Threads -> Thread] /\ url' \in [Ids -> Nat] /\ "touch" \in Moves
      /\ Idle.pc = "idle" /\ Idle.live = FALSE
  BY <1>3, IdleIsThread DEF OthersWait, TypeOK, Moves, UploadPcs
<1>5. /\ client' \in [Jobs -> Client] /\ ProtocolOK'
      /\ \A k \in Jobs : /\ client'[k].phase = client[k].phase
                         /\ client'[k].id = client[k].id
                         /\ client'[k].resent = client[k].resent
                         /\ \A p \in client'[k].acked :
                               p \in client[k].acked \/ (k = j /\ p = n /\ thr[t].live)
  <2>1. CASE /\ thr'[t].pc = "touch" /\ thr'[t].job = j
             /\ thr'[t].id = i /\ thr'[t].part = n
             /\ thr'[t].live = thr[t].live
             /\ client' = client
    <3>1. /\ thr[t].pc \in UploadPcs /\ "touch" \in UploadPcs /\ thr[t].part # 0
          /\ seq' = seq
      BY <1>1, <1>2, <1>3 DEF UploadPcs, DiskStep
    <3>2. ProtocolOK'
      BY <1>3, <1>4, <2>1, <3>1, ProtocolGoesOn
    <3> QED
      BY <2>1, <3>2 DEF TypeOK
  <2>2. CASE /\ thr'[t] = Idle
             /\ \/ client' = client
                \/ thr[t].live /\ Hears(j, client[j].phase, client[j].acked \cup {n})
    <3>1. ProtocolOK'
      BY <1>1, <1>2, <1>3, <2>2, ProtocolRests DEF DiskStep, UploadPcs
    <3>2. client \in [Jobs -> Client]
      BY DEF TypeOK
    <3>3. CASE client' = client
      BY <3>1, <3>2, <3>3
    <3>4. CASE thr[t].live /\ Hears(j, client[j].phase, client[j].acked \cup {n})
      BY <3>1, <3>4, <1>2 DEF Hears
    <3> QED
      BY <2>2, <3>3, <3>4
  <2> QED
    BY <1>3, <2>1, <2>2
<1>6. HoldsKept
  <2>1. \A k \in DOMAIN rows' : k \in DOMAIN rows /\ rows'[k].job = rows[k].job
    BY <1>3 DEF DiskStep
  <2>2. \A k \in Jobs : client'[k].phase \notin {"new", "skipped"} =>
               Reserving(k) /\ client'[k].id = client[k].id
    BY <1>5 DEF Reserving
  <2>3. thr'[t].pc # "idle" => thr'[t].id = thr[t].id /\ thr'[t].job = thr[t].job
    BY <1>3, <1>4
  <2> QED
    BY <1>2, <1>3, <2>1, <2>2, <2>3, HoldsThread
<1>7. n \in Int /\ -n \in Int /\ n # -n /\ staged[i].parts \subseteq Int /\ staged[i].blocks \subseteq Int
  BY <1>2 DEF Dir
<1>8. /\ \A p \in Int \ {n, -n} : p \in files <=> p \in StagedFiles(i)
      /\ -n \notin files
      /\ Named(StagedFiles(i), n) # {} => n \in files
      /\ \A p \in files : p = n \/ p \in StagedFiles(i)
  BY <1>3, <1>7 DEF FillFiles, StagedFiles, Named
<1>9. files \subseteq FilesOf(j)
  <2>1. n \in FilesOf(j)
    BY <1>2 DEF FilesOf
  <2>2. StagedFiles(i) \subseteq FilesOf(j)
    BY <1>2 DEF EntriesOK, StagedFiles
  <2> QED
    BY <1>8, <2>1, <2>2
<1> HIDE DEF files
<1>10. StagingOK'
  <2>1. thr[t].live /\ Counts(j, n) => n \in files /\ -n \notin files
    <3>1. thr[t].live /\ Counts(j, n) => Named(StagedFiles(i), n) # {}
      BY <1>1 DEF StagingOK
    <3> QED
      BY <3>1, <1>8
  <2>2. /\ thr'[t].pc # "copy"
        /\ thr'[t].pc # "idle" => /\ thr'[t].job = j /\ thr'[t].id = i
                                  /\ thr'[t].part = n /\ thr'[t].live = thr[t].live
        /\ thr'[t].pc = "idle" => ~thr'[t].live
    BY <1>3, <1>4
  <2>3. n \in client'[j].acked \ client[j].acked => thr[t].live
    BY <1>2, <1>5
  <2> QED
    BY <1>1, <1>2, <1>3, <1>5, <1>8, <2>1, <2>2, <2>3, StagingWrites DEF files
<1>11. i \notin DOMAIN rows \cup stray' =>
         blob'[i] = <<>> /\ staged'[i].parts = {} /\ staged'[i].blocks = {}
  <2> SUFFICES ASSUME i \notin DOMAIN rows \cup stray
               PROVE  blob'[i] = <<>> /\ staged'[i].parts = {} /\ staged'[i].blocks = {}
    BY <1>3
  <2>1. blob[i] = <<>> /\ staged[i].parts = {} /\ staged[i].blocks = {}
    BY <1>2 DEF TracesOK
  <2> QED
    BY <2>1, <1>3 DEF FillHead, FillFiles
<1> HIDE DEF UploadsOK, i, j, n
<1>12. staged'[i].parts \cup staged'[i].blocks \subseteq FilesOf(j)
  BY <1>9 DEF files
<1> QED
  BY <1>2, <1>3, <1>4, <1>5, <1>6, <1>10, <1>11, <1>12, UploadsDisk


\* Its copy fails.
LEMMA UploadsCopyFails ==
    ASSUME UploadsOK, NEW t \in Threads, WriteFails(t)
    PROVE  UploadsOK'
<1> USE DEF UploadsOK
<1> DEFINE i == thr[t].id
           n == thr[t].part
           j == thr[t].job
           files == staged'[i].parts \cup staged'[i].blocks
<1>1. thr[t].pc = "copy"
  BY DEF WriteFails
<1>2. /\ thr[t].pc # "idle" /\ i \in Ids /\ j \in Jobs /\ Holds(i, j)
  BY <1>1, IdOfThread
<1>3. /\ DiskStep(i) /\ blob' = blob /\ stray' = stray /\ url' = url
      /\ staged'[i].parts \in {staged[i].parts, staged[i].parts \ {n, -n}}
      /\ staged'[i].blocks \in {staged[i].blocks, staged[i].blocks \ {n, -n}}
      /\ FailsMove(t)
  BY WriteFailsMoves
<1>4. /\ Rests(t) /\ Told(t) /\ OthersWait(t) /\ thr'[t] = Idle
      /\ thr' \in [Threads -> Thread] /\ url' \in [Ids -> Nat]
      /\ Idle.pc = "idle" /\ Idle.live = FALSE
  BY <1>3, FailsTold, OthersDoWait, IdleIsThread DEF Rests, OnlyThread, TypeOK
<1>5. ProtocolOK'
  BY <1>2, <1>3, <1>4, ProtocolRests DEF Told, DiskStep
<1>6. /\ client' \in [Jobs -> Client]
      /\ \A k \in Jobs :
            /\ client'[k].id = client[k].id
            /\ client'[k].resent = client[k].resent
            /\ client'[k].phase = "up" => client[k].phase = "up"
            /\ client'[k].phase \notin {"new", "skipped"} => Reserving(k)
  BY <1>2, <1>4, ToldKeeps
<1>8. \A k \in Jobs : client'[k].acked = client[k].acked
  BY <1>2, <1>3 DEF FailsMove, Hears
<1>9. HoldsKept
  BY <1>2, <1>3, <1>4, <1>6, HoldsThread DEF DiskStep
<1>10. \A p \in Int \ {n, -n} : p \in files <=> p \in StagedFiles(i)
  BY <1>3 DEF StagedFiles
<1>11. files \subseteq staged[i].parts \cup staged[i].blocks
  BY <1>3
<1> HIDE DEF files
<1>12. StagingOK'
  <2>1. thr[t].live => n \notin client[j].acked
    BY <1>1 DEF ProtocolOK, RequestsOK, UploadPcs
  <2>2. thr[t].live /\ Counts(j, n) =>
              ~(thr'[t].pc = "touch" \/ thr'[t].pc = "copy" \/ n \in client'[j].acked)
    BY <1>2, <1>4, <1>8, <2>1
  <2>3. n \notin client'[j].acked \ client[j].acked
    BY <1>2, <1>8
  <2> QED
    BY <1>1, <1>2, <1>3, <1>4, <1>6, <1>8, <1>10, <2>2, <2>3, StagingWrites DEF files
<1>13. staged'[i].parts \cup staged'[i].blocks \subseteq FilesOf(j)
  BY <1>2, <1>11 DEF EntriesOK, files
<1>14. i \notin DOMAIN rows \cup stray' =>
         blob'[i] = <<>> /\ staged'[i].parts = {} /\ staged'[i].blocks = {}
  BY <1>2, <1>3 DEF TracesOK
<1> HIDE DEF UploadsOK, i, j, n
<1> QED
  BY <1>2, <1>3, <1>4, <1>5, <1>6, <1>9, <1>12, <1>13, <1>14, UploadsDisk

\* The block list puts the parts in order.
LEMMA UploadsOrder ==
    ASSUME UploadsOK, NEW t \in Threads, OrderBlocks(t)
    PROVE  UploadsOK'
<1> USE DEF UploadsOK
<1> DEFINE i == thr[t].id
           j == thr[t].job
<1>1. thr[t].pc = "order"
  BY DEF OrderBlocks
<1>2. /\ thr[t].pc # "idle" /\ i \in Ids /\ j \in Jobs /\ Holds(i, j)
      /\ thr[t].pc \in UploadPcs
  BY <1>1, IdOfThread DEF UploadPcs
<1>3. /\ DiskStep(i) /\ blob' = blob /\ stray' = stray /\ url' = url
      /\ staged'[i].parts \cup staged'[i].blocks \subseteq StagedFiles(i)
      /\ Answers(t, "acked") \/ FailsMove(t)
  BY OrderBlocksMoves
<1>4. Rests(t) /\ Told(t)
  <2>1. CASE Answers(t, "acked")
    BY <1>2, <2>1, AnswersMoves DEF Told
  <2> QED
    BY <1>3, <2>1, FailsTold
<1>5. /\ OthersWait(t) /\ thr'[t] = Idle
      /\ thr' \in [Threads -> Thread] /\ url' \in [Ids -> Nat]
      /\ Idle.pc = "idle"
  BY <1>3, <1>4, OthersDoWait, IdleIsThread DEF Rests, OnlyThread, TypeOK
<1>6. ProtocolOK'
  BY <1>2, <1>3, <1>4, <1>5, ProtocolRests DEF Told, DiskStep
<1>7. /\ client' \in [Jobs -> Client]
      /\ \A k \in Jobs :
            /\ client'[k].id = client[k].id
            /\ client'[k].phase \notin {"new", "skipped"} => Reserving(k)
  BY <1>2, <1>4, ToldKeeps
<1>8. HoldsKept
  BY <1>2, <1>3, <1>5, <1>7, HoldsThread DEF DiskStep
<1>9. StagingOK'
  BY StagingOrders
<1>10. staged'[i].parts \cup staged'[i].blocks \subseteq FilesOf(j)
  BY <1>2, <1>3 DEF EntriesOK, StagedFiles
<1>11. i \notin DOMAIN rows \cup stray' =>
         blob'[i] = <<>> /\ staged'[i].parts = {} /\ staged'[i].blocks = {}
  <2>1. i \notin DOMAIN rows \cup stray' => blob[i] = <<>> /\ StagedFiles(i) = {}
    BY <1>2, <1>3 DEF TracesOK, StagedFiles
  <2> QED
    BY <1>3, <2>1
<1> HIDE DEF UploadsOK, i, j
<1> QED
  BY <1>2, <1>3, <1>5, <1>6, <1>7, <1>8, <1>9, <1>10, <1>11, UploadsDisk

\* A client learns that its save is over, or need not begin.
LEMMA UploadsHear ==
    ASSUME UploadsOK, NEW tried, Thins(tried), url' = url, thr' = thr,
           NEW j \in Jobs, NEW phase \in {"skipped", "failed", "saved"},
           \/ phase = "skipped" /\ client[j].phase = "new"
           \/ phase \in {"failed", "saved"} /\ Reserving(j),
           client' = [client EXCEPT ![j].phase = phase]
    PROVE  UploadsOK'
<1> USE DEF UploadsOK
<1>1. phase \in Phases
  BY DEF Phases
<1>2. Hears(j, phase, client[j].acked)
  BY <1>1, HearsPhase
<1>3. /\ thr' \in [Threads -> Thread] /\ client' \in [Jobs -> Client]
      /\ url' \in [Ids -> Nat] /\ seq' = seq
  BY <1>2 DEF TypeOK, Hears, Thins, Removed
<1>4. ProtocolOK'
  BY <1>1, <1>2, <1>3, ProtocolHears
<1>5. \A k \in Jobs : /\ client'[k].id = client[k].id
                      /\ client'[k].resent = client[k].resent
                      /\ client'[k].acked = client[k].acked
                      /\ client'[k].phase = "up" => client[k].phase = "up"
                      /\ client'[k].phase \notin {"new", "skipped"} => Reserving(k)
  BY <1>2 DEF Hears, Reserving
<1>6. HoldsKept
  BY <1>5, HoldsGoOn DEF Thins, Removed
<1>7. StagingOK'
  <2>1. \A t \in Threads : SameRequest(t)
    BY DEF SameRequest
  <2> QED
    BY <1>3, <1>5, <2>1, StagingThins
<1> QED
  BY <1>3, <1>4, <1>6, <1>7, UploadsThin

\* A request arrives for the client's own entry.
LEMMA UploadsArrive ==
    ASSUME UploadsOK, NEW tried, Thins(tried), url' = url,
           NEW t \in Threads, thr[t].pc = "idle", OnlyThread(t),
           thr'[t].pc \notin {"copy", "touch"},
           thr'[t].job \in Jobs, thr'[t].id \in Nat, Holds(thr'[t].id, thr'[t].job),
           client' \in [Jobs -> Client],
           \A k \in Jobs : /\ client'[k].id = client[k].id
                           /\ client'[k].resent = client[k].resent
                           /\ client'[k].acked = client[k].acked
                           /\ client'[k].phase = "up" => client[k].phase = "up"
                           /\ client'[k].phase \notin {"new", "skipped"} => Reserving(k),
           ProtocolOK'
    PROVE  UploadsOK'
<1> USE DEF UploadsOK
<1>1. thr' \in [Threads -> Thread] /\ url' \in [Ids -> Nat]
  BY DEF TypeOK, OnlyThread
<1>2. HoldsKept
  <2>1. ASSUME NEW u \in Threads, thr'[u].pc # "idle"
        PROVE  Holds(thr'[u].id, thr'[u].job)
    <3>1. CASE u = t
      BY <3>1
    <3>2. CASE u # t
      <4>1. thr'[u] = thr[u]
        BY <3>2 DEF OnlyThread
      <4> QED
        BY <2>1, <4>1 DEF Holds
    <3> QED
      BY <3>1, <3>2
  <2>2. ASSUME NEW k \in Jobs, client'[k].phase \notin {"new", "skipped"}
        PROVE  Holds(client'[k].id, k)
    BY <2>2 DEF Holds
  <2>3. \A k \in Ids \cap DOMAIN rows' : k \in DOMAIN rows /\ rows'[k].job = rows[k].job
    BY DEF Thins, Removed
  <2> QED
    BY <2>1, <2>2, <2>3, HoldsStep DEF HoldsKept
<1>3. StagingOK'
  <2>1. ASSUME NEW u \in Threads, thr'[u].pc \in {"copy", "touch"}, thr'[u].live
        PROVE  thr[u].live /\ SameRequest(u)
    BY <2>1 DEF OnlyThread, SameRequest
  <2> QED
    BY <1>1, <2>1, StagingThins
<1> QED
  BY <1>1, <1>2, <1>3, UploadsThin


\* The request for a part is let in, after which the entry may be marked as
\* used, or refused.
LEMMA UploadsAdmit ==
    ASSUME UploadsOK, NEW t \in Threads, NEW j \in Jobs, NEW p \in 0 .. PartsOf[j],
           Upload(t, j, p) \/ V2UploadBlob(t, j, p)
    PROVE  UploadsOK'
<1> USE DEF UploadsOK
<1> DEFINE id == client[j].id
<1>1. PICK open \in BOOLEAN :
         /\ Admits(t, j, p, open)
         /\ open => id \in DOMAIN rows
         /\ rows' \in {rows, IF open THEN Touched(rows, id) ELSE rows}
  <2>1. CASE Upload(t, j, p)
    <3>1. PICK open \in BOOLEAN :
             /\ open = (/\ id \in DOMAIN rows
                        /\ Owns(j, rows[id])
                        /\ ~rows[id].complete)
      OBVIOUS
    <3> QED
      BY <2>1, <3>1 DEF Upload
  <2>2. CASE V2UploadBlob(t, j, p)
    <3>1. PICK open \in BOOLEAN : open = (id \in DOMAIN rows /\ ~rows[id].complete)
      OBVIOUS
    <3> QED
      BY <2>2, <3>1 DEF V2UploadBlob
  <2> QED
    BY <2>1, <2>2
<1>2. /\ thr[t].pc = "idle" /\ client[j].phase = "up" /\ p \in Sendable(j)
      /\ \/ open /\ Arrives(t, j, client[j].id, p, "room") /\ UNCHANGED client
         \/ /\ ~open
            /\ client' = [client EXCEPT ![j].phase = "failed"]
            /\ UNCHANGED thr
      /\ UNCHANGED <<seq, blob, staged, half, stray, url>>
  BY <1>1 DEF Admits, disk, history
<1>3. Thins({})
  <2>1. SameEntries(rows, rows')
    BY <1>1, TouchedKeeps, SameIsSame DEF TypeOK
  <2> QED
    BY <1>2, <2>1, AgesShrink DEF Shrinks
<1>4. Reserving(j) /\ Holds(id, j) /\ client \in [Jobs -> Client] /\ id \in Nat
  BY <1>2 DEF Reserving, Holds, TypeOK, Client
<1>5. CASE open /\ Arrives(t, j, client[j].id, p, "room") /\ UNCHANGED client
  <2>1. /\ ProtocolOK' /\ OnlyThread(t)
        /\ thr'[t] = [pc |-> "room", job |-> j, id |-> id, part |-> p,
                      left |-> {}, file |-> <<>>, live |-> TRUE]
    BY <1>2, <1>5, ProtocolUploads
  <2>2. thr'[t].pc = "room" /\ thr'[t].job = j /\ thr'[t].id = id
    BY <2>1
  <2> QED
    BY <1>2, <1>3, <1>4, <1>5, <2>1, <2>2, UploadsArrive DEF Reserving
<1>6. CASE client' = [client EXCEPT ![j].phase = "failed"] /\ UNCHANGED thr
  BY <1>2, <1>3, <1>4, <1>6, UploadsHear
<1> QED
  BY <1>2, <1>5, <1>6

\* An entry with an owner is its owner's.
LEMMA OwnerIsJob ==
    ASSUME UploadsOK, NEW j \in Jobs, NEW i \in DOMAIN rows, rows[i].owner = j
    PROVE  rows[i].job = j /\ i \in 1 .. seq /\ i \in Ids /\ Holds(i, j)
<1>1. rows[i].owner = IF ApiOf[rows[i].job] = "v2" THEN rows[i].job ELSE NoOwner
  BY DEF UploadsOK, EntriesOK
<1>2. rows[i].job = j
  BY <1>1, OwnerAssumption
<1>3. i \in 1 .. seq /\ i \in Ids
  BY MaxIdAssumption DEF UploadsOK, TypeOK, Ids
<1> QED
  BY <1>2, <1>3 DEF Holds

\* A commit begins, or is answered at once.
LEMMA CommitBegins ==
    ASSUME UploadsOK, NEW t \in Threads, NEW j \in Jobs, NEW id \in 1 .. seq, Holds(id, j),
           thr[t].pc = "idle", client[j].phase \in {"up", "commit"},
           Arrives(t, j, id, -1, "list"),
           client' = [client EXCEPT ![j].phase = "commit"],
           UNCHANGED <<rows, seq, blob, staged, half, stray, url>>
    PROVE  UploadsOK'
<1> USE DEF UploadsOK
<1>1. "commit" \in Phases
  BY DEF Phases
<1>2. Hears(j, "commit", client[j].acked)
  BY <1>1, HearsPhase
<1>3. /\ ProtocolOK' /\ OnlyThread(t)
      /\ thr'[t] = [pc |-> "list", job |-> j, id |-> id, part |-> -1,
                    left |-> {}, file |-> <<>>, live |-> TRUE]
  BY <1>2, ProtocolCommits
<1>4. thr'[t].pc = "list" /\ thr'[t].job = j /\ thr'[t].id = id
  BY <1>3
<1>5. Thins({}) /\ Reserving(j)
  BY StaysShrinks DEF Shrinks, Reserving
<1>6. /\ client' \in [Jobs -> Client]
      /\ \A k \in Jobs : /\ client'[k].id = client[k].id
                         /\ client'[k].resent = client[k].resent
                         /\ client'[k].acked = client[k].acked
                         /\ client'[k].phase = "up" => client[k].phase = "up"
                         /\ client'[k].phase \notin {"new", "skipped"} => Reserving(k)
  BY <1>2, <1>5 DEF Hears, Reserving
<1> QED
  BY <1>3, <1>4, <1>5, <1>6, UploadsArrive

\* Both APIs' requests for a commit.
LEMMA UploadsCommit ==
    ASSUME UploadsOK, NEW t \in Threads, NEW j \in Jobs,
           Commit(t, j) \/ V2FinalizeCacheEntryUpload(t, j)
    PROVE  UploadsOK'
<1> USE DEF UploadsOK
<1>1. /\ thr[t].pc = "idle" /\ MayCommit(j)
      /\ UNCHANGED <<rows, seq, blob, staged, half, stray, url>>
  BY DEF Commit, V2FinalizeCacheEntryUpload, disk, history
<1>2. client[j].phase \in {"up", "commit"} /\ Reserving(j)
  BY <1>1 DEF MayCommit, Reserving
<1>3. Thins({})
  BY <1>1, StaysShrinks DEF Shrinks
<1>4. CASE \E phase \in {"failed", "saved"} :
              client' = [client EXCEPT ![j].phase = phase] /\ UNCHANGED thr
  BY <1>1, <1>2, <1>3, <1>4, UploadsHear
<1>5. CASE \E id \in 1 .. seq :
              /\ Holds(id, j) /\ Arrives(t, j, id, -1, "list")
              /\ client' = [client EXCEPT ![j].phase = "commit"]
  BY <1>1, <1>2, <1>5, CommitBegins
<1>6. CASE Commit(t, j)
  <2>1. client[j].id \in 1 .. seq /\ Holds(client[j].id, j)
    BY <1>2 DEF ProtocolOK, ClientsOK, Holds
  <2> QED
    BY <1>4, <1>5, <1>6, <2>1 DEF Commit
<1>7. CASE V2FinalizeCacheEntryUpload(t, j)
  <2>1. ASSUME NEW i \in FinalizesOwn(j)
        PROVE  i \in 1 .. seq /\ Holds(i, j)
    <3>1. i \in DOMAIN rows /\ rows[i].owner = j
      BY DEF FinalizesOwn, Exact
    <3> QED
      BY <3>1, OwnerIsJob
  <2> QED
    BY <1>4, <1>5, <1>7, <2>1 DEF V2FinalizeCacheEntryUpload
<1> QED
  BY <1>6, <1>7


\* The client learns its id, or the answer is lost.
LEMMA ReservedTakes ==
    ASSUME TypeOK, NEW j \in Jobs, NEW id \in Nat, Reserved(j, id)
    PROVE  TakesEntry(j, id) \/ client' = client
<1>1. CASE client' = [client EXCEPT ![j].phase = "up", ![j].id = id]
  <2>1. client \in [Jobs -> Client]
    BY DEF TypeOK
  <2>2. [client[j] EXCEPT !.phase = "up", !.id = id] \in Client
    BY <2>1 DEF Client, Phases
  <2> QED
    BY <1>1, <2>1, <2>2 DEF TakesEntry, Client
<1> QED
  BY <1>1 DEF Reserved

\* A client that is told its reservation has acknowledged parts of no entry.
LEMMA StagingTakes ==
    ASSUME TypeOK, ProtocolOK, StagingOK, thr' = thr,
           NEW j \in Jobs, client[j].phase = "new", NEW id, TakesEntry(j, id) \/ client' = client,
           half' = half, staged' = staged, DOMAIN rows' \cap (1 .. seq) \subseteq DOMAIN rows
    PROVE  StagingOK'
<1>1. client[j].acked = {} /\ ~Reserving(j)
  BY DEF ProtocolOK, ClientsOK, Reserving
<1>2. \A t \in Threads : thr[t].pc \in {"copy", "touch"} => thr[t].job # j
  BY <1>1 DEF ProtocolOK, ThreadsOK
<1>3. ASSUME NEW k \in Jobs, client'[k].phase = "up"
      PROVE  \/ /\ client'[k].acked = {}
                /\ \A t \in Threads : thr'[t].pc \in {"copy", "touch"} => thr'[t].job # k
             \/ /\ client[k].phase = "up"
                /\ client'[k].id = client[k].id
                /\ client[k].resent \subseteq client'[k].resent
                /\ client[k].id \in DOMAIN rows' \ half' =>
                      /\ client[k].id \in DOMAIN rows \ half
                      /\ staged'[client[k].id] = staged[client[k].id]
  <2>1. CASE k = j
    <3>1. client'[k].acked = {}
      BY <1>1, <2>1 DEF TakesEntry
    <3> QED
      BY <1>2, <2>1, <3>1
  <2>2. CASE k # j
    <3>1. client'[k] = client[k]
      BY <2>2 DEF TakesEntry
    <3>2. client[k].id \in 1 .. seq
      BY <1>3, <3>1 DEF ProtocolOK, ClientsOK, Reserving
    <3> QED
      BY <1>3, <3>1, <3>2
  <2> QED
    BY <2>1, <2>2
<1>4. \A k \in Jobs : client'[k].acked = client[k].acked
  BY DEF TakesEntry
<1>5. \A t \in Threads : SameRequest(t)
  BY DEF SameRequest
<1>6. thr' \in [Threads -> Thread]
  BY DEF TypeOK
<1> QED
  BY <1>3, <1>4, <1>5, <1>6, StagingKept

\* A retry is given the reservation the job has.
LEMMA UploadsRegive ==
    ASSUME UploadsOK, NEW j \in Jobs, client[j].phase = "new", NEW id \in 1 .. seq,
           Holds(id, j), Reserved(j, id), SameEntries(rows, rows'),
           UNCHANGED <<blob, staged, half, stray, seq, url, thr>>
    PROVE  UploadsOK'
<1> USE DEF UploadsOK
<1>1. Thins({}) /\ DOMAIN rows' = DOMAIN rows
  BY AgesShrink DEF Shrinks, SameEntries
<1>2. TakesEntry(j, id) \/ client' = client
  <2>1. id \in Nat
    BY DEF TypeOK
  <2> QED
    BY <2>1, ReservedTakes
<1>3. /\ thr' \in [Threads -> Thread] /\ url' \in [Ids -> Nat]
      /\ client' \in [Jobs -> Client] /\ seq' \in Nat /\ seq <= seq'
  BY <1>2 DEF TypeOK, TakesEntry
<1>4. ProtocolOK'
  BY <1>2, <1>3, ProtocolTakes, ProtocolFrame
<1>5. HoldsKept
  <2>1. \A t \in Threads : thr'[t].pc # "idle" => Holds(thr'[t].id, thr'[t].job)
    BY DEF Holds
  <2>2. ASSUME NEW k \in Jobs, client'[k].phase \notin {"new", "skipped"}
        PROVE  Holds(client'[k].id, k)
    <3>1. client'[k] = client[k] \/ (k = j /\ client'[k].id = id)
      BY <1>2 DEF TakesEntry
    <3> QED
      BY <2>2, <3>1 DEF Holds, Reserving
  <2>3. \A k \in Ids \cap DOMAIN rows' : k \in DOMAIN rows /\ rows'[k].job = rows[k].job
    BY <1>1 DEF Thins, Removed
  <2> QED
    BY <2>1, <2>2, <2>3, HoldsStep DEF HoldsKept
<1>6. StagingOK'
  BY <1>1, <1>2, StagingTakes
<1> QED
  BY <1>1, <1>3, <1>4, <1>5, <1>6, UploadsThin

\* insertCache adds one row under an id never used before.
LEMMA InsertAdds ==
    ASSUME TypeOK, NEW j \in Jobs, Insert(NewRow(j))
    PROVE  /\ seq' = seq + 1 /\ seq' \in 1 .. MaxId /\ seq + 1 \in Ids
           /\ DOMAIN rows' = DOMAIN rows \cup {seq + 1}
           /\ rows' \in [DOMAIN rows' -> Row]
           /\ rows'[seq + 1] = NewRow(j)
           /\ \A i \in DOMAIN rows : i # seq + 1 /\ rows'[i] = rows[i]
           /\ seq + 1 \notin stray
<1>1. seq \in Nat /\ seq < MaxId /\ DOMAIN rows \subseteq 1 .. seq /\ stray \subseteq 1 .. seq
      /\ rows \in [DOMAIN rows -> Row]
  BY DEF TypeOK, Insert
<1>2. \A i \in 1 .. seq : i # seq + 1
  BY <1>1
<1>3. NewRow(j) \in Row
  BY NewRowIsRow
<1>4. /\ seq' = seq + 1
      /\ rows' = [i \in DOMAIN rows \cup {seq + 1} |->
                    IF i = seq + 1 THEN NewRow(j) ELSE rows[i]]
  BY DEF Insert
<1> HIDE DEF NewRow
<1>5. /\ DOMAIN rows' = DOMAIN rows \cup {seq + 1}
      /\ rows'[seq + 1] = NewRow(j)
      /\ \A i \in DOMAIN rows : i # seq + 1 /\ rows'[i] = rows[i]
  BY <1>1, <1>2, <1>4
<1>6. rows' \in [DOMAIN rows' -> Row]
  BY <1>1, <1>3, <1>4
<1>7. seq' \in 1 .. MaxId /\ seq + 1 \in Ids
  BY <1>1, <1>4, MaxIdAssumption DEF Ids
<1> QED
  BY <1>1, <1>2, <1>4, <1>5, <1>6, <1>7

\* A reservation takes up an entry nobody had to do with.
LEMMA UploadsInsert ==
    ASSUME UploadsOK, NEW j \in Jobs, client[j].phase = "new",
           Insert(NewRow(j)), Reserved(j, seq + 1),
           UNCHANGED <<blob, staged, half, stray, url, thr>>
    PROVE  UploadsOK'
<1> USE DEF UploadsOK
<1>0. PICK new \in Nat : new = seq + 1
  BY DEF TypeOK
<1>1. /\ seq' = new /\ seq' \in 1 .. MaxId /\ new \in Ids
      /\ DOMAIN rows' = DOMAIN rows \cup {new}
      /\ rows' \in [DOMAIN rows' -> Row]
      /\ rows'[new] = NewRow(j)
      /\ \A i \in DOMAIN rows : i # new /\ rows'[i] = rows[i]
      /\ new \notin stray
  BY <1>0, InsertAdds
<1>2. /\ seq \in Nat /\ new \in Nat /\ seq <= new /\ new \in 1 .. new
      /\ \A i \in 1 .. seq : i # new /\ i \in 1 .. new
      /\ DOMAIN rows \subseteq 1 .. seq /\ stray \subseteq 1 .. seq
  BY <1>0 DEF TypeOK
<1>3. TakesEntry(j, new) \/ client' = client
  BY <1>0, ReservedTakes
<1>4. /\ NewRow(j) \in Row /\ NewRow(j).job = j /\ ~NewRow(j).complete
      /\ NewRow(j).owner = IF ApiOf[j] = "v2" THEN j ELSE NoOwner
  BY NewRowIsRow
<1> HIDE DEF NewRow
<1>5. client' \in [Jobs -> Client] /\ \A k \in Jobs \ {j} : client'[k] = client[k]
  BY <1>3 DEF TypeOK, TakesEntry
<1>6. TypeOK'
  <2>1. seq' \in 0 .. MaxId
    BY <1>1
  <2>2. DOMAIN rows' \subseteq 1 .. seq' /\ stray' \subseteq 1 .. seq'
    BY <1>1, <1>2
  <2>3. half' \subseteq DOMAIN rows'
    BY <1>1 DEF TypeOK
  <2> QED
    BY <1>1, <1>5, <2>1, <2>2, <2>3 DEF TypeOK
<1>7. ProtocolOK'
  BY <1>1, <1>2, <1>3, ProtocolTakes, ProtocolFrame
<1>8. StagingOK'
  <2>1. DOMAIN rows' \cap (1 .. seq) \subseteq DOMAIN rows
    BY <1>1, <1>2
  <2> QED
    BY <1>3, <2>1, StagingTakes
<1>9. TracesOK'
  BY <1>1 DEF TracesOK
<1>10. \A i \in Ids \ {new}, k \in Jobs : Holds(i, k)' => Holds(i, k)
  <2>1. \A t \in Threads : thr'[t].pc # "idle" => Holds(thr'[t].id, thr'[t].job)
    BY DEF Holds
  <2>2. ASSUME NEW k \in Jobs, client'[k].phase \notin {"new", "skipped"},
               client'[k].id \in Ids \ {new}
        PROVE  Holds(client'[k].id, k)
    <3>1. client'[k] = client[k]
      BY <1>3, <2>2 DEF TakesEntry
    <3> QED
      BY <2>2, <3>1 DEF Holds, Reserving
  <2>3. \A i \in (Ids \ {new}) \cap DOMAIN rows' : i \in DOMAIN rows /\ rows'[i].job = rows[i].job
    BY <1>1
  <2> QED
    BY <2>1, <2>2, <2>3, HoldsStep
<1>11. \A k \in Jobs : Holds(new, k)' => k = j
  <2> SUFFICES ASSUME NEW k \in Jobs, Holds(new, k)'
               PROVE  k = j
    OBVIOUS
  <2>1. CASE new \in DOMAIN rows' /\ rows'[new].job = k
    BY <2>1, <1>1, <1>4
  <2>2. CASE \E t \in Threads : thr[t].pc # "idle" /\ thr[t].id = new /\ thr[t].job = k
    BY <2>2, <1>2 DEF ProtocolOK, ThreadsOK
  <2>3. CASE client'[k].phase \notin {"new", "skipped"} /\ client'[k].id = new /\ k # j
    BY <2>3, <1>2, <1>5 DEF ProtocolOK, ClientsOK, Reserving
  <2> QED
    BY <2>1, <2>2, <2>3 DEF Holds, Reserving
<1>12. EntriesOK'
  <2>1. \A i \in DOMAIN rows' :
          rows'[i].owner = IF ApiOf[rows'[i].job] = "v2" THEN rows'[i].job ELSE NoOwner
    BY <1>1, <1>4 DEF EntriesOK
  <2>2. \A i \in Ids, k, m \in Jobs : Holds(i, k)' /\ Holds(i, m)' => k = m
    <3> SUFFICES ASSUME NEW i \in Ids, NEW k \in Jobs, NEW m \in Jobs,
                        Holds(i, k)', Holds(i, m)'
                 PROVE  k = m
      OBVIOUS
    <3>1. CASE i = new
      BY <3>1, <1>11
    <3>2. CASE i # new
      BY <3>2, <1>10 DEF EntriesOK
    <3> QED
      BY <3>1, <3>2
  <2>3. \A i \in Ids, k \in Jobs :
          Holds(i, k)' => staged'[i].parts \cup staged'[i].blocks \subseteq FilesOf(k)
    <3> SUFFICES ASSUME NEW i \in Ids, NEW k \in Jobs, Holds(i, k)'
                 PROVE  staged'[i].parts \cup staged'[i].blocks \subseteq FilesOf(k)
      OBVIOUS
    <3>1. CASE i = new
      <4>1. i \notin DOMAIN rows \cup stray
        BY <1>1, <3>1
      <4>2. staged[i].parts = {} /\ staged[i].blocks = {}
        BY <4>1 DEF TracesOK
      <4> QED
        BY <4>2
    <3>2. CASE i # new
      BY <3>2, <1>10 DEF EntriesOK
    <3> QED
      BY <3>1, <3>2
  <2> QED
    BY <2>1, <2>2, <2>3 DEF EntriesOK
<1> QED
  BY <1>6, <1>7, <1>8, <1>9, <1>12

\* findExactCache finds an entry of the table.
LEMMA LatestIsRow ==
    ASSUME UploadsOK, NEW j \in Jobs
    PROVE  \A complete \in BOOLEAN : Exact(rows, j, complete) # {} =>
              LatestOf(rows, Exact(rows, j, complete), complete) \in DOMAIN rows
<1>1. /\ seq \in Nat
      /\ DOMAIN rows \subseteq 1 .. seq /\ \A i \in DOMAIN rows : rows[i].age \in Nat
  BY DEF UploadsOK, TypeOK, Row
<1> TAKE complete \in BOOLEAN
<1> DEFINE ids == Exact(rows, j, complete)
<1>2. ids \subseteq DOMAIN rows
  BY DEF Exact
<1>3. ids \in SUBSET (1 .. seq) /\ \A i \in ids : rows[i].age \in Nat
  BY <1>1, <1>2
<1> HIDE DEF ids
<1>4. ids # {} => LatestOf(rows, ids, complete) \in ids
  BY <1>1, <1>3, LatestIsOne
<1> QED
  BY <1>2, <1>4 DEF ids

\* Both APIs' reservations.
LEMMA UploadsReserve ==
    ASSUME UploadsOK, NEW j \in Jobs, Reserve(j) \/ V2CreateCacheEntry(j)
    PROVE  UploadsOK'
<1>1. client[j].phase = "new" /\ UNCHANGED <<blob, staged, half, stray, url, thr>>
  BY DEF Reserve, V2CreateCacheEntry, disk, history
<1>2. CASE Insert(NewRow(j)) /\ Reserved(j, seq + 1)
  BY <1>1, <1>2, UploadsInsert
<1>3. CASE V2CreateCacheEntry(j)
  <2> DEFINE existing == Exact(rows, j, TRUE)
             pending  == Exact(rows, j, FALSE)
             latest   == LatestOf(rows, pending, FALSE)
             alive    == pending # {} /\ rows[latest].age < StallTimeout
             skips    == client' = [client EXCEPT ![j].phase = "skipped"]
  <2>1. \/ /\ existing # {}
           /\ rows' = Touched(rows, LatestOf(rows, existing, TRUE))
           /\ skips
           /\ seq' = seq
        \/ skips /\ rows' = rows /\ seq' = seq
        \/ /\ alive /\ rows[latest].owner = j
           /\ rows' = Touched(rows, latest)
           /\ Reserved(j, latest)
           /\ seq' = seq
        \/ Insert(NewRow(j)) /\ Reserved(j, seq + 1)
    BY <1>3 DEF V2CreateCacheEntry
  <2>2. TypeOK /\ rows \in [DOMAIN rows -> Row]
    BY DEF UploadsOK, TypeOK
  <2>3. /\ existing # {} => LatestOf(rows, existing, TRUE) \in DOMAIN rows
        /\ pending # {} => latest \in DOMAIN rows
    BY LatestIsRow
  <2>5. ASSUME SameEntries(rows, rows'), skips, seq' = seq
        PROVE  UploadsOK'
    <3>1. Thins({})
      BY <1>1, <2>2, <2>5, AgesShrink DEF Shrinks
    <3> QED
      BY <1>1, <2>5, <3>1, UploadsHear
  <2>6. CASE /\ existing # {}
             /\ rows' = Touched(rows, LatestOf(rows, existing, TRUE))
             /\ skips
             /\ seq' = seq
    <3>1. LatestOf(rows, existing, TRUE) \in DOMAIN rows
      BY <2>3, <2>6
    <3>2. SameEntries(rows, rows')
      BY <2>2, <2>6, <3>1, TouchedKeeps
    <3> QED
      BY <2>5, <2>6, <3>2
  <2>7. CASE skips /\ rows' = rows /\ seq' = seq
    BY <2>2, <2>5, <2>7, SameIsSame
  <2>8. CASE /\ alive /\ rows[latest].owner = j
             /\ rows' = Touched(rows, latest)
             /\ Reserved(j, latest)
             /\ seq' = seq
    <3>1. latest \in DOMAIN rows
      BY <2>3, <2>8
    <3>2. SameEntries(rows, rows')
      BY <2>2, <2>8, <3>1, TouchedKeeps
    <3>3. latest \in 1 .. seq /\ Holds(latest, j)
      BY <2>8, <3>1, OwnerIsJob
    <3> HIDE DEF latest
    <3> QED
      BY <1>1, <2>8, <3>2, <3>3, UploadsRegive
  <2> QED
    BY <1>2, <2>1, <2>6, <2>7, <2>8
<1> QED
  BY <1>2, <1>3 DEF Reserve


\* At the start nothing is stored and nobody has asked for anything.
LEMMA UploadsInit ==
    ASSUME Init
    PROVE  UploadsOK
<1> USE DEF Init
<1>1. /\ Idle \in Thread /\ Idle.pc = "idle" /\ Idle.id = 0 /\ Idle.part = 0
      /\ Idle.live = FALSE
  BY IdleIsThread
<1>2. rows = <<>> /\ DOMAIN rows = {} /\ rows \in [DOMAIN rows -> Row]
  OBVIOUS
<1>3. thr \in [Threads -> Thread] /\ \A t \in Threads : thr[t] = Idle
  BY <1>1
<1> DEFINE c == [phase |-> "new", id |-> 0, acked |-> {}, resent |-> {}]
<1>4. c \in Client
  BY DEF Client, Phases
<1>5. client \in [Jobs -> Client] /\ \A j \in Jobs : client[j] = c
  BY <1>4
<1>6. \A j \in Jobs : client[j].phase = "new" /\ client[j].acked = {} /\ ~Reserving(j)
  BY <1>5 DEF Reserving
<1>7. TypeOK
  <2>1. NoDir \in Dir
    BY DEF NoDir, Dir
  <2>2. <<>> \in Seq(Int)
    OBVIOUS
  <2>3. /\ seq \in 0 .. MaxId /\ blob \in [Ids -> Seq(Int)] /\ staged \in [Ids -> Dir]
        /\ url \in [Ids -> Nat]
    BY <2>1, <2>2, MaxIdAssumption
  <2> QED
    BY <1>2, <1>3, <1>5, <2>3 DEF TypeOK
<1>8. ProtocolOK
  <2>1. \A t \in Threads : /\ thr[t].pc = "idle" /\ thr[t].id = 0 /\ thr[t].part = 0
                           /\ ~thr[t].live
    BY <1>1, <1>3
  <2>2. "idle" \notin CommitPcs \cup UploadPcs /\ 0 # -1
    BY DEF CommitPcs, UploadPcs
  <2>3. ThreadsOK
    BY <2>1, <2>2 DEF ThreadsOK
  <2>4. ClientsOK
    BY <1>6 DEF ClientsOK
  <2>5. RequestsOK
    BY <2>1, <2>2 DEF RequestsOK
  <2> QED
    BY <2>3, <2>4, <2>5 DEF ProtocolOK
<1>9. EntriesOK
  <2>1. \A i \in Ids, j \in Jobs : ~Holds(i, j)
    BY <1>1, <1>2, <1>3, <1>6 DEF Holds
  <2> QED
    BY <1>2, <2>1 DEF EntriesOK
<1>10. TracesOK
  BY DEF TracesOK, NoDir
<1>11. StagingOK
  BY <1>1, <1>3, <1>6 DEF StagingOK
<1> QED
  BY <1>7, <1>8, <1>9, <1>10, <1>11 DEF UploadsOK

\* Every step keeps the invariant.
LEMMA UploadsNext ==
    ASSUME UploadsOK, [Next]_vars
    PROVE  UploadsOK'
<1>1. ASSUME NEW j \in Jobs, Reserve(j) \/ V2CreateCacheEntry(j)
      PROVE  UploadsOK'
  BY <1>1, UploadsReserve
<1>2. ASSUME NEW t \in Threads, NEW j \in Jobs, NEW p \in 0 .. PartsOf[j],
             Upload(t, j, p) \/ V2UploadBlob(t, j, p)
      PROVE  UploadsOK'
  BY <1>2, UploadsAdmit
<1>3. ASSUME NEW t \in Threads, NEW j \in Jobs,
             Commit(t, j) \/ V2FinalizeCacheEntryUpload(t, j)
      PROVE  UploadsOK'
  BY <1>3, UploadsCommit
<1>4. ASSUME NEW t \in Threads,
             \/ UploadMakesRoom(t) \/ WriteCreate(t) \/ WriteDone(t)
             \/ WriteFails(t) \/ UploadTouches(t) \/ OrderBlocks(t)
      PROVE  UploadsOK'
  BY <1>4, UploadsMakeRoom, UploadsCreate, UploadsDone, UploadsCopyFails,
     UploadsTouch, UploadsOrder
<1>5. ASSUME NEW t \in Threads,
             \/ CommitList(t) \/ CommitRename(t) \/ CommitAppend(t)
             \/ CommitStat(t) \/ CommitSave(t) \/ CommitLockTimeout(t)
             \/ GiveUp(t)
      PROVE  UploadsOK'
  BY <1>5, UploadsList, UploadsTake, UploadsSave, UploadsGiveUp
<1>6. CASE UNCHANGED vars
  <2>1. UNCHANGED <<rows, seq, blob, staged, half, stray, url, thr, client>>
    BY <1>6 DEF vars, disk, history
  <2>2. Thins({}) /\ url' \in [Ids -> Nat]
    BY <2>1, StaysShrinks DEF Shrinks, UploadsOK, TypeOK
  <2> QED
    BY <2>1, <2>2, UploadsFrame
<1> QED
  BY <1>1, <1>2, <1>3, <1>4, <1>5, <1>6, UploadsSweep, UploadsCrash DEF Next

\* The requests, the entries, the staging directories and the files keep to
\* their types and to each other in every reachable state, whatever is lost,
\* sent again or cut short, and however commits overlap.
THEOREM UploadsAreOK == Spec => []UploadsOK
<1>1. Init => UploadsOK
  BY UploadsInit
<1>2. UploadsOK /\ [Next]_vars => UploadsOK'
  BY UploadsNext
<1> QED
  BY <1>1, <1>2, PTL DEF Spec

\* Bytes under the name of no entry are those of a commit in progress, of a
\* write that came after the entry's deletion, or of a commit whose rename came
\* between the removal of the blob and that of the parts.
THEOREM NoBlobIsOrphaned == Spec => []NoOrphanBlob
<1>1. UploadsOK => NoOrphanBlob
  BY DEF UploadsOK, TracesOK, NoOrphanBlob
<1> QED
  BY <1>1, UploadsAreOK, PTL

\* What was acknowledged lies whole in the entry's staging directory until
\* the job asks for the commit, as long as the entry is kept.
THEOREM AckedPartsAreStaged == Spec => []AckedIsStaged
<1>1. UploadsOK => AckedIsStaged
  <2> SUFFICES ASSUME UploadsOK, NEW j \in Jobs, client[j].phase = "up",
                      client[j].id \in DOMAIN rows \ half,
                      NEW p \in client[j].acked \ (client[j].resent \cup {0})
               PROVE  p \in staged[client[j].id].parts \cup staged[client[j].id].blocks
    BY DEF AckedIsStaged
  <2>1. Counts(j, p)
    BY DEF Counts
  <2>2. IsStaged(client[j].id, p)
    BY <2>1 DEF UploadsOK, StagingOK
  <2> QED
    BY <2>2 DEF IsStaged, StagedFiles
<1> QED
  BY <1>1, UploadsAreOK, PTL

\* Marking an entry as used adds and removes none.
LEMMA TouchedDomain ==
    ASSUME NEW rs, NEW id
    PROVE  DOMAIN Touched(rs, id) = DOMAIN rs
BY DEF Touched

\* No step brings back a deleted entry.
LEMMA StaysDeleted ==
    ASSUME UploadsOK, Next
    PROVE  \A i \in 1 .. seq : i \notin DOMAIN rows => i \notin DOMAIN rows'
<1>0. TypeOK /\ seq \in Nat
  BY DEF UploadsOK, TypeOK
<1> DEFINE Gone == \A i \in 1 .. seq : i \notin DOMAIN rows => i \notin DOMAIN rows'
<1> SUFFICES Gone
  OBVIOUS
<1>1. ASSUME NEW tried, Thins(tried)
      PROVE  Gone
  BY <1>1 DEF Thins, Removed
<1>2. ASSUME NEW id, rows' = Touched(rows, id)
      PROVE  Gone
  BY <1>2, TouchedDomain
<1>3. ASSUME rows' = rows
      PROVE  Gone
  BY <1>3
<1>4. ASSUME NEW j \in Jobs, Insert(NewRow(j))
      PROVE  Gone
  BY <1>0, <1>4, InsertAdds
<1> HIDE DEF Gone
<1>5. ASSUME NEW j \in Jobs, Reserve(j) \/ V2CreateCacheEntry(j)
      PROVE  Gone
  BY <1>2, <1>3, <1>4, <1>5 DEF Reserve, V2CreateCacheEntry
<1>6. ASSUME NEW j \in Jobs, Find(j) \/ V2GetCacheEntryDownloadURL(j)
      PROVE  Gone
  BY <1>0, <1>1, <1>6, LookupShrinks DEF Shrinks, Find, V2GetCacheEntryDownloadURL
<1>7. ASSUME NEW t \in Threads, NEW j \in Jobs, NEW p \in 0 .. PartsOf[j],
             Upload(t, j, p) \/ V2UploadBlob(t, j, p)
      PROVE  Gone
  BY <1>2, <1>3, <1>7 DEF Upload, V2UploadBlob
<1>8. ASSUME NEW t \in Threads, UploadMakesRoom(t)
      PROVE  Gone
  <2>1. PICK f \in Failures : MakeRoom(f) /\ seq' = seq
    BY <1>8 DEF UploadMakesRoom
  <2> QED
    BY <1>0, <1>1, <2>1, MakeRoomShrinks DEF Shrinks
<1>9. ASSUME NEW t \in Threads, CommitSave(t)
      PROVE  Gone
  BY <1>1, <1>3, <1>9, CommitSaveMoves
<1>10. ASSUME NEW t \in Threads,
              \/ WriteCreate(t) \/ WriteDone(t) \/ WriteFails(t) \/ OrderBlocks(t)
              \/ CommitList(t) \/ CommitRename(t) \/ CommitAppend(t)
              \/ CommitStat(t) \/ CommitLockTimeout(t) \/ GiveUp(t)
       PROVE  Gone
  <2>1. rows' = rows
    BY <1>10 DEF WriteCreate, WriteDone, WriteFails, OrderBlocks, CommitList,
                 CommitRename, CommitAppend, CommitStat, CommitLockTimeout, store, GiveUp
  <2> QED
    BY <1>3, <2>1
<1>11. ASSUME NEW t \in Threads, UploadTouches(t)
       PROVE  Gone
  BY <1>2, <1>3, <1>11 DEF UploadTouches
<1>12. ASSUME NEW t \in Threads, NEW j \in Jobs,
              Commit(t, j) \/ V2FinalizeCacheEntryUpload(t, j)
       PROVE  Gone
  BY <1>3, <1>12 DEF Commit, V2FinalizeCacheEntryUpload
<1>13. ASSUME NEW i \in Ids, Get(i)
       PROVE  Gone
  BY <1>2, <1>3, <1>13 DEF Get
<1>14. ASSUME GcCache
       PROVE  Gone
  BY <1>0, <1>1, <1>14, GcCacheShrinks DEF Shrinks
<1>15. ASSUME GcMakesRoom
       PROVE  Gone
  <2>1. PICK f \in Failures : MakeRoom(f) /\ seq' = seq
    BY <1>15 DEF GcMakesRoom
  <2> QED
    BY <1>0, <1>1, <2>1, MakeRoomShrinks DEF Shrinks
<1>16. ASSUME Crash
       PROVE  Gone
  BY <1>3, <1>16 DEF Crash, store
<1>17. ASSUME Tick
       PROVE  Gone
  <2>1. DOMAIN rows' = DOMAIN rows
    BY <1>17 DEF Tick
  <2> QED
    BY <2>1 DEF Gone
<1> QED
  BY <1>5, <1>6, <1>7, <1>8, <1>9, <1>10, <1>11, <1>12, <1>13, <1>14, <1>15, <1>16,
     <1>17 DEF Next

\* An entry that was deleted never comes back, however late a commit of it
\* reaches db.save.
THEOREM DeletedStaysDeleted == Spec => NoResurrection
<1>1. UploadsOK /\ [Next]_vars =>
        [\A i \in 1 .. seq : i \notin DOMAIN rows => i \notin DOMAIN rows']_vars
  BY StaysDeleted
<1> QED
  BY <1>1, UploadsAreOK, PTL DEF Spec, NoResurrection


-----------------------------------------------------------------------------
(* What is on record of earlier steps.                                      *)

\* No client forgets what it sent again, and the record of parts that were
\* truncated and of entries that were not marked as used stays.
Remembers ==
    /\ \A j \in Jobs : client[j].resent \subseteq client'[j].resent
    /\ holes' = holes /\ untouched' = untouched

\* An answer changes nothing about what was sent again.
LEMMA AnswersRemember ==
    ASSUME TypeOK, NEW t \in Threads, NEW what, Answers(t, what)
    PROVE  \A j \in Jobs : client[j].resent \subseteq client'[j].resent
<1>1. client \in [Jobs -> Client] /\ thr[t].job \in Jobs
  BY DEF TypeOK, Thread
<1>2. \/ client' = client
      \/ client' = [client EXCEPT ![thr[t].job].acked = @ \cup {thr[t].part}]
      \/ client' = [client EXCEPT ![thr[t].job].phase = what]
  BY DEF Answers
<1> QED
  BY <1>1, <1>2 DEF Client

\* Nor does a failure.
LEMMA FailsRemember ==
    ASSUME TypeOK, NEW t \in Threads, Fails(t) \/ CommitFails(t)
    PROVE  \A j \in Jobs : client[j].resent \subseteq client'[j].resent
<1>1. (\E what : Answers(t, what)) \/ client' = client
  BY DEF Fails, CommitFails, Refuses
<1> QED
  BY <1>1, AnswersRemember

\* The phase of a client, or its entry, changes and nothing else.
LEMMA PhaseRemembers ==
    ASSUME TypeOK, NEW j \in Jobs, NEW phase, NEW id,
           \/ client' = client
           \/ client' = [client EXCEPT ![j].phase = phase]
           \/ client' = [client EXCEPT ![j].phase = phase, ![j].id = id]
    PROVE  \A k \in Jobs : client[k].resent \subseteq client'[k].resent
<1> SUFFICES ASSUME NEW k \in Jobs
             PROVE  client'[k].resent = client[k].resent
  OBVIOUS
<1>1. client \in [Jobs -> Client] /\ client[k] \in Client
  BY DEF TypeOK
<1>2. CASE client' = client
  BY <1>2
<1>3. CASE client' = [client EXCEPT ![j].phase = phase]
  BY <1>1, <1>3 DEF Client
<1>4. CASE client' = [client EXCEPT ![j].phase = phase, ![j].id = id]
  BY <1>1, <1>4 DEF Client
<1> QED
  BY <1>2, <1>3, <1>4

\* Each step remembers, but for a lookup, which may fail to mark an entry as
\* used, and for the creation of a part's file.
LEMMA StepsRemember ==
    ASSUME TypeOK, [Next]_vars
    PROVE  \/ Remembers
           \/ \E j \in Jobs : LookupCache(j)
           \/ \E t \in Threads : WriteCreate(t)
<1>1. ASSUME NEW j \in Jobs, Reserve(j) \/ V2CreateCacheEntry(j)
      PROVE  Remembers
  <2>1. holes' = holes /\ untouched' = untouched
    BY <1>1 DEF Reserve, V2CreateCacheEntry, disk, history
  <2>2. \E phase, id : \/ client' = client
                       \/ client' = [client EXCEPT ![j].phase = phase]
                       \/ client' = [client EXCEPT ![j].phase = phase, ![j].id = id]
    BY <1>1 DEF Reserve, V2CreateCacheEntry, Reserved
  <2> QED
    BY <2>1, <2>2, PhaseRemembers DEF Remembers
<1>2. ASSUME NEW t \in Threads, NEW j \in Jobs, NEW part,
             \/ Upload(t, j, part) \/ V2UploadBlob(t, j, part)
             \/ Commit(t, j) \/ V2FinalizeCacheEntryUpload(t, j)
      PROVE  Remembers
  <2>1. holes' = holes /\ untouched' = untouched
    BY <1>2 DEF Upload, V2UploadBlob, Admits, Commit, V2FinalizeCacheEntryUpload,
                disk, history
  <2>2. \E phase : client' = client \/ client' = [client EXCEPT ![j].phase = phase]
    BY <1>2 DEF Upload, V2UploadBlob, Admits, Commit, V2FinalizeCacheEntryUpload
  <2> QED
    BY <2>1, <2>2, PhaseRemembers DEF Remembers
<1>3. ASSUME NEW t \in Threads, UploadMakesRoom(t)
      PROVE  Remembers
  BY <1>3 DEF UploadMakesRoom, MakeRoom, DeleteCaches, Remembers
<1>4. ASSUME NEW t \in Threads, WriteDone(t)
      PROVE  Remembers
  <2>1. client \in [Jobs -> Client] /\ thr[t].job \in Jobs
    BY DEF TypeOK, Thread
  <2>2. \/ client' = client
        \/ client' = [client EXCEPT ![thr[t].job].acked = @ \cup {thr[t].part}]
    BY <1>4 DEF WriteDone
  <2>3. \A j \in Jobs : client[j].resent \subseteq client'[j].resent
    BY <2>1, <2>2 DEF Client
  <2> QED
    BY <1>4, <2>3 DEF WriteDone, history, Remembers
<1>5. ASSUME NEW t \in Threads, \/ WriteFails(t) \/ UploadTouches(t) \/ OrderBlocks(t)
      PROVE  Remembers
  <2>1. holes' = holes /\ untouched' = untouched
    BY <1>5 DEF WriteFails, UploadTouches, OrderBlocks, disk, history
  <2>2. Fails(t) \/ Answers(t, "acked")
    BY <1>5 DEF WriteFails, UploadTouches, OrderBlocks
  <2> QED
    BY <2>1, <2>2, FailsRemember, AnswersRemember DEF Remembers
<1>6. ASSUME NEW t \in Threads,
             CommitList(t) \/ CommitRename(t) \/ CommitAppend(t) \/ CommitStat(t)
      PROVE  Remembers
  <2>1. holes' = holes /\ untouched' = untouched
    BY <1>6 DEF CommitList, CommitRename, CommitAppend, CommitStat, disk, history
  <2>2. CommitFails(t) \/ client' = client
    BY <1>6 DEF CommitList, CommitRename, CommitAppend, CommitStat, CommitUndone
  <2> QED
    BY <2>1, <2>2, FailsRemember DEF Remembers
<1>7. ASSUME NEW t \in Threads, CommitSave(t) \/ CommitLockTimeout(t)
      PROVE  Remembers
  <2>1. holes' = holes /\ untouched' = untouched
    BY <1>7 DEF CommitSave, CommitLockTimeout, DeleteCaches, store, disk, history
  <2>2. CommitFails(t) \/ \E what : Answers(t, what)
    BY <1>7 DEF CommitSave, CommitLockTimeout
  <2> QED
    BY <2>1, <2>2, FailsRemember, AnswersRemember DEF Remembers
<1>8. ASSUME NEW t \in Threads, GiveUp(t)
      PROVE  Remembers
  <2>1. client \in [Jobs -> Client] /\ thr[t].job \in Jobs
    BY DEF TypeOK, Thread
  <2>2. client' = [client EXCEPT ![thr[t].job].resent = @ \cup {thr[t].part}]
    BY <1>8 DEF GiveUp
  <2>3. \A j \in Jobs : client[j].resent \subseteq client'[j].resent
    BY <2>1, <2>2 DEF Client
  <2> QED
    BY <1>8, <2>3 DEF GiveUp, disk, history, Remembers
<1>9. CASE (\E i \in Ids : Get(i)) \/ Crash \/ Tick \/ UNCHANGED vars
  BY <1>9 DEF Get, Crash, Tick, vars, store, disk, history, Remembers
<1>10. CASE GcCache \/ GcMakesRoom
  BY <1>10 DEF GcCache, GcMakesRoom, MakeRoom, DeleteCaches, Remembers
<1> QED
  BY <1>1, <1>2, <1>3, <1>4, <1>5, <1>6, <1>7, <1>8, <1>9, <1>10
     DEF Next, Find, V2GetCacheEntryDownloadURL

\* A part was truncated under another copy's hands only if its client had
\* given up on it.
HolesOK == \A h \in holes : h.job \in Jobs /\ h.part \in client[h.job].resent

\* Two copies of a part are on the way only if its client gave up on one.
LEMMA HolesNext ==
    ASSUME UploadsOK, HolesOK, [Next]_vars
    PROVE  HolesOK'
<1>0. TypeOK
  BY DEF UploadsOK
<1>1. CASE Remembers
  BY <1>1 DEF Remembers, HolesOK
<1>2. ASSUME NEW j \in Jobs, LookupCache(j)
      PROVE  HolesOK'
  <2>1. client' = client /\ holes' = holes
    BY <1>2 DEF LookupCache, DeleteCaches
  <2> QED
    BY <2>1 DEF HolesOK
<1>3. ASSUME NEW t \in Threads, WriteCreate(t)
      PROVE  HolesOK'
  <2> DEFINE i == thr[t].id
             n == thr[t].part
             others == {u \in Threads \ {t} :
                          thr[u].pc = "copy" /\ thr[u].id = i /\ thr[u].part = n}
  <2>1. /\ thr[t].pc = "create" /\ client' = client
        /\ holes' = holes \cup {[id |-> i, job |-> thr[u].job, part |-> n] : u \in others}
    BY <1>3 DEF WriteCreate
  <2>2. ASSUME NEW u \in others
        PROVE  thr[u].job \in Jobs /\ n \in client[thr[u].job].resent
    <3>1. u \in Threads /\ u # t /\ thr[u].pc = "copy" /\ thr[u].id = i /\ thr[u].part = n
      OBVIOUS
    <3>2. /\ i \in Ids /\ Holds(i, thr[t].job) /\ Holds(i, thr[u].job)
          /\ thr[t].job \in Jobs /\ thr[u].job \in Jobs
      BY <2>1, <3>1, IdOfThread DEF UploadsOK
    <3>3. thr[t].job = thr[u].job
      BY <3>2 DEF UploadsOK, EntriesOK
    <3>4. thr[t].pc \in UploadPcs /\ thr[t].pc # "idle" /\ thr[u].pc # "idle"
      BY <2>1, <3>1 DEF UploadPcs
    <3>5. ~thr[t].live \/ ~thr[u].live
      BY <3>1, <3>3, <3>4 DEF UploadsOK, ProtocolOK, RequestsOK
    <3> QED
      BY <3>1, <3>2, <3>3, <3>4, <3>5 DEF UploadsOK, ProtocolOK, RequestsOK
  <2> QED
    BY <2>1, <2>2 DEF HolesOK
<1> QED
  BY <1>0, <1>1, <1>2, <1>3, StepsRemember

-----------------------------------------------------------------------------
(* Commits, when a job's second one waits for the first.                    *)

\* The part of the inductive invariant that is about commits.
SavesOK == CommitsOK /\ FilesOK /\ BlobsOK

\* Thread t is where it was in its commit.
SameCommit(t) ==
    /\ thr'[t].pc = thr[t].pc /\ thr'[t].job = thr[t].job /\ thr'[t].id = thr[t].id
    /\ thr'[t].part = thr[t].part
    /\ thr'[t].left = thr[t].left /\ thr'[t].file = thr[t].file

\* A commit goes nowhere, unless it ends.
CommitsWait == \A t \in Threads : thr'[t].pc \in CommitPcs => SameCommit(t)

\* The bytes of entry i stay, or go with the entry.
BlobStays(i) ==
    /\ blob'[i] = blob[i] \/ (blob'[i] = <<>> /\ i \notin DOMAIN rows' \ half')
    /\ i \in DOMAIN rows' \ half' => i \in DOMAIN rows \ half

\* No entry is added or committed, none is older than before, and only entries
\* out of use, or without bytes, lose their bytes.
Fades ==
    /\ DOMAIN rows' \subseteq DOMAIN rows
    /\ \A i \in DOMAIN rows' : /\ rows'[i].job = rows[i].job
                               /\ rows'[i].complete = rows[i].complete
                               /\ rows'[i].age <= rows[i].age
    /\ half \cap DOMAIN rows' \subseteq half'
    /\ \A i \in Ids :
          \/ /\ blob'[i] = blob[i]
             /\ i \in DOMAIN rows => i \in DOMAIN rows'
          \/ /\ blob'[i] = <<>> \/ blob'[i] = blob[i]
             /\ i \in DOMAIN rows' => i \in half'
             /\ i \in DOMAIN rows
             /\ rows[i].complete => ~InUse(rows[i]) \/ blob[i] = <<>>

\* Deletions fade.
LEMMA ShrinksFade ==
    ASSUME NEW tried, Shrinks(tried), Younger, Evictable(tried)
    PROVE  Fades
BY DEF Shrinks, Thins, Removed, Younger, Evictable, Fades

\* So does a step that touches no row and no bytes.
LEMMA StaysFade ==
    ASSUME UploadsOK, UNCHANGED <<rows, blob, half>>
    PROVE  Fades
<1>1. \A i \in DOMAIN rows : rows[i].age <= rows[i].age
  BY SameIsSame DEF UploadsOK
<1> QED
  BY <1>1 DEF Fades

\* So does marking an entry as used.
LEMMA TouchesFade ==
    ASSUME UploadsOK, NEW id \in DOMAIN rows, rows' = Touched(rows, id),
           UNCHANGED <<blob, half>>
    PROVE  Fades
<1>1. rows \in [DOMAIN rows -> Row]
  BY DEF UploadsOK, TypeOK
<1> QED
  BY <1>1, TouchedKeeps DEF Fades, SameEntries

\* Ids that were handed out are ids.
LEMMA UsedIds ==
    ASSUME UploadsOK
    PROVE  1 .. seq \subseteq Ids /\ DOMAIN rows \subseteq Ids /\ half \subseteq DOMAIN rows
BY MaxIdAssumption DEF UploadsOK, TypeOK, Ids

\* What fades stays or goes.
LEMMA FadesStay ==
    ASSUME Fades, NEW i \in Ids
    PROVE  BlobStays(i)
BY DEF Fades, BlobStays

\* A commit that waits keeps its file.
LEMMA FileKept ==
    ASSUME NEW t \in Threads, FileOK(t), thr'[t].pc \in CommitPcs => SameCommit(t),
           thr'[t].pc \in CommitPcs => BlobStays(thr[t].id)
    PROVE  FileOK(t)'
<1>1. CASE thr'[t].pc \notin CommitPcs
  BY <1>1 DEF FileOK, CommitPcs
<1>2. CASE thr'[t].pc \in CommitPcs
  <2>1. SameCommit(t) /\ BlobStays(thr[t].id)
    BY <1>2
  <2> QED
    BY <2>1 DEF FileOK, SameCommit, BlobStays
<1> QED
  BY <1>1, <1>2

\* Commits stay one a job, and of entries that are not complete.
LEMMA CommitsKept ==
    ASSUME UploadsOK, CommitsOK, CommitsWait, ProtocolOK',
           \A i \in DOMAIN rows' \cap (1 .. seq) :
              i \in DOMAIN rows /\ rows'[i].complete = rows[i].complete
    PROVE  CommitsOK'
<1>1. ASSUME NEW t \in Threads, thr'[t].part = -1
      PROVE  /\ thr[t].part = -1 /\ thr'[t].job = thr[t].job /\ thr'[t].id = thr[t].id
             /\ thr[t].id \in 1 .. seq
  <2>1. thr'[t].pc \in CommitPcs
    BY <1>1 DEF ProtocolOK, ThreadsOK
  <2>2. SameCommit(t)
    BY <2>1 DEF CommitsWait
  <2>3. thr[t].id \in 1 .. seq
    BY <2>1, <2>2, IdOfThread DEF UploadsOK, SameCommit, CommitPcs
  <2> QED
    BY <1>1, <2>2, <2>3 DEF SameCommit
<1> QED
  BY <1>1 DEF CommitsOK

\* For as long as a URL names an entry, nothing that fades takes it.
LEMMA UrlsFade ==
    ASSUME UploadsOK, UploadsOK', BlobsOK, Fades, NEW i \in Ids \ untouched, url[i] > 0
    PROVE  /\ i \in DOMAIN rows' /\ rows'[i].complete /\ blob'[i] # <<>>
           /\ rows'[i].age + url[i] <= InUseGrace
<1>1. /\ i \in DOMAIN rows /\ rows[i].complete /\ blob[i] # <<>>
      /\ rows[i].age + url[i] <= InUseGrace
  BY DEF BlobsOK
<1>2. rows[i].age \in Nat /\ url[i] \in Nat /\ InUseGrace \in Nat
  BY <1>1, TimesAssumption DEF UploadsOK, TypeOK, Row, InUseGrace
<1>3. InUse(rows[i])
  BY <1>1, <1>2 DEF InUse
<1>4. i \in DOMAIN rows' /\ blob'[i] = blob[i]
  BY <1>1, <1>3 DEF Fades
<1>5. rows'[i].age \in Nat /\ rows'[i].age <= rows[i].age /\ rows'[i].complete
  BY <1>1, <1>4 DEF Fades, UploadsOK, TypeOK, Row
<1> QED
  BY <1>1, <1>2, <1>4, <1>5

\* Complete entries keep their bytes when others fade.
LEMMA BlobsFade ==
    ASSUME UploadsOK, BlobsOK, Fades,
           \A i \in Ids \ untouched' : url'[i] > 0 => i \in DOMAIN rows' /\ rows'[i].complete
                             /\ blob'[i] # <<>> /\ rows'[i].age + url'[i] <= InUseGrace
    PROVE  BlobsOK'
<1>1. ASSUME NEW i \in DOMAIN rows', rows'[i].complete
      PROVE  \/ /\ blob'[i] # <<>>
                /\ DeclaredSize(rows'[i].job) # -1 => blob'[i] = Whole(rows'[i].job)
             \/ blob'[i] = <<>> /\ i \in half'
  <2>1. i \in DOMAIN rows /\ rows[i].complete /\ rows'[i].job = rows[i].job
    BY <1>1 DEF Fades
  <2>2. i \in Ids
    BY <2>1, UsedIds
  <2>3. \/ /\ blob[i] # <<>>
           /\ DeclaredSize(rows[i].job) # -1 => blob[i] = Whole(rows[i].job)
        \/ blob[i] = <<>> /\ i \in half
    BY <2>1 DEF BlobsOK
  <2>4. CASE blob'[i] = blob[i]
    <3>1. i \in half => i \in half'
      BY <1>1 DEF Fades
    <3> QED
      BY <2>1, <2>3, <2>4, <3>1
  <2>5. CASE blob'[i] = <<>> /\ i \in half'
    BY <2>5
  <2> QED
    BY <1>1, <2>2, <2>4, <2>5 DEF Fades
<1> QED
  BY <1>1 DEF BlobsOK

\* Commits that wait keep their files when the bytes of entries stay, or go
\* with the entries.
LEMMA FilesWait ==
    ASSUME UploadsOK, FilesOK, CommitsWait, \A i \in 1 .. seq : BlobStays(i)
    PROVE  FilesOK'
<1> SUFFICES ASSUME NEW t \in Threads
             PROVE  FileOK(t)'
  BY DEF FilesOK
<1>1. thr'[t].pc \in CommitPcs => BlobStays(thr[t].id)
  <2> SUFFICES ASSUME thr'[t].pc \in CommitPcs
               PROVE  BlobStays(thr[t].id)
    OBVIOUS
  <2>1. thr[t].pc # "idle"
    BY DEF CommitsWait, SameCommit, CommitPcs
  <2>2. thr[t].id \in 1 .. seq
    BY <2>1, IdOfThread DEF UploadsOK
  <2> QED
    BY <2>2
<1> QED
  BY <1>1, FileKept DEF FilesOK, CommitsWait

\* Steps in which no commit moves and no URL is given.
LEMMA SavesFade ==
    ASSUME UploadsOK, UploadsOK', SavesOK, Fades, CommitsWait, url' = url,
           untouched' = untouched
    PROVE  SavesOK'
<1>1. CommitsOK'
  BY CommitsKept DEF SavesOK, Fades, UploadsOK
<1>2. FilesOK'
  BY FadesStay, UsedIds, FilesWait DEF SavesOK
<1>3. BlobsOK'
  BY UrlsFade, BlobsFade DEF SavesOK
<1> QED
  BY <1>1, <1>2, <1>3 DEF SavesOK


\* Commits wait when a thread does something else, or nothing moves.
LEMMA OtherCommitsWait ==
    ASSUME NEW t \in Threads, OnlyThread(t), thr'[t].pc \notin CommitPcs
    PROVE  CommitsWait
BY DEF OnlyThread, CommitsWait, SameCommit

\* They wait, or end, when a thread rests.
LEMMA RestingCommitsWait ==
    ASSUME NEW t \in Threads, Rests(t)
    PROVE  CommitsWait
<1>1. OnlyThread(t) /\ thr'[t].pc \notin CommitPcs
  BY IdleIsThread DEF Rests, CommitPcs
<1> QED
  BY <1>1, OtherCommitsWait

\* They wait when no thread moves.
LEMMA StillCommitsWait ==
    ASSUME thr' = thr
    PROVE  CommitsWait
BY DEF CommitsWait, SameCommit

\* The steps of uploads, but for the last byte of a part.
LEMMA SavesUpload ==
    ASSUME UploadsOK, UploadsOK', SavesOK, NEW t \in Threads,
           \/ UploadMakesRoom(t) \/ WriteCreate(t) \/ WriteFails(t)
           \/ UploadTouches(t) \/ OrderBlocks(t),
           untouched' = untouched
    PROVE  SavesOK'
<1>0. TypeOK /\ ProtocolOK
  BY DEF UploadsOK
<1>1. CASE UploadMakesRoom(t)
  <2>1. PICK f \in Failures : MakeRoom(f) /\ seq' = seq /\ url' = url
    BY <1>1 DEF UploadMakesRoom
  <2>2. Fades
    BY <1>0, <2>1, MakeRoomShrinks, ShrinksFade
  <2>3. PICK pc \in {"order", "create"} : Goes(t, pc)
    BY <1>1 DEF UploadMakesRoom
  <2>4. pc \in Moves /\ pc \notin CommitPcs
    BY DEF Moves, UploadPcs, CommitPcs
  <2>5. GoesOn(t, pc)
    BY <1>0, <2>3, <2>4, GoesKeeps
  <2>6. CommitsWait
    BY <2>4, <2>5, OtherCommitsWait DEF GoesOn
  <2> QED
    BY <2>1, <2>2, <2>6, SavesFade
<1>2. CASE WriteCreate(t)
  <2>1. GoesOn(t, "copy") /\ DiskStep(thr[t].id) /\ blob' = blob /\ url' = url
    BY <1>0, <1>2, WriteCreateMoves
  <2>2. Fades
    BY <2>1, StaysFade DEF DiskStep
  <2>3. CommitsWait
    BY <2>1, OtherCommitsWait DEF GoesOn, CommitPcs
  <2> QED
    BY <2>1, <2>2, <2>3, SavesFade
<1>3. CASE WriteFails(t) \/ OrderBlocks(t)
  <2>1. /\ DiskStep(thr[t].id) /\ blob' = blob /\ url' = url
        /\ Answers(t, "acked") \/ FailsMove(t)
    BY <1>0, <1>3, WriteFailsMoves, OrderBlocksMoves
  <2>2. Fades
    BY <2>1, StaysFade DEF DiskStep
  <2>3. Rests(t)
    BY <1>0, <2>1, AnswersMoves DEF FailsMove
  <2> QED
    BY <2>1, <2>2, <2>3, RestingCommitsWait, SavesFade
<1>4. CASE UploadTouches(t)
  <2>1. /\ rows' = IF thr[t].id \in DOMAIN rows THEN Touched(rows, thr[t].id) ELSE rows
        /\ Answers(t, "acked")
        /\ UNCHANGED <<blob, half, url>>
    BY <1>4 DEF UploadTouches, disk, history
  <2>2. Fades
    BY <2>1, StaysFade, TouchesFade
  <2>3. Rests(t)
    BY <1>0, <2>1, AnswersMoves
  <2> QED
    BY <2>1, <2>2, <2>3, RestingCommitsWait, SavesFade
<1> QED
  BY <1>1, <1>2, <1>3, <1>4

\* The request for a part.
LEMMA SavesAdmit ==
    ASSUME UploadsOK, UploadsOK', SavesOK, NEW t \in Threads, NEW j \in Jobs,
           NEW p \in 0 .. PartsOf[j], Upload(t, j, p) \/ V2UploadBlob(t, j, p),
           untouched' = untouched
    PROVE  SavesOK'
<1>0. TypeOK
  BY DEF UploadsOK
<1>1. PICK open : Admits(t, j, p, open)
  BY DEF Upload, V2UploadBlob
<1>2. /\ UNCHANGED <<blob, half, url>>
      /\ Arrives(t, j, client[j].id, p, "room") \/ thr' = thr
  BY <1>1 DEF Admits, disk, history
<1>3. Fades
  <2>1. CASE rows' = rows
    BY <1>2, <2>1, StaysFade
  <2>2. CASE /\ rows' = Touched(rows, client[j].id)
             /\ client[j].id \in DOMAIN rows
    BY <1>2, <2>2, TouchesFade
  <2> QED
    BY <2>1, <2>2 DEF Upload, V2UploadBlob
<1>4. CommitsWait
  <2>1. CASE Arrives(t, j, client[j].id, p, "room")
    <3>1. client[j].id \in Nat /\ p \in Int /\ "room" \in Moves
      BY <1>0, PartsAssumption DEF TypeOK, Client, Moves, UploadPcs
    <3>2. /\ OnlyThread(t)
          /\ thr'[t] = [pc |-> "room", job |-> j, id |-> client[j].id, part |-> p,
                        left |-> {}, file |-> <<>>, live |-> TRUE]
      BY <1>0, <2>1, <3>1, ArrivesTakes
    <3>3. thr'[t].pc \notin CommitPcs
      BY <3>2 DEF CommitPcs
    <3> QED
      BY <3>2, <3>3, OtherCommitsWait
  <2> QED
    BY <1>2, <2>1, StillCommitsWait
<1> QED
  BY <1>2, <1>3, <1>4, SavesFade

\* Requests that end, clients that give up, restarts and sweeps.
LEMMA SavesRest ==
    ASSUME UploadsOK, UploadsOK', SavesOK,
           \/ \E t \in Threads : CommitLockTimeout(t) \/ GiveUp(t)
           \/ \E i \in Ids : Get(i)
           \/ GcCache \/ GcMakesRoom \/ Crash,
           untouched' = untouched
    PROVE  SavesOK'
<1>0. TypeOK /\ ProtocolOK
  BY DEF UploadsOK
<1>1. ASSUME NEW t \in Threads, CommitLockTimeout(t)
      PROVE  SavesOK'
  <2>1. UNCHANGED <<rows, blob, half, url>> /\ \E phase \in Phases : Answers(t, phase)
    BY <1>1 DEF CommitLockTimeout, store, disk, history, Phases
  <2>2. Rests(t)
    BY <1>0, <2>1, AnswersMoves
  <2> QED
    BY <2>1, <2>2, StaysFade, RestingCommitsWait, SavesFade
<1>2. ASSUME NEW t \in Threads, GiveUp(t)
      PROVE  SavesOK'
  <2>1. UNCHANGED <<rows, blob, half, url>>
    BY <1>2 DEF GiveUp, disk, history
  <2>2. /\ OnlyThread(t)
        /\ SameCommit(t)
    BY <1>0, <1>2, GiveUpMoves DEF SameCommit
  <2>3. CommitsWait
    BY <2>2 DEF OnlyThread, CommitsWait, SameCommit
  <2> QED
    BY <2>1, <2>3, StaysFade, SavesFade
<1>3. ASSUME NEW i \in Ids, Get(i)
      PROVE  SavesOK'
  <2>1. /\ rows' = IF i \in DOMAIN rows THEN Touched(rows, i) ELSE rows
        /\ UNCHANGED <<blob, half, url, thr>>
    BY <1>3 DEF Get, disk, history
  <2>2. Fades
    BY <2>1, StaysFade, TouchesFade
  <2> QED
    BY <2>1, <2>2, StillCommitsWait, SavesFade
<1>4. ASSUME GcCache
      PROVE  SavesOK'
  <2>1. Fades /\ url' = url /\ thr' = thr
    BY <1>0, <1>4, GcCacheShrinks, ShrinksFade DEF GcCache
  <2> QED
    BY <2>1, StillCommitsWait, SavesFade
<1>5. ASSUME GcMakesRoom
      PROVE  SavesOK'
  <2>1. PICK f \in Failures : MakeRoom(f) /\ seq' = seq /\ url' = url /\ thr' = thr
    BY <1>5 DEF GcMakesRoom
  <2>2. Fades
    BY <1>0, <2>1, MakeRoomShrinks, ShrinksFade
  <2> QED
    BY <2>1, <2>2, StillCommitsWait, SavesFade
<1>6. ASSUME Crash
      PROVE  SavesOK'
  <2>1. UNCHANGED <<rows, blob, half, url>> /\ \A t \in Threads : thr'[t] = Idle
    BY <1>6 DEF Crash, store, disk, history
  <2>2. CommitsWait
    BY <2>1, IdleIsThread DEF CommitsWait, CommitPcs
  <2> QED
    BY <2>1, <2>2, StaysFade, SavesFade
<1> QED
  BY <1>1, <1>2, <1>3, <1>4, <1>5, <1>6

\* A restore, whose URL is no longer usable than the entry is in use.
LEMMA SavesLookup ==
    ASSUME UploadsOK, UploadsOK', SavesOK, NEW j \in Jobs, LookupCache(j)
    PROVE  SavesOK'
<1>0. TypeOK /\ TypeOK'
  BY DEF UploadsOK
<1>1. /\ \E tried : Shrinks(tried) /\ Younger /\ Evictable(tried)
      /\ thr' = thr
      /\ \A i \in Ids \ untouched' :
            \/ url'[i] = url[i] /\ i \notin untouched
            \/ /\ url'[i] = UrlTTL + 1
               /\ i \in DOMAIN rows' /\ rows'[i].complete
               /\ blob'[i] # <<>> /\ rows'[i].age < TouchStale
  BY <1>0, LookupShrinks
<1>2. Fades /\ CommitsWait
  BY <1>1, ShrinksFade, StillCommitsWait
<1>3. ASSUME NEW i \in Ids \ untouched', url'[i] > 0
      PROVE  /\ i \in DOMAIN rows' /\ rows'[i].complete /\ blob'[i] # <<>>
             /\ rows'[i].age + url'[i] <= InUseGrace
  <2>1. CASE url'[i] = url[i] /\ i \notin untouched
    BY <1>2, <1>3, <2>1, UrlsFade DEF SavesOK
  <2>2. CASE /\ url'[i] = UrlTTL + 1
             /\ i \in DOMAIN rows' /\ rows'[i].complete
             /\ blob'[i] # <<>> /\ rows'[i].age < TouchStale
    <3>1. rows'[i].age \in Nat
      BY <1>0, <2>2 DEF TypeOK, Row
    <3>2. rows'[i].age + url'[i] <= InUseGrace
      BY <2>2, <3>1, TimesAssumption DEF InUseGrace
    <3> QED
      BY <2>2, <3>2
  <2> QED
    BY <1>1, <2>1, <2>2
<1>4. BlobsOK'
  BY <1>2, <1>3, BlobsFade DEF SavesOK
<1>5. CommitsOK'
  BY <1>2, CommitsKept DEF SavesOK, Fades, UploadsOK
<1>6. FilesOK'
  BY <1>2, FadesStay, UsedIds, FilesWait DEF SavesOK
<1> QED
  BY <1>4, <1>5, <1>6 DEF SavesOK


\* Steps that leave all bytes alone and commit nothing.
LEMMA SavesAge ==
    ASSUME UploadsOK, UploadsOK', SavesOK, CommitsWait, UNCHANGED <<blob, half>>,
           \A i \in DOMAIN rows' \cap (1 .. seq) :
              /\ i \in DOMAIN rows /\ rows'[i].complete = rows[i].complete
              /\ rows'[i].job = rows[i].job,
           \A i \in DOMAIN rows' \ (1 .. seq) : ~rows'[i].complete,
           \A i \in Ids \ untouched' : url'[i] > 0 => i \in DOMAIN rows' /\ rows'[i].complete
                             /\ blob'[i] # <<>> /\ rows'[i].age + url'[i] <= InUseGrace,
           untouched' = untouched
    PROVE  SavesOK'
<1>1. CommitsOK'
  BY CommitsKept DEF SavesOK, UploadsOK
<1>2. FilesOK'
  BY FilesWait DEF SavesOK, BlobStays
<1>3. BlobsOK'
  <2>1. ASSUME NEW i \in DOMAIN rows', rows'[i].complete
        PROVE  \/ /\ blob'[i] # <<>>
                  /\ DeclaredSize(rows'[i].job) # -1 => blob'[i] = Whole(rows'[i].job)
               \/ blob'[i] = <<>> /\ i \in half'
    <3>1. i \in DOMAIN rows /\ rows[i].complete /\ rows'[i].job = rows[i].job
      BY <2>1
    <3> QED
      BY <3>1 DEF SavesOK, BlobsOK
  <2> QED
    BY <2>1 DEF BlobsOK
<1> QED
  BY <1>1, <1>2, <1>3 DEF SavesOK

\* Time passes for an entry and for the URLs that name it alike.
LEMMA SavesTick ==
    ASSUME UploadsOK, UploadsOK', SavesOK, Tick,
           untouched' = untouched
    PROVE  SavesOK'
<1>1. /\ rows' = [i \in DOMAIN rows |->
                   [rows[i] EXCEPT !.age = IF @ < MaxAge THEN @ + 1 ELSE @]]
      /\ url' = [i \in Ids |-> IF url[i] > 0 THEN url[i] - 1 ELSE 0]
      /\ UNCHANGED <<blob, half, thr>>
  BY DEF Tick, disk, history
<1>2. rows \in [DOMAIN rows -> Row] /\ url \in [Ids -> Nat]
  BY DEF UploadsOK, TypeOK
<1>3. /\ DOMAIN rows' = DOMAIN rows
      /\ \A i \in DOMAIN rows : /\ rows'[i].complete = rows[i].complete
                                /\ rows'[i].job = rows[i].job
                                /\ rows[i].age \in Nat /\ rows'[i].age \in Nat
                                /\ rows'[i].age <= rows[i].age + 1
  BY <1>1, <1>2 DEF Row
<1>4. ASSUME NEW i \in Ids \ untouched', url'[i] > 0
      PROVE  /\ i \in DOMAIN rows' /\ rows'[i].complete /\ blob'[i] # <<>>
             /\ rows'[i].age + url'[i] <= InUseGrace
  <2>1. url[i] > 0 /\ url'[i] = url[i] - 1 /\ url[i] \in Nat
    BY <1>1, <1>2, <1>4
  <2>2. /\ i \in DOMAIN rows /\ rows[i].complete /\ blob[i] # <<>>
        /\ rows[i].age + url[i] <= InUseGrace
    BY <2>1 DEF SavesOK, BlobsOK
  <2>3. InUseGrace \in Nat
    BY TimesAssumption DEF InUseGrace
  <2>4. /\ rows'[i].complete /\ rows[i].age \in Nat /\ rows'[i].age \in Nat
        /\ rows'[i].age <= rows[i].age + 1
    BY <1>3, <2>2
  <2>5. rows'[i].age + url'[i] <= InUseGrace
    BY <2>1, <2>2, <2>3, <2>4
  <2> QED
    BY <1>1, <1>3, <2>2, <2>4, <2>5
<1>5. DOMAIN rows' \ (1 .. seq) = {}
  BY <1>3 DEF UploadsOK, TypeOK
<1> QED
  BY <1>1, <1>3, <1>4, <1>5, StillCommitsWait, SavesAge

\* A reservation changes no other entry.
LEMMA SavesReserve ==
    ASSUME UploadsOK, UploadsOK', SavesOK, NEW j \in Jobs,
           Reserve(j) \/ V2CreateCacheEntry(j),
           untouched' = untouched
    PROVE  SavesOK'
<1>1. UNCHANGED <<blob, half, url, thr>>
  BY DEF Reserve, V2CreateCacheEntry, disk, history
<1>2. CommitsWait
  BY <1>1, StillCommitsWait
<1>3. ASSUME Insert(NewRow(j))
      PROVE  SavesOK'
  <2>1. /\ DOMAIN rows' = DOMAIN rows \cup {seq + 1}
        /\ rows'[seq + 1] = NewRow(j)
        /\ \A i \in DOMAIN rows : i # seq + 1 /\ rows'[i] = rows[i]
    BY <1>3, InsertAdds DEF UploadsOK
  <2>2. ~NewRow(j).complete /\ DOMAIN rows \subseteq 1 .. seq /\ seq + 1 \notin 1 .. seq
    BY NewRowIsRow DEF UploadsOK, TypeOK
  <2>3. ASSUME NEW i \in Ids \ untouched', url'[i] > 0
        PROVE  /\ i \in DOMAIN rows' /\ rows'[i].complete /\ blob'[i] # <<>>
               /\ rows'[i].age + url'[i] <= InUseGrace
    <3>1. /\ i \in DOMAIN rows /\ rows[i].complete /\ blob[i] # <<>>
          /\ rows[i].age + url[i] <= InUseGrace
      BY <1>1, <2>3 DEF SavesOK, BlobsOK
    <3>2. i \in DOMAIN rows' /\ rows'[i] = rows[i]
      BY <2>1, <3>1
    <3> QED
      BY <1>1, <3>1, <3>2
  <2>4. \A i \in DOMAIN rows' \cap (1 .. seq) : i \in DOMAIN rows /\ rows'[i] = rows[i]
    BY <2>1, <2>2
  <2>5. \A i \in DOMAIN rows' \ (1 .. seq) : ~rows'[i].complete
    BY <2>1, <2>2
  <2> HIDE DEF NewRow
  <2> QED
    BY <1>1, <1>2, <2>3, <2>4, <2>5, SavesAge
<1>4. CASE Reserve(j)
  BY <1>3, <1>4 DEF Reserve
<1>5. CASE V2CreateCacheEntry(j)
  <2> DEFINE existing == Exact(rows, j, TRUE)
             pending  == Exact(rows, j, FALSE)
             latest   == LatestOf(rows, pending, FALSE)
  <2>1. \/ existing # {} /\ rows' = Touched(rows, LatestOf(rows, existing, TRUE))
        \/ rows' = rows
        \/ pending # {} /\ rows' = Touched(rows, latest)
        \/ Insert(NewRow(j))
    BY <1>5 DEF V2CreateCacheEntry
  <2>2. \A complete \in BOOLEAN : Exact(rows, j, complete) # {} =>
           LatestOf(rows, Exact(rows, j, complete), complete) \in DOMAIN rows
    BY LatestIsRow
  <2>3. ASSUME NEW id \in DOMAIN rows, rows' = Touched(rows, id)
        PROVE  SavesOK'
    BY <1>1, <1>2, <2>3, TouchesFade, SavesFade
  <2>4. CASE rows' = rows
    BY <1>1, <1>2, <2>4, StaysFade, SavesFade
  <2> QED
    BY <1>3, <2>1, <2>2, <2>3, <2>4
<1> QED
  BY <1>4, <1>5


-----------------------------------------------------------------------------
(* The file a commit puts together.                                         *)

\* It begins with one part.
LEMMA OrderOfOne ==
    ASSUME NEW n \in Int, NEW parts \in Nat, Size(n) \in 1 .. parts
    PROVE  InOrder(<<n>>, parts)
<1>1. <<n>> # <<>> /\ Len(<<n>>) = 1 /\ <<n>>[1] = n
  OBVIOUS
<1>2. \A k \in 1 .. Len(<<n>>) : k = 1
  BY <1>1
<1> QED
  BY <1>1, <1>2 DEF InOrder, Size

\* It goes on with a later one.
LEMMA OrderOfMore ==
    ASSUME NEW file \in Seq(Int), NEW parts \in Nat, InOrder(file, parts),
           NEW n \in Int, Size(n) \in 1 .. parts, Size(n) > Size(file[Len(file)])
    PROVE  LET more == Append(file, n)
           IN  InOrder(more, parts) /\ more[Len(more)] = n
<1> DEFINE more == Append(file, n)
           len == Len(file)
<1>1. /\ more \in Seq(Int) /\ Len(more) = len + 1 /\ len \in Nat
      /\ \A k \in 1 .. len : more[k] = file[k]
      /\ more[len + 1] = n
  BY AppendProperties
<1>2. /\ len # 0 /\ more # <<>> /\ \A k \in 1 .. len : file[k] \in Int
  BY <1>1, EmptySeq DEF InOrder
<1>3. \A k \in 1 .. len : Size(file[k]) \in Int
  BY <1>2 DEF Size
<1>4. Size(n) \in Int /\ Size(file[len]) \in Int
  BY <1>1, <1>2, <1>3 DEF Size
<1> HIDE DEF more
<1>5. ASSUME NEW k \in 1 .. Len(more)
      PROVE  /\ k <= Size(more[k])
             /\ Size(more[k]) + (Len(more) - k) <= Size(more[Len(more)])
  <2>1. CASE k = len + 1
    <3>1. len <= Size(file[len])
      BY <1>1, <1>2 DEF InOrder
    <3> QED
      BY <1>1, <1>4, <2>1, <3>1
  <2>2. CASE k # len + 1
    <3>1. k \in 1 .. len
      BY <1>1, <2>2
    <3>2. k <= Size(file[k]) /\ Size(file[k]) + (len - k) <= Size(file[len])
      BY <3>1 DEF InOrder
    <3>3. Size(file[k]) \in Int /\ more[k] = file[k]
      BY <1>1, <1>3, <3>1
    <3> QED
      BY <1>1, <1>4, <3>1, <3>2, <3>3
  <2> QED
    BY <2>1, <2>2
<1>6. Size(more[Len(more)]) <= parts
  BY <1>1, <1>4
<1> QED
  BY <1>1, <1>2, <1>5, <1>6 DEF InOrder, more

\* A file in order that is as large as all parts is all parts, whole and each
\* in its place.
LEMMA WholeWhenSized ==
    ASSUME NEW file \in Seq(Int), NEW parts \in Nat, InOrder(file, parts),
           SizeOf(file) = parts
    PROVE  file = [k \in 1 .. parts |-> k]
<1> DEFINE len == Len(file)
           good == {k \in DOMAIN file : file[k] > 0}
<1>1. len \in Nat /\ DOMAIN file = 1 .. len /\ file \in [1 .. len -> Int]
  OBVIOUS
<1>2. len # 0
  BY <1>1, EmptySeq DEF InOrder
<1>3. \A k \in 1 .. len : Size(file[k]) \in Int
  BY <1>1 DEF Size
<1>4. len <= parts
  <2>1. 1 \in 1 .. len /\ len \in 1 .. len
    BY <1>1, <1>2
  <2>2. 1 <= Size(file[1]) /\ Size(file[1]) + (len - 1) <= Size(file[len])
    BY <2>1 DEF InOrder
  <2>3. Size(file[len]) <= parts
    BY DEF InOrder
  <2> QED
    BY <1>1, <1>3, <2>1, <2>2, <2>3
<1>5. IsFiniteSet(1 .. len) /\ Cardinality(1 .. len) = len
  <2>1. /\ IsFiniteSet(1 .. len)
        /\ Cardinality(1 .. len) = IF 1 > len THEN 0 ELSE len - 1 + 1
    <3>1. 1 \in Int /\ len \in Int
      BY <1>1
    <3> HIDE DEF len
    <3> QED
      BY <3>1, FS_Interval
  <2> QED
    BY <1>1, <2>1
<1>6. good \in SUBSET (1 .. len) /\ Cardinality(good) = parts
  BY <1>1 DEF SizeOf
<1> HIDE DEF good
<1>7. Cardinality(good) <= len /\ (len = Cardinality(good) => 1 .. len = good)
  <2> HIDE DEF len
  <2>1. /\ Cardinality(good) <= Cardinality(1 .. len)
        /\ Cardinality(1 .. len) = Cardinality(good) => 1 .. len = good
    BY <1>5, <1>6, FS_Subset
  <2> QED
    BY <1>5, <2>1
<1>8. len = parts /\ good = 1 .. len
  <2>1. parts <= len
    BY <1>6, <1>7
  <2>2. len = parts
    <3>1. len \in Nat
      BY <1>1
    <3> HIDE DEF len
    <3> QED
      BY <1>4, <2>1, <3>1
  <2>3. len = Cardinality(good)
    BY <1>6, <2>2
  <2> QED
    BY <1>7, <2>2, <2>3
<1>9. ASSUME NEW k \in 1 .. len
      PROVE  file[k] = k
  <2>1. k \in good
    BY <1>8
  <2>2. file[k] > 0 /\ file[k] \in Int
    BY <1>1, <2>1 DEF good
  <2>3. Size(file[k]) = file[k]
    BY <2>2 DEF Size
  <2>4. k <= file[k] /\ file[k] + (len - k) <= Size(file[len])
    BY <2>3 DEF InOrder
  <2>5. Size(file[len]) <= len /\ Size(file[len]) \in Int
    BY <1>1, <1>2, <1>3, <1>8 DEF InOrder
  <2> QED
    BY <1>1, <2>2, <2>4, <2>5
<1> QED
  BY <1>1, <1>8, <1>9

\* The last byte of a part that leads a file changes no order.
LEMMA FillHeadKeeps ==
    ASSUME NEW file \in Seq(Int), NEW n \in Nat \ {0}
    PROVE  LET full == FillHead(file, n)
           IN  /\ full = <<>> <=> file = <<>>
               /\ Len(full) = Len(file) /\ full \in Seq(Int)
               /\ \A k \in 1 .. Len(file) : Size(full[k]) = Size(file[k])
               /\ (\A k \in 1 .. Len(file) : file[k] > 0) => full = file
<1> DEFINE full == FillHead(file, n)
<1>1. CASE file = <<>> \/ Head(file) # -n
  <2>1. full = file
    BY <1>1 DEF FillHead
  <2> QED
    BY <2>1
<1>2. CASE file # <<>> /\ Head(file) = -n
  <2>1. full = <<n>> \o Tail(file)
    BY <1>2 DEF FillHead
  <2>2. /\ Len(file) \in Nat /\ Len(file) # 0 /\ file[1] = -n
        /\ Tail(file) \in Seq(Int) /\ Len(Tail(file)) = Len(file) - 1
        /\ \A k \in 1 .. Len(Tail(file)) : Tail(file)[k] = file[k + 1]
    BY <1>2, EmptySeq, HeadTailProperties
  <2>3. <<n>> \in Seq(Int) /\ Len(<<n>>) = 1 /\ <<n>>[1] = n
    OBVIOUS
  <2>4. /\ full \in Seq(Int) /\ Len(full) = 1 + Len(Tail(file))
        /\ \A k \in 1 .. 1 + Len(Tail(file)) :
              full[k] = IF k <= 1 THEN <<n>>[k] ELSE Tail(file)[k - 1]
    BY <2>1, <2>2, <2>3, ConcatProperties
  <2> HIDE DEF full
  <2>5. ASSUME NEW k \in 1 .. Len(file)
        PROVE  Size(full[k]) = Size(file[k])
    <3>1. CASE k = 1
      BY <2>2, <2>3, <2>4, <3>1 DEF Size
    <3>2. CASE k # 1
      <4>1. k - 1 \in 1 .. Len(Tail(file)) /\ k \in 1 .. 1 + Len(Tail(file))
        BY <2>2, <3>2
      <4>2. full[k] = Tail(file)[k - 1] /\ Tail(file)[k - 1] = file[k - 1 + 1]
        BY <2>2, <2>4, <3>2, <4>1
      <4>3. k - 1 + 1 = k
        BY <2>2
      <4> QED
        BY <4>2, <4>3
    <3> QED
      BY <3>1, <3>2
  <2>6. Len(full) = Len(file) /\ full # <<>>
    BY <2>2, <2>4
  <2>7. 1 \in 1 .. Len(file) /\ ~(file[1] > 0)
    BY <2>2
  <2> QED
    BY <1>2, <2>4, <2>5, <2>6, <2>7 DEF full
<1> QED
  BY <1>1, <1>2

\* Nor does it take a file out of order.
LEMMA FillHeadInOrder ==
    ASSUME NEW file \in Seq(Int), NEW n \in Nat \ {0}, NEW parts \in Nat, InOrder(file, parts)
    PROVE  /\ InOrder(FillHead(file, n), parts)
           /\ Size(FillHead(file, n)[Len(FillHead(file, n))]) = Size(file[Len(file)])
<1> DEFINE full == FillHead(file, n)
<1>1. /\ full # <<>> /\ Len(full) = Len(file) /\ Len(file) \in 1 .. Len(file)
      /\ \A k \in 1 .. Len(file) : Size(full[k]) = Size(file[k])
  <2>1. Len(file) \in Nat /\ Len(file) # 0 /\ file # <<>>
    BY EmptySeq DEF InOrder
  <2> QED
    BY <2>1, FillHeadKeeps
<1> HIDE DEF full
<1> QED
  BY <1>1 DEF InOrder, full


-----------------------------------------------------------------------------
(* The steps of a commit.                                                   *)

\* Two commits are of two entries.
LEMMA OtherEntry ==
    ASSUME UploadsOK, CommitsOK, NEW t \in Threads, NEW u \in Threads, t # u,
           thr[t].pc \in CommitPcs, thr[u].pc \in CommitPcs
    PROVE  thr[u].id # thr[t].id
<1>1. thr[t].part = -1 /\ thr[u].part = -1 /\ thr[t].pc # "idle" /\ thr[u].pc # "idle"
  BY DEF UploadsOK, ProtocolOK, ThreadsOK, CommitPcs
<1>2. /\ thr[t].job \in Jobs /\ Holds(thr[t].id, thr[t].job) /\ thr[t].id \in Ids
      /\ thr[u].job \in Jobs /\ Holds(thr[u].id, thr[u].job)
  BY <1>1, IdOfThread DEF UploadsOK
<1>3. thr[t].job # thr[u].job
  BY <1>1 DEF CommitsOK
<1> QED
  BY <1>2, <1>3 DEF UploadsOK, EntriesOK

\* No entry that is complete is being committed.
LEMMA CommitsIncomplete ==
    ASSUME UploadsOK, CommitsOK, NEW t \in Threads, thr[t].pc \in CommitPcs,
           thr[t].id \in DOMAIN rows
    PROVE  ~rows[thr[t].id].complete
BY DEF UploadsOK, ProtocolOK, ThreadsOK, CommitsOK

\* A commit that moves is still of the same entry.
LEMMA CommitsMove ==
    ASSUME UploadsOK, CommitsOK, UploadsOK', NEW t \in Threads, thr[t].pc \in CommitPcs,
           OnlyThread(t),
           thr'[t].pc \in CommitPcs => thr'[t].id = thr[t].id /\ thr'[t].job = thr[t].job,
           rows' = rows
    PROVE  CommitsOK'
<1>1. ASSUME NEW u \in Threads, thr'[u].part = -1
      PROVE  thr[u].part = -1 /\ thr'[u].id = thr[u].id /\ thr'[u].job = thr[u].job
  <2>1. thr'[u].pc \in CommitPcs /\ thr[t].part = -1
    BY <1>1 DEF UploadsOK, ProtocolOK, ThreadsOK
  <2> QED
    BY <1>1, <2>1 DEF OnlyThread
<1> QED
  BY <1>1 DEF CommitsOK

\* The bytes of other entries are left alone.
LEMMA BlobsMove ==
    ASSUME UploadsOK, BlobsOK, NEW i \in Ids, DiskStep(i), url' = url,
           i \in DOMAIN rows => ~rows[i].complete,
           untouched' = untouched
    PROVE  BlobsOK'
<1>1. \A k \in DOMAIN rows : rows[k].complete => blob'[k] = blob[k]
  BY UsedIds DEF DiskStep
<1>2. rows' = rows /\ half' = half
  BY DEF DiskStep
<1> QED
  BY <1>1, <1>2 DEF BlobsOK

\* What is left to show of a commit that moves: its own file.
LEMMA SavesMove ==
    ASSUME UploadsOK, UploadsOK', SavesOK, NEW t \in Threads, thr[t].pc \in CommitPcs,
           DiskStep(thr[t].id), url' = url, OnlyThread(t),
           thr'[t].pc \in CommitPcs => thr'[t].id = thr[t].id /\ thr'[t].job = thr[t].job,
           FileOK(t)',
           untouched' = untouched
    PROVE  SavesOK'
<1>1. thr[t].pc # "idle" /\ thr[t].id \in Ids
  BY IdOfThread DEF UploadsOK, CommitPcs
<1>2. CommitsOK'
  BY CommitsMove DEF SavesOK, DiskStep
<1>3. BlobsOK'
  BY <1>1, CommitsIncomplete, BlobsMove DEF SavesOK
<1>4. ASSUME NEW u \in Threads, u # t
      PROVE  FileOK(u)'
  <2>1. thr'[u] = thr[u]
    BY <1>4 DEF OnlyThread
  <2>2. thr'[u].pc \in CommitPcs => BlobStays(thr[u].id)
    <3> SUFFICES ASSUME thr[u].pc \in CommitPcs
                 PROVE  BlobStays(thr[u].id)
      BY <2>1
    <3>1. thr[u].id # thr[t].id
      BY <1>4, OtherEntry DEF SavesOK
    <3>2. thr[u].id \in Ids
      BY IdOfThread DEF UploadsOK, CommitPcs
    <3> QED
      BY <3>1, <3>2 DEF DiskStep, BlobStays
  <2> QED
    BY <2>1, <2>2, FileKept DEF SavesOK, FilesOK, SameCommit
<1>5. FilesOK'
  BY <1>4 DEF FilesOK
<1> QED
  BY <1>2, <1>3, <1>5 DEF SavesOK

\* A commit that ends has no file to keep.
LEMMA SavesEnd ==
    ASSUME UploadsOK, UploadsOK', SavesOK, NEW t \in Threads, thr[t].pc \in CommitPcs,
           DiskStep(thr[t].id), url' = url, FailsMove(t),
           untouched' = untouched
    PROVE  SavesOK'
<1>1. OnlyThread(t) /\ thr'[t].pc = "idle"
  BY IdleIsThread DEF FailsMove, Rests
<1>2. thr'[t].pc \notin CommitPcs /\ FileOK(t)'
  BY <1>1 DEF FileOK, CommitPcs
<1> QED
  BY <1>1, <1>2, SavesMove

\* The names a commit lists are names of parts.
LEMMA SavesList ==
    ASSUME UploadsOK, UploadsOK', SavesOK, NEW t \in Threads, CommitList(t),
           untouched' = untouched
    PROVE  SavesOK'
<1> DEFINE i == thr[t].id
           j == thr[t].job
<1>1. /\ thr[t].pc = "list"
      /\ UNCHANGED <<rows, seq, blob, staged, half, stray, url>>
      /\ \/ GoesOn(t, "rename") /\ thr'[t].left = {Size(n) : n \in staged[i].parts}
         \/ FailsMove(t)
  BY CommitListMoves DEF UploadsOK
<1>2. thr[t].pc \in CommitPcs /\ i \in Ids /\ j \in Jobs /\ Holds(i, j)
  BY <1>1, IdOfThread DEF UploadsOK, CommitPcs
<1>3. DiskStep(i)
  BY <1>1 DEF DiskStep, UploadsOK, TypeOK
<1>4. CASE FailsMove(t)
  BY <1>1, <1>2, <1>3, <1>4, SavesEnd
<1>5. CASE GoesOn(t, "rename") /\ thr'[t].left = {Size(n) : n \in staged[i].parts}
  <2>1. \A n \in staged[i].parts : Size(n) \in 1 .. PartsOf[j]
    <3> SUFFICES ASSUME NEW n \in staged[i].parts
                 PROVE  Size(n) \in 1 .. PartsOf[j]
      OBVIOUS
    <3>1. n \in FilesOf(j)
      BY <1>2 DEF UploadsOK, EntriesOK
    <3>2. n \in Int /\ (n \in 1 .. PartsOf[j] \/ -n \in 1 .. PartsOf[j])
      BY <3>1 DEF FilesOf
    <3> QED
      BY <1>2, <3>2, PartsAssumption DEF Size
  <2>2. FileOK(t)'
    BY <1>5, <2>1 DEF GoesOn, FileOK
  <2> QED
    BY <1>1, <1>2, <1>3, <1>5, <2>2, SavesMove DEF GoesOn
<1> QED
  BY <1>1, <1>4, <1>5

\* The part a commit takes is the first of those it has left.
LEMMA TakenIsLeast ==
    ASSUME UploadsOK, NEW t \in Threads, FileOK(t), thr[t].pc \in CommitPcs,
           NEW n \in Int, Takes(t, n)
    PROVE  /\ Size(n) \in thr[t].left /\ Size(n) \in 1 .. PartsOf[thr[t].job]
           /\ PartsOf[thr[t].job] \in Nat
           /\ thr'[t].left \subseteq thr[t].left
           /\ \A k \in thr'[t].left : k > Size(n)
<1>1. PICK m \in thr[t].left : n \in {m, -m} /\ \A k \in thr[t].left : m <= k
  BY DEF Takes
<1>2. thr[t].left \subseteq 1 .. PartsOf[thr[t].job] /\ PartsOf[thr[t].job] \in Nat
  BY PartsAssumption DEF FileOK, UploadsOK, TypeOK, Thread
<1>3. m \in 1 .. PartsOf[thr[t].job] /\ Size(n) = m
  BY <1>1, <1>2 DEF Size
<1>4. thr'[t].left = thr[t].left \ {n, -n}
  BY DEF Takes
<1>5. ASSUME NEW k \in thr'[t].left
      PROVE  k > m
  <2>1. k \in thr[t].left /\ k # n /\ k # -n
    BY <1>4
  <2>2. k \in 1 .. PartsOf[thr[t].job] /\ m <= k
    BY <1>1, <1>2, <2>1
  <2> QED
    BY <1>1, <1>2, <1>3, <2>1, <2>2
<1> QED
  BY <1>1, <1>2, <1>3, <1>4, <1>5

\* The file begins with the first part.
LEMMA SavesRename ==
    ASSUME UploadsOK, UploadsOK', SavesOK, NEW t \in Threads, CommitRename(t),
           untouched' = untouched
    PROVE  SavesOK'
<1> DEFINE i == thr[t].id
<1>1. /\ thr[t].pc = "rename" /\ DiskStep(i) /\ url' = url
      /\ \/ /\ GoesOn(t, "append")
            /\ \E n \in Int : Takes(t, n) /\ thr'[t].file = <<n>> /\ blob'[i] = <<n>>
         \/ FailsMove(t)
  BY CommitRenameMoves DEF UploadsOK
<1>2. thr[t].pc \in CommitPcs /\ FileOK(t)
  BY <1>1 DEF CommitPcs, SavesOK, FilesOK
<1>3. CASE FailsMove(t)
  BY <1>1, <1>2, <1>3, SavesEnd
<1>4. CASE /\ GoesOn(t, "append")
           /\ \E n \in Int : Takes(t, n) /\ thr'[t].file = <<n>> /\ blob'[i] = <<n>>
  <2>1. PICK n \in Int : Takes(t, n) /\ thr'[t].file = <<n>> /\ blob'[i] = <<n>>
    BY <1>4
  <2>2. /\ Size(n) \in 1 .. PartsOf[thr[t].job] /\ PartsOf[thr[t].job] \in Nat
        /\ thr'[t].left \subseteq 1 .. PartsOf[thr[t].job]
        /\ \A k \in thr'[t].left : k > Size(n)
    BY <1>2, <2>1, TakenIsLeast DEF FileOK
  <2>3. InOrder(<<n>>, PartsOf[thr[t].job])
    BY <2>2, OrderOfOne
  <2>4. /\ thr'[t].pc = "append" /\ thr'[t].job = thr[t].job /\ thr'[t].id = i
        /\ OnlyThread(t)
    BY <1>4 DEF GoesOn
  <2>5. Size(thr'[t].file[Len(thr'[t].file)]) = Size(n)
    BY <2>1
  <2>6. FileOK(t)'
    BY <2>1, <2>2, <2>3, <2>4, <2>5 DEF FileOK
  <2> QED
    BY <1>1, <1>2, <2>4, <2>6, SavesMove
<1> QED
  BY <1>1, <1>3, <1>4

\* It goes on with the next one.
LEMMA SavesAppend ==
    ASSUME UploadsOK, UploadsOK', SavesOK, NEW t \in Threads, CommitAppend(t),
           untouched' = untouched
    PROVE  SavesOK'
<1> DEFINE i == thr[t].id
           file == thr[t].file
<1>1. /\ thr[t].pc = "append" /\ DiskStep(i) /\ url' = url
      /\ \/ /\ GoesOn(t, "append")
            /\ \E n \in Int :
                 /\ Takes(t, n)
                 /\ thr'[t].file = Append(file, n)
                 /\ blob'[i] = IF blob[i] # <<>> /\ Head(blob[i]) = Head(file)
                               THEN Append(file, n) ELSE blob[i]
         \/ FailsMove(t)
  BY CommitAppendMoves DEF UploadsOK
<1>2. thr[t].pc \in CommitPcs /\ FileOK(t) /\ file \in Seq(Int)
  BY <1>1 DEF CommitPcs, SavesOK, FilesOK, UploadsOK, TypeOK, Thread
<1>3. CASE FailsMove(t)
  BY <1>1, <1>2, <1>3, SavesEnd
<1>4. CASE /\ GoesOn(t, "append")
           /\ \E n \in Int :
                 /\ Takes(t, n)
                 /\ thr'[t].file = Append(file, n)
                 /\ blob'[i] = IF blob[i] # <<>> /\ Head(blob[i]) = Head(file)
                               THEN Append(file, n) ELSE blob[i]
  <2>1. PICK n \in Int :
                 /\ Takes(t, n)
                 /\ thr'[t].file = Append(file, n)
                 /\ blob'[i] = IF blob[i] # <<>> /\ Head(blob[i]) = Head(file)
                               THEN Append(file, n) ELSE blob[i]
    BY <1>4
  <2>2. /\ Size(n) \in thr[t].left
        /\ Size(n) \in 1 .. PartsOf[thr[t].job] /\ PartsOf[thr[t].job] \in Nat
        /\ thr'[t].left \subseteq 1 .. PartsOf[thr[t].job]
        /\ \A k \in thr'[t].left : k > Size(n)
    BY <1>2, <2>1, TakenIsLeast DEF FileOK
  <2>3. /\ InOrder(file, PartsOf[thr[t].job])
        /\ Size(n) > Size(file[Len(file)])
        /\ \/ blob[i] = file
           \/ blob[i] = <<>> /\ i \notin DOMAIN rows \ half
    BY <1>1, <1>2, <2>2 DEF FileOK
  <2>4. /\ InOrder(Append(file, n), PartsOf[thr[t].job])
        /\ Append(file, n)[Len(Append(file, n))] = n
    BY <1>2, <2>2, <2>3, OrderOfMore
  <2>5. /\ thr'[t].pc = "append" /\ thr'[t].job = thr[t].job /\ thr'[t].id = i
        /\ OnlyThread(t)
    BY <1>4 DEF GoesOn
  <2>6. \/ blob'[i] = thr'[t].file
        \/ blob'[i] = <<>> /\ i \notin DOMAIN rows' \ half'
    <3>1. CASE blob[i] = file
      <4>1. file # <<>>
        BY <2>3 DEF InOrder
      <4> QED
        BY <2>1, <3>1, <4>1
    <3>2. CASE blob[i] = <<>> /\ i \notin DOMAIN rows \ half
      BY <1>1, <2>1, <3>2 DEF DiskStep
    <3> QED
      BY <2>3, <3>1, <3>2
  <2>7. FileOK(t)'
    BY <2>1, <2>2, <2>4, <2>5, <2>6 DEF FileOK
  <2> QED
    BY <1>1, <1>2, <2>5, <2>7, SavesMove
<1> QED
  BY <1>1, <1>3, <1>4

\* A file of the declared size is the whole archive.
LEMMA SavesStat ==
    ASSUME UploadsOK, UploadsOK', SavesOK, NEW t \in Threads, CommitStat(t),
           untouched' = untouched
    PROVE  SavesOK'
<1> DEFINE i == thr[t].id
           j == thr[t].job
           file == thr[t].file
<1>1. /\ thr[t].pc = "append" /\ DiskStep(i) /\ url' = url
      /\ \/ /\ GoesOn(t, "save") /\ SizeRight(t) /\ thr[t].left = {}
            /\ thr'[t].left = thr[t].left /\ thr'[t].file = file
            /\ blob' = blob
         \/ FailsMove(t)
  BY CommitStatMoves DEF UploadsOK
<1>2. thr[t].pc \in CommitPcs /\ FileOK(t) /\ file \in Seq(Int) /\ j \in Jobs
  BY <1>1 DEF CommitPcs, SavesOK, FilesOK, UploadsOK, TypeOK, Thread
<1>3. CASE FailsMove(t)
  BY <1>1, <1>2, <1>3, SavesEnd
<1>4. CASE /\ GoesOn(t, "save") /\ SizeRight(t) /\ thr[t].left = {}
           /\ thr'[t].left = thr[t].left /\ thr'[t].file = file
           /\ blob' = blob
  <2>1. /\ thr'[t].pc = "save" /\ thr'[t].job = j /\ thr'[t].id = i
        /\ OnlyThread(t)
    BY <1>4 DEF GoesOn
  <2>2. /\ InOrder(file, PartsOf[j])
        /\ \/ blob[i] = file
           \/ blob[i] = <<>> /\ i \notin DOMAIN rows \ half
    BY <1>1, <1>2 DEF FileOK
  <2>3. DeclaredSize(j) # -1 => file = Whole(j)
    <3> SUFFICES ASSUME DeclaredSize(j) # -1
                 PROVE  file = Whole(j)
      OBVIOUS
    <3>1. PartsOf[j] \in Nat /\ SizeOf(file) = PartsOf[j]
      BY <1>2, <1>4, PartsAssumption DEF SizeRight, DeclaredSize
    <3> QED
      BY <1>2, <2>2, <3>1, WholeWhenSized DEF Whole
  <2>4. rows' = rows /\ half' = half
    BY <1>1 DEF DiskStep
  <2>5. FileOK(t)'
    BY <1>4, <2>1, <2>2, <2>3, <2>4 DEF FileOK
  <2> QED
    BY <1>1, <1>2, <2>1, <2>5, SavesMove
<1> QED
  BY <1>1, <1>3, <1>4


\* A whole archive has no part that waits for its last byte.
LEMMA WholeIsFull ==
    ASSUME NEW j \in Jobs, NEW file \in Seq(Int), file = Whole(j), NEW n \in Nat \ {0}
    PROVE  FillHead(file, n) = file
<1>1. PartsOf[j] \in Nat
  BY PartsAssumption
<1>2. DOMAIN file = 1 .. PartsOf[j] /\ \A k \in 1 .. PartsOf[j] : file[k] = k
  BY DEF Whole
<1>3. DOMAIN file = 1 .. Len(file)
  OBVIOUS
<1>4. \A k \in 1 .. Len(file) : file[k] > 0
  BY <1>1, <1>2, <1>3
<1> QED
  BY <1>4, FillHeadKeeps

\* The last byte of a part reaches its file wherever a commit moved it.
LEMMA SavesDone ==
    ASSUME UploadsOK, UploadsOK', SavesOK, NEW t \in Threads, WriteDone(t),
           untouched' = untouched
    PROVE  SavesOK'
<1> DEFINE i == thr[t].id
           n == thr[t].part
           j == thr[t].job
<1>1. thr[t].pc = "copy"
  BY DEF WriteDone
<1>2. i \in Ids /\ n \in Nat \ {0} /\ blob[i] \in Seq(Int)
  <2>1. n \in 0 .. PartsOf[j] /\ n # 0 /\ j \in Jobs
    BY <1>1 DEF UploadsOK, ProtocolOK, ThreadsOK, UploadPcs, TypeOK, Thread
  <2> QED
    BY <1>1, <2>1, IdOfThread, PartsAssumption DEF UploadsOK
<1>3. /\ DiskStep(i) /\ url' = url
      /\ blob'[i] = FillHead(blob[i], n)
      /\ OthersWait(t)
      /\ \A u \in Threads \ {t} :
            /\ thr'[u].left = thr[u].left
            /\ thr'[u].file = IF thr[u].id = i THEN FillHead(thr[u].file, n)
                              ELSE thr[u].file
      /\ thr'[t].pc = "touch" \/ thr'[t] = Idle
  BY WriteDoneMoves DEF UploadsOK
<1>4. thr'[t].pc \notin CommitPcs
  BY <1>3, IdleIsThread DEF CommitPcs
<1>5. rows' = rows /\ half' = half /\ \A k \in Ids \ {i} : blob'[k] = blob[k]
  BY <1>3 DEF DiskStep
<1>6. \A u \in Threads \ {t} : /\ thr'[u].pc = thr[u].pc /\ thr'[u].job = thr[u].job
                               /\ thr'[u].id = thr[u].id /\ thr'[u].part = thr[u].part
  BY <1>3 DEF OthersWait, SameRequest
<1>7. /\ blob'[i] = <<>> <=> blob[i] = <<>>
      /\ \A k \in Jobs : blob[i] = Whole(k) => blob'[i] = Whole(k)
  BY <1>2, <1>3, FillHeadKeeps, WholeIsFull
<1>8. CommitsOK'
  <2>1. \A u \in Threads : thr'[u].part = -1 =>
           thr[u].part = -1 /\ thr'[u].id = thr[u].id /\ thr'[u].job = thr[u].job
    BY <1>4, <1>6 DEF UploadsOK, ProtocolOK, ThreadsOK
  <2> QED
    BY <1>5, <2>1 DEF SavesOK, CommitsOK
<1>9. BlobsOK'
  <2>1. ASSUME NEW k \in DOMAIN rows, rows[k].complete
        PROVE  \/ /\ blob'[k] # <<>>
                  /\ DeclaredSize(rows[k].job) # -1 => blob'[k] = Whole(rows[k].job)
               \/ blob'[k] = <<>> /\ k \in half
    <3>1. k \in Ids /\ rows[k].job \in Jobs
      BY UsedIds DEF UploadsOK, TypeOK, Row
    <3>2. \/ /\ blob[k] # <<>>
             /\ DeclaredSize(rows[k].job) # -1 => blob[k] = Whole(rows[k].job)
          \/ blob[k] = <<>> /\ k \in half
      BY <2>1 DEF SavesOK, BlobsOK
    <3> QED
      BY <1>5, <1>7, <3>1, <3>2
  <2>2. \A k \in Ids \ untouched : url[k] > 0 =>
          /\ k \in DOMAIN rows /\ rows[k].complete /\ blob'[k] # <<>>
          /\ rows[k].age + url[k] <= InUseGrace
    BY <1>5, <1>7 DEF SavesOK, BlobsOK
  <2> QED
    BY <1>3, <1>5, <2>1, <2>2 DEF BlobsOK
<1>10. FilesOK'
  <2> SUFFICES ASSUME NEW u \in Threads
               PROVE  FileOK(u)'
    BY DEF FilesOK
  <2>1. CASE thr'[u].pc \notin CommitPcs
    BY <2>1 DEF FileOK, CommitPcs
  <2>2. CASE thr'[u].pc \in CommitPcs
    <3>1. u # t /\ thr[u].pc \in CommitPcs
      BY <1>4, <1>6, <2>2
    <3>2. /\ thr'[u].pc = thr[u].pc /\ thr'[u].job = thr[u].job
          /\ thr'[u].id = thr[u].id /\ thr'[u].left = thr[u].left
          /\ FileOK(u)
      BY <1>3, <1>6, <3>1 DEF SavesOK, FilesOK
    <3>3. /\ thr[u].id \in Ids /\ thr[u].job \in Jobs /\ PartsOf[thr[u].job] \in Nat
          /\ thr[u].file \in Seq(Int)
      BY <3>1, IdOfThread, PartsAssumption DEF UploadsOK, TypeOK, Thread, CommitPcs
    <3>4. CASE thr[u].id # i
      <4>1. thr'[u].file = thr[u].file /\ blob'[thr[u].id] = blob[thr[u].id]
        BY <1>3, <1>5, <3>1, <3>3, <3>4
      <4> QED
        BY <1>5, <3>2, <4>1 DEF FileOK
    <3>5. CASE thr[u].id = i
      <4>1. thr'[u].file = FillHead(thr[u].file, n)
        BY <1>3, <3>1, <3>5
      <4>2. CASE thr[u].pc \in {"append", "save"}
        <5>1. /\ InOrder(thr[u].file, PartsOf[thr[u].job])
              /\ \A m \in thr[u].left : m > Size(thr[u].file[Len(thr[u].file)])
              /\ \/ blob[i] = thr[u].file
                 \/ blob[i] = <<>> /\ i \notin DOMAIN rows \ half
              /\ thr[u].pc = "save" /\ DeclaredSize(thr[u].job) # -1 =>
                    thr[u].file = Whole(thr[u].job)
              /\ thr[u].left \subseteq 1 .. PartsOf[thr[u].job]
          BY <3>1, <3>2, <3>5, <4>2 DEF FileOK
        <5>2. /\ InOrder(thr'[u].file, PartsOf[thr[u].job])
              /\ Size(thr'[u].file[Len(thr'[u].file)]) = Size(thr[u].file[Len(thr[u].file)])
          BY <1>2, <3>3, <4>1, <5>1, FillHeadInOrder
        <5>3. \/ blob'[i] = thr'[u].file
              \/ blob'[i] = <<>> /\ i \notin DOMAIN rows' \ half'
          BY <1>3, <1>5, <1>7, <4>1, <5>1
        <5>4. thr[u].file = Whole(thr[u].job) => thr'[u].file = thr[u].file
          BY <1>2, <3>3, <4>1, WholeIsFull
        <5> QED
          BY <3>2, <3>5, <5>1, <5>2, <5>3, <5>4 DEF FileOK
      <4>3. CASE thr[u].pc \notin {"append", "save"}
        BY <3>2, <4>3 DEF FileOK
      <4> QED
        BY <4>2, <4>3
    <3> QED
      BY <3>4, <3>5
  <2> QED
    BY <2>1, <2>2
<1> QED
  BY <1>8, <1>9, <1>10 DEF SavesOK

\* A commit is saved: its entry is complete with all its bytes, unless the
\* deletion of the entry got half way.
LEMMA SavesSave ==
    ASSUME UploadsOK, UploadsOK', SavesOK, NEW t \in Threads, CommitSave(t),
           untouched' = untouched
    PROVE  SavesOK'
<1> DEFINE i == thr[t].id
           j == thr[t].job
<1>1. thr[t].pc = "save" /\ url' = url
  BY CommitSaveMoves
<1>2. thr[t].pc \in CommitPcs /\ i \in Ids /\ j \in Jobs /\ FileOK(t)
  BY <1>1, IdOfThread DEF UploadsOK, CommitPcs, SavesOK, FilesOK
<1>3. CASE UNCHANGED <<rows, seq, blob, staged, half, stray>> /\ FailsMove(t)
  BY <1>1, <1>3, StaysFade, RestingCommitsWait, SavesFade DEF FailsMove
<1>4. CASE /\ i \in DOMAIN rows /\ i \in DOMAIN rows'
           /\ rows'[i] = CommittedRow(t)
           /\ \A k \in DOMAIN rows' \ {i} : rows'[k] = rows[k]
           /\ \E tried : /\ Thins(tried) /\ i \notin tried
                         /\ \A k \in tried : k \in DOMAIN rows
                               /\ (rows[k].complete => ~InUse(rows[k]))
           /\ Answers(t, "saved")
  <2>1. PICK tried : /\ Thins(tried) /\ i \notin tried
                     /\ \A k \in tried : k \in DOMAIN rows
                           /\ (rows[k].complete => ~InUse(rows[k]))
    BY <1>4
  <2>2. CommitsWait /\ OnlyThread(t) /\ thr'[t].pc = "idle" /\ thr'[t].part = 0
    BY <1>4, AnswersMoves, RestingCommitsWait, IdleIsThread DEF UploadsOK, Phases, Rests
  <2>3. ~rows[i].complete
    BY <1>2, <1>4, CommitsIncomplete DEF SavesOK
  <2>4. blob'[i] = blob[i]
    BY <1>2, <2>1 DEF Thins, Removed
  <2>5. CommitsOK'
    <3>1. ASSUME NEW u \in Threads, thr'[u].part = -1
          PROVE  /\ thr[u].part = -1 /\ thr'[u].id = thr[u].id /\ thr'[u].job = thr[u].job
                 /\ thr[u].id # i
      <4>1. u # t /\ thr'[u] = thr[u]
        BY <2>2, <3>1 DEF OnlyThread
      <4>2. thr[u].pc \in CommitPcs
        BY <3>1, <4>1 DEF UploadsOK, ProtocolOK, ThreadsOK
      <4>3. thr[u].id # i
        BY <1>2, <4>1, <4>2, OtherEntry DEF SavesOK
      <4> QED
        BY <3>1, <4>1, <4>3
    <3>2. ASSUME NEW u \in Threads, thr'[u].part = -1, thr'[u].id \in DOMAIN rows'
          PROVE  ~rows'[thr'[u].id].complete
      <4>1. thr[u].id \in DOMAIN rows /\ rows'[thr[u].id] = rows[thr[u].id]
        BY <1>4, <2>1, <3>1, <3>2 DEF Thins, Removed
      <4> QED
        BY <3>1, <3>2, <4>1 DEF SavesOK, CommitsOK
    <3>3. \A u, v \in Threads :
             thr'[u].part = -1 /\ thr'[v].part = -1 /\ thr'[u].job = thr'[v].job => u = v
      BY <3>1 DEF SavesOK, CommitsOK
    <3> QED
      BY <3>2, <3>3 DEF CommitsOK
  <2>6. FilesOK'
    <3>1. \A k \in Ids : BlobStays(k)
      BY <2>1 DEF Thins, Removed, BlobStays
    <3> QED
      BY <2>2, <3>1, UsedIds, FilesWait DEF SavesOK
  <2>7. BlobsOK'
    <3>1. ASSUME NEW k \in DOMAIN rows', rows'[k].complete
          PROVE  \/ /\ blob'[k] # <<>>
                    /\ DeclaredSize(rows'[k].job) # -1 => blob'[k] = Whole(rows'[k].job)
                 \/ blob'[k] = <<>> /\ k \in half'
      <4>1. k \in Ids /\ k \in DOMAIN rows /\ (k \in half => k \in half')
        BY <2>1, UsedIds DEF Thins, Removed
      <4>2. CASE k = i
        <5>1. /\ InOrder(thr[t].file, PartsOf[j])
              /\ \/ blob[i] = thr[t].file
                 \/ blob[i] = <<>> /\ i \notin DOMAIN rows \ half
              /\ DeclaredSize(j) # -1 => thr[t].file = Whole(j)
          BY <1>1, <1>2 DEF FileOK
        <5>2. rows'[i].job = j
          <6>1. NewRow(j) \in Row /\ NewRow(j).job = j
            BY <1>2, NewRowIsRow
          <6> QED
            BY <1>4, <6>1 DEF CommittedRow, Row
        <5>3. CASE blob[i] = thr[t].file
          BY <2>4, <4>2, <5>1, <5>2, <5>3 DEF InOrder
        <5>4. CASE blob[i] = <<>> /\ i \notin DOMAIN rows \ half
          BY <1>4, <2>4, <4>1, <4>2, <5>4
        <5> QED
          BY <5>1, <5>3, <5>4
      <4>3. CASE k # i
        <5>1. rows'[k] = rows[k] /\ rows[k].complete
          BY <1>4, <3>1, <4>3
        <5>2. \/ /\ blob[k] # <<>>
                 /\ DeclaredSize(rows[k].job) # -1 => blob[k] = Whole(rows[k].job)
              \/ blob[k] = <<>> /\ k \in half
          BY <4>1, <5>1 DEF SavesOK, BlobsOK
        <5>3. blob'[k] = blob[k] \/ (blob'[k] = <<>> /\ k \in half')
          BY <2>1, <3>1, <4>1 DEF Thins, Removed
        <5> QED
          BY <4>1, <5>1, <5>2, <5>3
      <4> QED
        BY <4>2, <4>3
    <3>2. ASSUME NEW k \in Ids \ untouched, url[k] > 0
          PROVE  /\ k \in DOMAIN rows' /\ rows'[k].complete /\ blob'[k] # <<>>
                 /\ rows'[k].age + url[k] <= InUseGrace
      <4>1. /\ k \in DOMAIN rows /\ rows[k].complete /\ blob[k] # <<>>
            /\ rows[k].age + url[k] <= InUseGrace
        BY <3>2 DEF SavesOK, BlobsOK
      <4>2. rows[k].age \in Nat /\ url[k] \in Nat /\ InUseGrace \in Nat
        BY <4>1, TimesAssumption DEF UploadsOK, TypeOK, Row, InUseGrace
      <4>3. InUse(rows[k])
        BY <3>2, <4>1, <4>2 DEF InUse
      <4>4. k \notin tried /\ k # i
        BY <2>1, <2>3, <4>1, <4>3
      <4>5. k \in DOMAIN rows' /\ blob'[k] = blob[k] /\ rows'[k] = rows[k]
        BY <1>4, <2>1, <4>1, <4>4 DEF Thins, Removed
      <4> QED
        BY <4>1, <4>5
    <3> QED
      BY <1>1, <3>1, <3>2 DEF BlobsOK
  <2> QED
    BY <2>5, <2>6, <2>7 DEF SavesOK
<1> QED
  BY <1>3, <1>4, CommitSaveMoves


\* A commit begins: the job has no other one, and its entry is not complete.
LEMMA SavesBegin ==
    ASSUME OverlapCommits = FALSE, UploadsOK, UploadsOK', SavesOK,
           NEW t \in Threads, NEW j \in Jobs,
           Commit(t, j) \/ V2FinalizeCacheEntryUpload(t, j),
           untouched' = untouched
    PROVE  SavesOK'
<1>0. TypeOK
  BY DEF UploadsOK
<1>1. /\ thr[t].pc = "idle" /\ MayCommit(j)
      /\ UNCHANGED <<rows, blob, half, url>>
  BY DEF Commit, V2FinalizeCacheEntryUpload, disk, history
<1>2. \A u \in Threads : thr[u].part = -1 => thr[u].job # j
  BY <1>1 DEF MayCommit
<1>3. CASE thr' = thr
  BY <1>1, <1>3, StaysFade, StillCommitsWait, SavesFade
<1>4. ASSUME NEW id \in DOMAIN rows, ~rows[id].complete, Arrives(t, j, id, -1, "list")
      PROVE  SavesOK'
  <2>1. id \in Nat /\ -1 \in Int /\ "list" \in Moves
    BY <1>0 DEF TypeOK, Moves, CommitPcs
  <2>2. /\ OnlyThread(t)
        /\ thr'[t] = [pc |-> "list", job |-> j, id |-> id, part |-> -1,
                      left |-> {}, file |-> <<>>, live |-> TRUE]
    BY <1>0, <1>4, <2>1, ArrivesTakes
  <2>3. /\ \A u \in Threads \ {t} : thr'[u] = thr[u]
        /\ thr'[t].pc = "list" /\ thr'[t].job = j /\ thr'[t].id = id
        /\ thr'[t].part = -1 /\ thr'[t].left = {}
    BY <2>2 DEF OnlyThread
  <2>4. CommitsOK'
    <3>1. ASSUME NEW u \in Threads, NEW v \in Threads,
                 thr'[u].part = -1, thr'[v].part = -1, thr'[u].job = thr'[v].job
          PROVE  u = v
      BY <1>2, <2>3, <3>1 DEF SavesOK, CommitsOK
    <3>2. ASSUME NEW u \in Threads, thr'[u].part = -1, thr'[u].id \in DOMAIN rows'
          PROVE  ~rows'[thr'[u].id].complete
      BY <1>1, <1>4, <2>3, <3>2 DEF SavesOK, CommitsOK
    <3> QED
      BY <3>1, <3>2 DEF CommitsOK
  <2>5. BlobsOK'
    BY <1>1 DEF SavesOK, BlobsOK
  <2>6. FilesOK'
    <3> SUFFICES ASSUME NEW u \in Threads
                 PROVE  FileOK(u)'
      BY DEF FilesOK
    <3>1. CASE u = t
      BY <2>3, <3>1 DEF FileOK
    <3>2. CASE u # t
      BY <1>1, <2>3, <3>2, FileKept DEF SavesOK, FilesOK, SameCommit, BlobStays
    <3> QED
      BY <3>1, <3>2
  <2> QED
    BY <2>4, <2>5, <2>6 DEF SavesOK
<1>5. ASSUME NEW i \in FinalizesOwn(j)
      PROVE  i \in DOMAIN rows /\ ~rows[i].complete
  BY DEF FinalizesOwn, Exact
<1> QED
  BY <1>3, <1>4, <1>5 DEF Commit, V2FinalizeCacheEntryUpload

\* Nothing is stored at the start.
LEMMA SavesInit ==
    ASSUME Init
    PROVE  SavesOK
<1>1. Idle.pc = "idle" /\ Idle.part = 0
  BY IdleIsThread
<1>2. \A t \in Threads : thr[t].pc = "idle" /\ thr[t].part = 0
  BY <1>1 DEF Init
<1>3. CommitsOK
  BY <1>2 DEF CommitsOK
<1>4. FilesOK
  BY <1>2 DEF FilesOK, FileOK, CommitPcs
<1>5. BlobsOK
  <2>1. DOMAIN rows = {} /\ \A i \in Ids : ~(url[i] > 0)
    BY DEF Init
  <2> QED
    BY <2>1 DEF BlobsOK
<1> QED
  BY <1>3, <1>4, <1>5 DEF SavesOK

\* Every step keeps what is known of commits.
LEMMA SavesNext ==
    ASSUME OverlapCommits = FALSE, UploadsOK, UploadsOK', SavesOK, [Next]_vars
    PROVE  SavesOK'
<1>0. \/ \E j \in Jobs : LookupCache(j)
      \/ untouched' = untouched
  BY StepsRemember DEF Remembers, WriteCreate, UploadsOK
<1> SUFFICES ASSUME untouched' = untouched
             PROVE  SavesOK'
  BY <1>0, SavesLookup
<1>1. ASSUME NEW j \in Jobs, Reserve(j) \/ V2CreateCacheEntry(j)
      PROVE  SavesOK'
  BY <1>1, SavesReserve
<1>2. ASSUME NEW j \in Jobs, Find(j) \/ V2GetCacheEntryDownloadURL(j)
      PROVE  SavesOK'
  BY <1>2, SavesLookup DEF Find, V2GetCacheEntryDownloadURL
<1>3. ASSUME NEW t \in Threads, NEW j \in Jobs, NEW p \in 0 .. PartsOf[j],
             Upload(t, j, p) \/ V2UploadBlob(t, j, p)
      PROVE  SavesOK'
  BY <1>3, SavesAdmit
<1>4. ASSUME NEW t \in Threads, NEW j \in Jobs,
             Commit(t, j) \/ V2FinalizeCacheEntryUpload(t, j)
      PROVE  SavesOK'
  BY <1>4, SavesBegin
<1>5. ASSUME NEW t \in Threads,
             \/ UploadMakesRoom(t) \/ WriteCreate(t) \/ WriteDone(t)
             \/ WriteFails(t) \/ UploadTouches(t) \/ OrderBlocks(t)
      PROVE  SavesOK'
  BY <1>5, SavesUpload, SavesDone
<1>6. ASSUME NEW t \in Threads,
             \/ CommitList(t) \/ CommitRename(t) \/ CommitAppend(t)
             \/ CommitStat(t) \/ CommitSave(t)
      PROVE  SavesOK'
  BY <1>6, SavesList, SavesRename, SavesAppend, SavesStat, SavesSave
<1>7. CASE \/ \E t \in Threads : CommitLockTimeout(t) \/ GiveUp(t)
           \/ \E i \in Ids : Get(i)
           \/ GcCache \/ GcMakesRoom \/ Crash
  BY <1>7, SavesRest
<1>8. CASE Tick
  BY <1>8, SavesTick
<1>9. CASE UNCHANGED vars
  <2>1. UNCHANGED <<rows, blob, half, url, thr>>
    BY <1>9 DEF vars, disk, history
  <2> QED
    BY <2>1, StaysFade, StillCommitsWait, SavesFade
<1> QED
  BY <1>1, <1>2, <1>3, <1>4, <1>5, <1>6, <1>7, <1>8, <1>9 DEF Next

\* Where a job's second commit waits for its first, a commit is the only one
\* of its entry, its file grows in the order of the parts and is the entry's
\* own, no complete entry loses its bytes, and only a part its client gave up on
\* and sent again has zeros in it, in every reachable state.
THEOREM SavesAreOK ==
    ASSUME OverlapCommits = FALSE
    PROVE  Spec => [](UploadsOK /\ SavesOK /\ HolesOK)
<1>1. Init => UploadsOK /\ SavesOK /\ HolesOK
  BY UploadsInit, SavesInit DEF Init, HolesOK
<1>2. (UploadsOK /\ SavesOK /\ HolesOK) /\ [Next]_vars => (UploadsOK /\ SavesOK /\ HolesOK)'
  BY UploadsNext, SavesNext, HolesNext
<1> QED
  BY <1>1, <1>2, PTL DEF Spec

\* What is stored is sound: a committed entry whose size was declared is the
\* whole archive with its parts in order (zeros only in a part that was given
\* up on and sent again), a signed URL serves an entry with its bytes for as
\* long as it is usable unless the entry could not be touched, no bytes are
\* left where no sweep finds them but those of a late write or of a rename
\* amid the deletion, and acknowledged parts stay staged until the commit.
THEOREM WhatIsStoredIsSound ==
    ASSUME OverlapCommits = FALSE
    PROVE  Spec => []StoredIsSound
<1>1. ASSUME UploadsOK, SavesOK, HolesOK
      PROVE  CommittedIsWhole /\ UrlServes
  <2>1. ASSUME NEW i \in DOMAIN rows, rows[i].complete,
               rows[i].owner # NoOwner \/ rows[i].job \in SizedJobs
        PROVE  \/ blob[i] = Whole(rows[i].job)
               \/ blob[i] = <<>> /\ i \in half
    <3>1. rows[i].job \in Jobs /\ PartsOf[rows[i].job] \in Nat
      BY <1>1, PartsAssumption DEF UploadsOK, TypeOK, Row
    <3>2. ApiOf[rows[i].job] = "v2" \/ rows[i].job \in SizedJobs
      BY <1>1, <2>1 DEF UploadsOK, EntriesOK
    <3>3. DeclaredSize(rows[i].job) # -1
      BY <3>1, <3>2 DEF DeclaredSize
    <3> QED
      BY <1>1, <2>1, <3>3 DEF SavesOK, BlobsOK
  <2> QED
    BY <1>1, <2>1 DEF CommittedIsWhole, UrlServes, SavesOK, BlobsOK, HolesOK
<1>2. UploadsOK /\ SavesOK /\ HolesOK => CommittedIsWhole /\ UrlServes
  BY <1>1
<1> QED
  BY <1>2, SavesAreOK, NoBlobIsOrphaned, AckedPartsAreStaged, PTL DEF StoredIsSound


-----------------------------------------------------------------------------
(* What a client is told.                                                   *)

\* No client is told that its save succeeded.
NoneSaved == \A j \in Jobs : client'[j].phase = "saved" => client[j].phase = "saved"

\* Only a commit that saves and a finalize tell a client of success.
LEMMA OnlyCommitsAnnounce ==
    ASSUME UploadsOK, Next
    PROVE  \/ NoneSaved
           \/ \E t \in Threads : CommitSave(t)
           \/ \E t \in Threads, j \in Jobs : V2FinalizeCacheEntryUpload(t, j)
<1>0. TypeOK /\ ProtocolOK
  BY DEF UploadsOK
<1>1. ASSUME client' = client
      PROVE  NoneSaved
  BY <1>1 DEF NoneSaved
<1>2. ASSUME NEW j \in Jobs, NEW phase, phase # "saved" \/ phase = client[j].phase,
             NEW acked, Hears(j, phase, acked)
      PROVE  NoneSaved
  BY <1>2 DEF NoneSaved, Hears
<1>3. ASSUME NEW j \in Jobs, NEW phase \in Phases \ {"saved"},
             client' = [client EXCEPT ![j].phase = phase]
      PROVE  NoneSaved
  BY <1>0, <1>2, <1>3, HearsPhase
<1>4. ASSUME NEW t \in Threads, NEW what \in (Phases \ {"saved"}) \cup {"acked"},
             Answers(t, what)
      PROVE  NoneSaved
  <2>1. /\ thr[t].job \in Jobs
        /\ \/ client' = client
           \/ Hears(thr[t].job, client[thr[t].job].phase,
                    client[thr[t].job].acked \cup {thr[t].part})
           \/ Hears(thr[t].job, what, client[thr[t].job].acked)
    BY <1>0, <1>4, AnswersMoves
  <2>2. what # "saved"
    OBVIOUS
  <2> QED
    BY <1>1, <1>2, <2>1, <2>2
<1>5. ASSUME NEW t \in Threads, FailsMove(t)
      PROVE  NoneSaved
  <2>1. thr[t].job \in Jobs
    BY <1>0 DEF TypeOK, Thread
  <2>2. \/ client' = client
        \/ Hears(thr[t].job, "failed", client[thr[t].job].acked)
    BY <1>5 DEF FailsMove
  <2> QED
    BY <1>1, <1>2, <2>1, <2>2
<1>6. ASSUME NEW j \in Jobs, Reserve(j) \/ V2CreateCacheEntry(j)
      PROVE  NoneSaved
  <2>1. ASSUME NEW id, Reserved(j, id)
        PROVE  NoneSaved
    <3>1. CASE client' = client
      BY <1>1, <3>1
    <3>2. CASE client' = [client EXCEPT ![j].phase = "up", ![j].id = id]
      <4>1. client \in [Jobs -> Client]
        BY <1>0 DEF TypeOK
      <4>2. \A k \in Jobs \ {j} : client'[k] = client[k]
        BY <3>2, <4>1
      <4>3. client'[j] = [client[j] EXCEPT !.phase = "up", !.id = id]
        BY <3>2, <4>1
      <4>4. client'[j].phase = "up"
        BY <4>1, <4>3 DEF Client
      <4> QED
        BY <4>2, <4>4 DEF NoneSaved
    <3> QED
      BY <2>1, <3>1, <3>2 DEF Reserved
  <2>2. "skipped" \in Phases \ {"saved"}
    BY DEF Phases
  <2> QED
    BY <1>3, <1>6, <2>1, <2>2 DEF Reserve, V2CreateCacheEntry
<1>7. ASSUME NEW j \in Jobs, Find(j) \/ V2GetCacheEntryDownloadURL(j)
      PROVE  NoneSaved
  <2>1. client' = client
    BY <1>7 DEF Find, V2GetCacheEntryDownloadURL, LookupCache
  <2> QED
    BY <1>1, <2>1
<1>8. ASSUME NEW t \in Threads, NEW j \in Jobs, NEW p \in 0 .. PartsOf[j],
             Upload(t, j, p) \/ V2UploadBlob(t, j, p)
      PROVE  NoneSaved
  <2>1. client' = client \/ client' = [client EXCEPT ![j].phase = "failed"]
    BY <1>8 DEF Upload, V2UploadBlob, Admits
  <2>2. "failed" \in Phases \ {"saved"}
    BY DEF Phases
  <2> QED
    BY <1>1, <1>3, <2>1, <2>2
<1>9. ASSUME NEW t \in Threads, NEW j \in Jobs, Commit(t, j)
      PROVE  NoneSaved
  <2>1. \/ client' = [client EXCEPT ![j].phase = "commit"]
        \/ client' = [client EXCEPT ![j].phase = "failed"]
    BY <1>9 DEF Commit
  <2>2. "commit" \in Phases \ {"saved"} /\ "failed" \in Phases \ {"saved"}
    BY DEF Phases
  <2> QED
    BY <1>3, <2>1, <2>2
<1>10. ASSUME NEW t \in Threads, WriteDone(t)
       PROVE  NoneSaved
  <2>1. \/ client' = client
        \/ client' = [client EXCEPT ![thr[t].job].acked = @ \cup {thr[t].part}]
    BY <1>10 DEF WriteDone
  <2>2. thr[t].job \in Jobs /\ client \in [Jobs -> Client]
    BY <1>0 DEF TypeOK, Thread
  <2>3. \A k \in Jobs : client'[k].phase = client[k].phase
    BY <2>1, <2>2 DEF Client
  <2> QED
    BY <2>3 DEF NoneSaved
<1>11. ASSUME NEW t \in Threads, UploadMakesRoom(t) \/ WriteCreate(t)
       PROVE  NoneSaved
  <2>1. client' = client
    BY <1>11 DEF UploadMakesRoom, WriteCreate
  <2> QED
    BY <1>1, <2>1
<1>12. ASSUME NEW t \in Threads,
              \/ WriteFails(t) \/ UploadTouches(t) \/ OrderBlocks(t)
              \/ CommitList(t) \/ CommitRename(t) \/ CommitAppend(t)
              \/ CommitStat(t) \/ CommitLockTimeout(t)
       PROVE  NoneSaved
  <2>1. \/ client' = client \/ FailsMove(t) \/ Answers(t, "acked")
        \/ \E phase \in {"commit", "failed"} : Answers(t, phase)
    <3>1. CASE WriteFails(t) \/ OrderBlocks(t)
      BY <1>0, <3>1, WriteFailsMoves, OrderBlocksMoves
    <3>2. CASE CommitList(t) \/ CommitRename(t) \/ CommitAppend(t) \/ CommitStat(t)
      BY <1>0, <3>2, CommitListMoves, CommitRenameMoves, CommitAppendMoves, CommitStatMoves
    <3>3. CASE UploadTouches(t)
      BY <3>3 DEF UploadTouches
    <3>4. CASE CommitLockTimeout(t)
      BY <3>4 DEF CommitLockTimeout
    <3> QED
      BY <1>12, <3>1, <3>2, <3>3, <3>4
  <2>2. {"commit", "failed"} \subseteq Phases \ {"saved"}
    BY DEF Phases
  <2> QED
    BY <1>1, <1>4, <1>5, <2>1, <2>2
<1>13. ASSUME NEW t \in Threads, GiveUp(t)
       PROVE  NoneSaved
  BY <1>0, <1>13, GiveUpMoves DEF NoneSaved
<1>14. CASE (\E i \in Ids : Get(i)) \/ GcCache \/ GcMakesRoom \/ Crash \/ Tick
  <2>1. client' = client
    BY <1>14 DEF Get, GcCache, GcMakesRoom, Crash, Tick
  <2> QED
    BY <1>1, <2>1
<1> QED
  BY <1>6, <1>7, <1>8, <1>9, <1>10, <1>11, <1>12, <1>13, <1>14 DEF Next

\* Entry i is what job j was told is saved.
HoldsSave(i, j) ==
    /\ i \in DOMAIN rows'
    /\ rows'[i].complete
    /\ Owns(j, rows'[i])
    /\ KeyOf[rows'[i].job] = KeyOf[j]
    /\ blob'[i] # <<>> \/ i \in half'
    /\ \A t \in Threads : thr[t].pc = "save" => thr'[t] = thr[t] \/ i = thr[t].id

\* A finalize that finds no reservation answers for the entry that is there.
LEMMA FinalizeFinds ==
    ASSUME UploadsOK, SavesOK, NEW t \in Threads, NEW k \in Jobs,
           V2FinalizeCacheEntryUpload(t, k), NEW j \in Jobs,
           client[j].phase # "saved", client'[j].phase = "saved"
    PROVE  \E i \in DOMAIN rows' : HoldsSave(i, j)
<1>0. TypeOK
  BY DEF UploadsOK
<1>1. /\ UNCHANGED <<rows, blob, half>>
      /\ \/ client' = [client EXCEPT ![k].phase = "commit"]
         \/ client' = [client EXCEPT ![k].phase = "failed"]
         \/ /\ client' = [client EXCEPT ![k].phase = "saved"]
            /\ thr' = thr /\ Exact(rows, k, TRUE) # {}
  BY DEF V2FinalizeCacheEntryUpload, disk, history
<1>2. j = k /\ thr' = thr /\ Exact(rows, k, TRUE) # {}
  <2>1. "commit" \in Phases /\ "failed" \in Phases /\ "saved" \in Phases
    BY DEF Phases
  <2>2. \/ Hears(k, "commit", client[k].acked) \/ Hears(k, "failed", client[k].acked)
        \/ /\ Hears(k, "saved", client[k].acked)
           /\ thr' = thr /\ Exact(rows, k, TRUE) # {}
    BY <1>0, <1>1, <2>1, HearsPhase
  <2> QED
    BY <2>2 DEF Hears
<1>3. PICK i \in Exact(rows, j, TRUE) : TRUE
  BY <1>2
<1>4. i \in DOMAIN rows /\ Owns(j, rows[i]) /\ KeyOf[rows[i].job] = KeyOf[j] /\ rows[i].complete
  BY <1>3 DEF Exact
<1>5. blob[i] # <<>> \/ i \in half
  BY <1>4 DEF SavesOK, BlobsOK
<1>6. HoldsSave(i, j)
  BY <1>1, <1>2, <1>4, <1>5 DEF HoldsSave
<1> QED
  BY <1>1, <1>4, <1>6

\* A commit answers for its own entry.
LEMMA CommitKeeps ==
    ASSUME UploadsOK, SavesOK', NEW t \in Threads, CommitSave(t), NEW j \in Jobs,
           client[j].phase # "saved", client'[j].phase = "saved"
    PROVE  \E i \in DOMAIN rows' : HoldsSave(i, j)
<1>0. TypeOK
  BY DEF UploadsOK
<1> DEFINE i == thr[t].id
<1>1. ~FailsMove(t)
  BY DEF FailsMove, Hears
<1>2. /\ i \in DOMAIN rows' /\ rows'[i] = CommittedRow(t) /\ Answers(t, "saved")
  BY <1>1, CommitSaveMoves
<1>3. "saved" \in Phases /\ "saved" # "acked"
  BY DEF Phases
<1>4. /\ Rests(t) /\ thr[t].job \in Jobs
      /\ client' = client \/ Hears(thr[t].job, "saved", client[thr[t].job].acked)
  BY <1>0, <1>2, <1>3, AnswersMoves
<1>5. thr[t].job = j
  BY <1>4 DEF Hears
<1>6. rows'[i].complete /\ rows'[i].job = j
  <2>1. NewRow(j) \in Row /\ NewRow(j).job = j
    BY NewRowIsRow
  <2> QED
    BY <1>2, <1>5, <2>1 DEF CommittedRow, Row
<1>7. blob'[i] # <<>> \/ i \in half'
  BY <1>2, <1>6 DEF SavesOK, BlobsOK
<1>8. \A u \in Threads : thr'[u] = thr[u] \/ i = thr[u].id
  BY <1>4 DEF Rests, OnlyThread
<1>9. HoldsSave(i, j)
  BY <1>2, <1>6, <1>7, <1>8 DEF HoldsSave, Owns
<1> QED
  BY <1>2, <1>9

\* No deleted entry comes back, and a client is told that its save succeeded
\* only when a complete entry under its key is there; when its commit has just
\* saved it, that is the commit's own entry, which the eviction at the end of
\* the commit spares.
THEOREM AnnouncedSavesAreSound ==
    ASSUME OverlapCommits = FALSE
    PROVE  Spec => SavesAreSound
<1>1. ASSUME UploadsOK, SavesOK, UploadsOK', SavesOK', Next, NEW j \in Jobs,
             client[j].phase # "saved", client'[j].phase = "saved"
      PROVE  \E i \in DOMAIN rows' : HoldsSave(i, j)
  <2>1. ~NoneSaved
    BY <1>1 DEF NoneSaved
  <2> QED
    BY <1>1, <2>1, OnlyCommitsAnnounce, FinalizeFinds, CommitKeeps
<1>2. /\ UploadsOK /\ SavesOK /\ UploadsOK' /\ SavesOK' /\ [Next]_vars
      => [\A j \in Jobs : client[j].phase # "saved" /\ client'[j].phase = "saved" =>
            \E i \in DOMAIN rows' : /\ rows'[i].complete
                                    /\ Owns(j, rows'[i])
                                    /\ KeyOf[rows'[i].job] = KeyOf[j]
                                    /\ blob'[i] # <<>> \/ i \in half'
                                    /\ \A t \in Threads : thr[t].pc = "save" =>
                                          thr'[t] = thr[t] \/ i = thr[t].id]_vars
  BY <1>1 DEF HoldsSave
<1>3. Spec => SavedIsStored
  BY <1>2, SavesAreOK, PTL DEF Spec, SavedIsStored
<1> QED
  BY <1>3, DeletedStaysDeleted DEF SavesAreSound


===============================================================================
