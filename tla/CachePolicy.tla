----------------------------- MODULE CachePolicy -----------------------------
(***************************************************************************)
(* What the cache server (act/artifactcache/handler.go) decides from its   *)
(* table of entries: which entry a job restores, which ones count as in    *)
(* use, and which ones an eviction pass deletes.  Everything here is a     *)
(* function of the table; module ArtifactCache runs it against the disk    *)
(* and against concurrent requests.                                        *)
(*                                                                         *)
(* A table is a function from the ids of its entries to rows.  An id comes *)
(* from bolt's NextSequence under the database lock, so the order of the   *)
(* ids is the order of createdAtNano.  A row keeps the job that reserved   *)
(* it, which stands for its repository, ref, key and version; `owner` is   *)
(* the Owner field, set by the v2 API only.  `age` is the time since       *)
(* UsedAt, in ticks.                                                       *)
(***************************************************************************)
EXTENDS Integers, Sequences, FiniteSets, FiniteSetsExt, Functions

CONSTANTS
    Jobs,
    RepoOf,         \* Repo of a job's credential
    ReadsOf,        \* its Ref, then BaseRef and DefaultRef, without repeats
    KeyOf,          \* the key and version under which a job saves
    RestoresOf,     \* the keys it restores from, in its order of preference
    PrefixPairs,    \* <<p, k>>: strings.HasPrefix(k, p)
    TouchStale,     \* touchStale
    UrlTTL,         \* artifactURLTTL
    StallTimeout,   \* uploadStallTimeout
    Retention,      \* policy.Retention; 0 is no limit, as for the two below
    RepoSizeLimit,
    SizeLimit

ASSUME JobsAssumption == Jobs # {} /\ IsFiniteSet(Jobs)
ASSUME ReadsAssumption == \A j \in Jobs : ReadsOf[j] # <<>>
ASSUME TimesAssumption == /\ TouchStale \in Nat \ {0}
                          /\ UrlTTL \in Nat \ {0}
                          /\ StallTimeout \in Nat \ {0}
ASSUME LimitsAssumption == /\ Retention \in Nat
                           /\ RepoSizeLimit \in Nat
                           /\ SizeLimit \in Nat

InUseGrace == UrlTTL + TouchStale

RefOf(j) == Head(ReadsOf[j])

\* owns: an entry is written only from the repository and ref it belongs to.
Owns(j, row) == RepoOf[j] = RepoOf[row.job] /\ RefOf(j) = RefOf(row.job)

\* A wrong guess: forgets that a fresh entry's UsedAt is not rewritten.
InUseUrlOnly(row) == row.age < UrlTTL

InUse(row) == row.age < InUseGrace

\* A completed entry's UsedAt may lag by TouchStale, an upload's may not.
TouchNeeded(row) == row.age > 0 /\ (~row.complete \/ row.age >= TouchStale)

Touched(rs, id) ==
    IF TouchNeeded(rs[id]) THEN [rs EXCEPT ![id].age = 0] ELSE rs

Without(rs, ids) == Restrict(rs, DOMAIN rs \ ids)

Completed(rs) == {i \in DOMAIN rs : rs[i].complete}

TotalSize(rs, ids) == MapThenSumSet(LAMBDA i : rs[i].size, ids)

-----------------------------------------------------------------------------
(* findCache and findExactCache: which entry answers a request.             *)

HasPrefix(p, k) == p = k \/ <<p, k>> \in PrefixPairs

MatchingKeys(j, row) ==
    {i \in DOMAIN RestoresOf[j] : HasPrefix(RestoresOf[j][i], KeyOf[row.job])}

Candidates(rs, j) ==
    {i \in Completed(rs) : /\ RepoOf[rs[i].job] = RepoOf[j]
                           /\ RefOf(rs[i].job) \in Range(ReadsOf[j])
                           /\ MatchingKeys(j, rs[i]) # {}}

RefRank(j, row) ==
    CHOOSE i \in DOMAIN ReadsOf[j] : ReadsOf[j][i] = RefOf(row.job)

\* Every key is tried in one ref before the next ref; for one key an exact
\* match beats a prefix; among equals the latest entry wins.
Better(rs, j, a, b) ==
    LET ref(i)   == RefRank(j, rs[i])
        key(i)   == Min(MatchingKeys(j, rs[i]))
        exact(i) == RestoresOf[j][key(i)] = KeyOf[rs[i].job]
    IN  \/ ref(a) < ref(b)
        \/ ref(a) = ref(b) /\ key(a) < key(b)
        \/ ref(a) = ref(b) /\ key(a) = key(b) /\ exact(a) /\ ~exact(b)
        \/ ref(a) = ref(b) /\ key(a) = key(b) /\ exact(a) = exact(b) /\ a > b

\* The entries findExactCache chooses from.
Exact(rs, j, complete) ==
    {i \in DOMAIN rs : /\ Owns(j, rs[i])
                       /\ KeyOf[rs[i].job] = KeyOf[j]
                       /\ rs[i].complete = complete}

\* A completed entry by when it was written, a reservation by when it was
\* last written to; `ids` is not empty.
LatestOf(rs, ids, complete) ==
    CHOOSE a \in ids : \A b \in ids \ {a} :
        IF complete THEN a > b
        ELSE rs[a].age < rs[b].age \/ (rs[a].age = rs[b].age /\ a > b)

-----------------------------------------------------------------------------
(* The eviction passes.  Each yields the entries it tries to delete; `bad`  *)
(* is an entry whose deletion fails.                                        *)

Stalled(rs) == {i \in DOMAIN rs : ~rs[i].complete /\ rs[i].age > StallTimeout}

Expired(rs) ==
    {i \in DOMAIN rs : /\ Retention > 0
                       /\ rs[i].age > Retention + TouchStale
                       /\ rs[i].age > InUseGrace}

Superseded(rs) ==
    {i \in Completed(rs) :
        /\ ~InUse(rs[i])
        /\ \E k \in Completed(rs) : /\ k > i
                                    /\ Owns(rs[k].job, rs[i])
                                    /\ KeyOf[rs[k].job] = KeyOf[rs[i].job]}

\* evictTo: an entry over the limit goes on its own account; the others go
\* least recently used first, for as long as their total is over the limit.
EvictTo(rs, ids, limit, bad) ==
    LET spare    == {i \in ids : ~InUse(rs[i])}
        fits     == {i \in ids : rs[i].size <= limit}
        older(i) == {k \in (spare \cap fits) \ {bad} :
                        \/ rs[k].age > rs[i].age
                        \/ rs[k].age = rs[i].age /\ k < i}
    IN  {i \in spare : \/ i \notin fits
                       \/ TotalSize(rs, fits) - TotalSize(rs, older(i)) > limit}

EvictRepo(rs, repo, bad) ==
    IF RepoSizeLimit = 0 THEN {}
    ELSE EvictTo(rs, {i \in Completed(rs) : RepoOf[rs[i].job] = repo},
                 RepoSizeLimit, bad)

EvictTotal(rs, bad) ==
    IF SizeLimit = 0 THEN {}
    ELSE EvictTo(rs, Completed(rs), SizeLimit, bad)

\* What commitCache evicts after it saved an entry of `repo`.
EvictedByCommit(rs, repo, bad) ==
    LET ofRepo == EvictRepo(rs, repo, bad)
    IN  ofRepo \cup EvictTotal(Without(rs, ofRepo \ {bad}), bad)

\* What one sweep evicts: four passes, each over what the last one left.
EvictedBySweep(rs, bad) ==
    LET after(t, ids) == Without(t, ids \ {bad})
        repos    == {RepoOf[j] : j \in Jobs}
        stalled  == Stalled(rs)
        rs1      == after(rs, stalled)
        expired  == Expired(rs1)
        rs2      == after(rs1, expired)
        replaced == Superseded(rs2)
        rs3      == after(rs2, replaced)
        big      == UNION {EvictRepo(rs3, r, bad) : r \in repos}
    IN  stalled \cup expired \cup replaced \cup big
            \cup EvictTotal(after(rs3, big), bad)

==============================================================================
