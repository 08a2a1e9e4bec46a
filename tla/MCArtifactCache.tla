--------------------------- MODULE MCArtifactCache ---------------------------
(* Two jobs of one branch that save under the same key, one in two blocks   *)
(* and one in a single chunk.                                               *)
EXTENDS ArtifactCache, TLC

MCJobs       == {"a", "b"}
MCRepoOf     == [j \in MCJobs |-> "repo"]
MCReadsOf    == [j \in MCJobs |-> <<"main">>]
MCKeyOf      == [j \in MCJobs |-> "key"]
MCRestoresOf == [j \in MCJobs |-> <<"key">>]
MCPartsOf    == [j \in MCJobs |-> IF j = "a" THEN 2 ELSE 1]
MCApiOf      == [j \in MCJobs |-> IF j = "a" THEN "v2" ELSE "v1"]
MCSymmetry   == Permutations(Threads)

==============================================================================
