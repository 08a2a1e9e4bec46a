--------------------------- MODULE MCPlanExecutor ---------------------------
(* Two jobs side by side, one of them a matrix, and one that needs both. *)
EXTENDS PlanExecutor, TLC

MCJobs == <<"build", "lint", "deploy">>
MCStageOf == ("build" :> 1) @@ ("lint" :> 1) @@ ("deploy" :> 2)
MCNeeds == ("build" :> {}) @@ ("lint" :> {}) @@ ("deploy" :> {"build", "lint"})
MCCombos == ("build" :> 3) @@ ("lint" :> 1) @@ ("deploy" :> 1)
MCMaxParallelOf == ("build" :> 2) @@ ("lint" :> 0) @@ ("deploy" :> 0)
=============================================================================
