SPECIFICATION FairSpec
CONSTANTS
    Jobs <- MCJobs
    StageOf <- MCStageOf
    Needs <- MCNeeds
    Combos <- MCCombos
    MaxParallelOf <- MCMaxParallelOf
    Parallelism = 1
    Conditions = {"success", "always"}
    Called = TRUE
INVARIANTS ResultIsWorst VerdictIsRight NeedsComeFirst
PROPERTY PlanEnds
