SPECIFICATION Spec
CONSTANTS
    Top <- MCTop
    Children <- MCChildren
    Kind <- MCKind
    CondsOf <- MCCondsOf
    Writers <- MCWriters
    Local = {}
    Tolerant = {"inner"}
    NotPrepared = {"nested"}
    MaxErrors = 2
INVARIANTS PostsPaired EnvReachesLaterSteps StateReachesOwnPost SuccessIsEarned JudgedByOwnScope
