CONSTANTS
    r1 = r1
    r2 = r2
    NoRenewal = NoRenewal
    Renewals <- TwoRenewals
    MaxVersion = 3
    Answers <- LoginAnswers
    AutoRenew = TRUE
    AutoRemove = TRUE
    Throttles = TRUE
    Tabs = {a, b}
    MaxCalls = 4
SPECIFICATION MCSpec
SYMMETRY TabSymmetry
INVARIANTS
    Types
    TimersMatchStorage
    EveryTokenWatched
    SubscribersSeeStorage
    NoRefreshTokenReplay
    OnlyLeaderRenews
    LastCallDecides
\* When all that the bounds allow is used up nothing is left to do.
CHECK_DEADLOCK FALSE
