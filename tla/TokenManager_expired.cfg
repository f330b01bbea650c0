CONSTANTS
    r1 = r1
    r2 = r2
    NoRenewal = NoRenewal
    Renewals <- TwoRenewals
    MaxVersion = 1
    Answers <- LoginAnswers
    AutoRenew = TRUE
    AutoRemove = TRUE
    Throttles = FALSE
SPECIFICATION Spec
INVARIANTS
    ExpiredIsHandled
