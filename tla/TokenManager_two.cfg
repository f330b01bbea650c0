CONSTANTS
    r1 = r1
    r2 = r2
    NoRenewal = NoRenewal
    Renewals <- TwoRenewals
    MaxVersion = 2
    Answers <- LoginAnswers
    AutoRenew = TRUE
    AutoRemove = TRUE
    Throttles = FALSE
SPECIFICATION Spec
INVARIANTS
    TokenRenewedOnce
