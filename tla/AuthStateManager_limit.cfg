CONSTANTS
    caller1 = caller1
    Callers <- OneCaller
    MaxEvals = 5
    MaxTokens = 4
    MaxCanceled = 2
    Reacts = FALSE
    Throws = FALSE
    AutoRemove = FALSE
SPECIFICATION Spec
INVARIANTS
    AuthStateIsCurrent
CHECK_DEADLOCK FALSE
