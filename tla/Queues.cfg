CONSTANTS
    c1 = c1
    c2 = c2
    c3 = c3
    c4 = c4
    NoCall = NoCall
    Calls <- FourCalls
    Throwing <- OneThrows
    First = r1
    Second = r2
    NoRenewal = noRenewal
    MaxVersion = 2
SPECIFICATION MCSpec
INVARIANTS
    TypeOK
    OneAtATime
    WaitersAreDriven
PROPERTIES
    ImplementsSerialExecutor
    RenewalsEnd
\* Every call is made at most once: when all have finished nothing is left.
CHECK_DEADLOCK FALSE
