CONSTANTS
    c1 = c1
    c2 = c2
    c3 = c3
    c4 = c4
    NoCall = NoCall
    Calls <- ThreeCalls
    Throwing <- OneThrows
SPECIFICATION FairSpec
PROPERTIES
    EveryCallSettles
CHECK_DEADLOCK FALSE
