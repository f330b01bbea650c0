CONSTANTS
    f1 = f1
    f2 = f2
    t1 = t1
    t2 = t2
    c1 = c1
    c2 = c2
    None = None
    Flows <- TwoFlows
    StateFlows <- OneStateFlow
    Tabs <- TwoTabs
    Calls <- TwoCalls
    Lifetime = 1
    MaxAnswers = 1
    MaxJobs = 2
    NoTab = NoTab
    MaxVersion = 2
    MaxSignOuts = 1
SPECIFICATION MCSpec
INVARIANTS
    Types
    VerifierIsOwn
    EndedLeavesNothing
    RestoresOwnUri
    TabsFollow
    SignedOutStaysOut
    LeaderAttends
PROPERTIES
    ExchangedOnce
    OwnFlowsOnly
SYMMETRY Symmetry
