CONSTANTS
  Callers = {caller1}
  MaxEvals = 4
  MaxTokens = 4
  MaxCanceled = 2
  Reacts = TRUE
  Throws = TRUE
  AutoRemove = TRUE
  First = f
  Second = g
  MaxMessages = 2
  Polls = {p, q}
  MaxBackoffs = 2
  MaxLoads = 1
  Tabs = {a, b}
  MaxCalls = 3
SPECIFICATION MCSpec
INVARIANTS Types LastStateIsCurrent
PROPERTIES StateIsConsistent NeverGoesBack CallersSeeTheirTokens CallersAreAnswered
           FlowsEnd NoLateExchange StoppedPollsEnd SomebodyRenews
\* When all that the bounds allow is used up nothing is left to do.
CHECK_DEADLOCK FALSE
