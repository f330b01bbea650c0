CONSTANTS
  Tabs = {t, u}
  Calls = {c, d}
  MaxInteractions = 2
  MaxRuns = 3
  MaxPairs = 2
  MaxRequests = 3
  MaxTransactions = 2
  One = v
  Other = w
  MaxKeys = 2
  MaxWrites = 2
  Inputs <- SomeInputs
  Answers <- SomeAnswers
SPECIFICATION MCSpec
INVARIANT NonceIsValidated
CHECK_DEADLOCK FALSE
