SPECIFICATION MCSpec
CONSTANTS
  c1 = c1
  c2 = c2
  k1 = k1
  k2 = k2
  k3 = k3
  h1 = h1
  h2 = h2
  h3 = h3
  h4 = h4
  h5 = h5
  h6 = h6
  h7 = h7
  EarlyLog = 4
  LateLog = 10
  None = None
  Conditions <- MCConditions
  Keys <- MCKeys
  CommandTypes <- MCCommandTypes
  MaxTime = 1
  MaxInvalidations = 1
  MaxLog = 10
SYMMETRY KeySymmetry
INVARIANTS
  LedgerTypeOK
  RecordsMatchLog
  OneEventPerCommand
  DecidedOnTail
  AggregateFollowsLog
CHECK_DEADLOCK FALSE
