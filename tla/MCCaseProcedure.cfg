SPECIFICATION FairProcSpec
CONSTANTS
  c1 = c1
  c2 = c2
  None = None
  Conditions <- MCConditions
  MaxTime = 2
  MaxInvalidations = 2
INVARIANTS
  ProcTypeOK
  OrderedAsAgreed
  BindingsMatchApprovals
PROPERTIES
  TermsFrozenOnceOrdered
  ApprovalAfterConsent
  CaseCompletes
