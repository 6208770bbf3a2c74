SPECIFICATION PhoneSpec
CONSTANTS
  call = call
  u1 = u1
  t1 = t1
  t2 = t2
  j1 = j1
  j2 = j2
  None = None
  Conditions <- MCConditions
  Utterances <- MCUtterances
  Offers <- MCOffers
  CallId = call
  Jobs <- MCJobs
  Keys <- MCKeys
  CommandTypes <- MCKeys
  MaxTime = 0
  MaxInvalidations = 0
  MaxLog = 5
  MaxRevision = 5
SYMMETRY Symmetry
CHECK_DEADLOCK FALSE
INVARIANTS
  PhoneTypeOK
  OrderedAsConfirmed
PROPERTIES
  AgreementIsFinal
  OrderNeverForgotten
