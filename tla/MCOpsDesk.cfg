SPECIFICATION MCSpec
CONSTANTS
  c1 = c1
  c2 = c2
  r1 = r1
  r2 = r2
  k1 = k1
  k2 = k2
  photo = photo
  None = None
  Photo = photo
  Caregivers <- MCCaregivers
  Requests <- MCRequests
  Calls <- MCCalls
  MaxRevision = 10
  MaxChanges = 2
  MaxClicks = 2
  DeskRevision = 1
SYMMETRY DeskSymmetry
INVARIANTS
  TypeOK
  DecidedIsNotOffered
  IndependentApproval
  RefundedNeverShipped
PROPERTIES
  KeepsSignatures
  ClosedOrder
CHECK_DEADLOCK FALSE
