SPECIFICATION Spec
CONSTANTS
  c1 = c1
  s1 = s1
  o1 = o1
  o2 = o2
  j1 = j1
  j2 = j2
  r1 = r1
  r2 = r2
  None = None
  Cases <- MCCases
  Scopes <- MCScopes
  Fingerprints <- MCOffers
  Offers <- MCOffers
  Price <- MCPrice
  Allocation = 3
  Jobs <- MCJobs
  Requests <- MCRequests
  OtherOrders <- MCOthers
  MaxConsents = 2
SYMMETRY Symmetry
CONSTRAINT PhoneBound
CHECK_DEADLOCK FALSE
INVARIANTS
  OnePaidOrder
  PaidFromBudget
  OrderedAsConsented
  StoresInOrder

  
