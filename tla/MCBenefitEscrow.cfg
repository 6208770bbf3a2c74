SPECIFICATION EscrowSpec
CONSTANTS
  o1 = o1
  o2 = o2
  p1 = p1
  p2 = p2
  p3 = p3
  None = None
  Orders <- MCOrders
  Parties <- MCParties
  Amounts <- MCAmounts
  MaxDuration = 2
  MaxTime = 3
  MaxDeposit = 3
CHECK_DEADLOCK FALSE
INVARIANTS
  EscrowTypeOK
  OutcomeByExpiry
PROPERTIES
  KeepsPromise
  FundedOrdersSettle
