SPECIFICATION MCSpec
CONSTANTS
  c1 = c1
  c2 = c2
  w1 = w1
  w2 = w2
  institution = institution
  merchant = merchant
  authority = authority
  None = None
  Orders <- MCOrders
  Parties <- MCParties
  Amounts <- MCAmounts
  Wishes <- MCWishes
  Jobs <- MCJobs
  Institution = institution
  Merchant = merchant
  Authority = authority
  MaxDuration = 2
  MaxTime = 4
  MaxDeposit = 2
  Amount = 1
  Ttl = 1
  Attempts = 4
INVARIANTS PaysOncePerConsent OrderedIsPaidFor ShopPaidOnReceipt
PROPERTY ConfirmedIsDecided
CHECK_DEADLOCK FALSE
