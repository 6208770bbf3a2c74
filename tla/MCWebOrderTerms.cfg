SPECIFICATION Spec
CONSTANTS
  g1 = g1
  g2 = g2
  r1 = r1
  Goods <- MCGoods
  Quantities <- MCQuantities
  Recipients <- MCRecipients
  Calls <- MCCalls
  MaxEdits = 4
  None = None
INVARIANT UsablePreviewIsCurrent
CHECK_DEADLOCK FALSE
