SPECIFICATION MCSpec
CONSTANTS
  c1 = c1
  c2 = c2
  c3 = c3
  s1 = s1
  s2 = s2
  f1 = f1
  f2 = f2
  None = None
  Cases <- MCCases
  Scopes <- MCScopes
  Fingerprints <- MCFingerprints
SYMMETRY Symmetry
INVARIANTS
  Balanced
PROPERTIES
  KeepsLimit
