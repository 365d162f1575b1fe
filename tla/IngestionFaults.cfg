SPECIFICATION Spec
CONSTANTS
  Workers = {w1, w2}
  Keys = {k1, k2}
  p1 = p1
  p2 = p2
  Identities = {p1}
  Fps = {a}
  Bad = Bad
  Pages <- OnePage
  MaxPolicies = 2
  MaxImports = 1
  Faults = {"crash", "error", "lostReply"}
  MaxFaults = 1
SYMMETRY Symmetry
INVARIANTS
  AuditExplainsState
  ImportsCountOnce
PROPERTIES
  EndedRunIsFrozen
  ImplementsAtomicOperations
