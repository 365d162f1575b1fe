SPECIFICATION FairSpec
CONSTANTS
  Workers = {w1, w2}
  Keys = {k1, k2}
  p1 = p1
  p2 = p2
  Identities = {p1}
  Fps = {a}
  Bad = Bad
  Pages <- OnePage
  MaxPolicies = 2
  MaxImports = 0
  Faults = {}
  MaxFaults = 0
PROPERTIES
  RunsEnd
