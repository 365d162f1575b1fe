SPECIFICATION Spec
CONSTANTS
  Workers = {w1}
  Keys = {k1, k2, k3}
  p1 = p1
  p2 = p2
  Identities = {p1}
  Fps = {a, b}
  Bad = Bad
  Pages <- OnePage
  MaxPolicies = 1
  MaxImports = 0
  Faults = {}
  MaxFaults = 0
SYMMETRY Symmetry
INVARIANTS
  ChangedSnapshotsAreKept
