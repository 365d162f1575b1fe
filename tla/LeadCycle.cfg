SPECIFICATION FairSpec
CONSTANTS
  Workers = {w1, w2}
  r1 = r1
  r2 = r2
  Records = {r1, r2}
  Contents <- Units
  v1 = v1
  v2 = v2
  Versions = {v1, v2}
  a1 = a1
  a2 = a2
  Addresses = {a1, a2}
  AddressOf <- Move
  p1 = p1
  p2 = p2
  Properties = {p1, p2}
  PropertyAddress <- Houses
  Owned = {p1}
  MaxDays = 2
  MaxFaults = 1
  None = None
INVARIANTS
  TypeOK
  OwnerIsOfThisAddress
  SuccessLeavesProfile
PROPERTIES
  OwnerIsKept
  StagedRowsBecomeLeads
CHECK_DEADLOCK FALSE
