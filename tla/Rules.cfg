SPECIFICATION Spec
CONSTANTS
  MA = MA
  RI = RI
  States = {MA, RI}
  bristol = bristol
  providence = providence
  house = house
  duplex = duplex
  twoFamily = twoFamily
  condo = condo
  light = light
  heavy = heavy
  assign = assign
  novation = novation
  None = None
  Never = Never
  ManualTypes = {condo}
  LaunchMarket <- Markets
  LaunchTypes <- TypeNames
  Parcels <- SomeParcels
  Specialist = {novation}
  Inputs <- SomeInputs
  FirstDay = 3
  LastDay <- SomeLastDays
  MaxChanges <- SomeBounds
  Snapshots <- SomeSnapshots
  Evidence <- SomeEvidence
  Boxes <- SomeBoxes
  Holidays <- SomeHolidays
INVARIANTS
  SafetyWorkComesFirst
  GateIsSound
  WindowsElapseFirst
  DailyRunHappensOnce
  NothingIsOverlooked
PROPERTIES
  OnlyResearchClears
CHECK_DEADLOCK FALSE
