SPECIFICATION Spec
CONSTANTS
  Tabs = {t1, t2}
  i1 = i1
  i2 = i2
  a1 = a1
  a2 = a2
  open = open
  dnc = dnc
  stop = stop
  Identities = {i1, i2}
  Addresses = {a1, a2}
  Contacts = {Blank, open, dnc, stop}
  Blank = Blank
  StopStatuses = {dnc, stop}
  PhraseStatuses = {stop}
  Malformed = Malformed
  Files <- SomeFiles
  StagedRows <- SomeStagedRows
  Starts <- SomeStarts
  Backups <- SomeBackups
  MaxItems = 3
  MaxRecords = 2
  MaxPlans = 1
  MaxTime = 4
  Absent = Absent
  Damaged = Damaged
  NoPlan = NoPlan
  Idle = Idle
SYMMETRY Symmetry
INVARIANTS
  TypeOK
  IdentityOnOneDeal
  StopsStay
  DifferencesSurfaced
PROPERTIES
  HistoryIsKept
  NewDealsAreNewProperties
CHECK_DEADLOCK FALSE
