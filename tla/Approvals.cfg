SPECIFICATION Spec
CONSTANTS
  Workers = {w1, w2}
  Actions = {x, y}
  Keys = {k1}
  Actors = {ann, ben}
  Requirements <- OneOrTwo
  MaxFaults = 1
SYMMETRY Symmetry
INVARIANTS
  TypeOK
  StatusHasACause
  LedgerIsTrue
  MissingOnlyByFaults
  OneRequestPerKey
PROPERTIES
  SettledOnlyByDecisionsInFlight
