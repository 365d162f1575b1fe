SPECIFICATION Spec
CONSTANTS
  Workers = {w1, w2}
  Actions = {x}
  Keys = {k1}
  Actors = {ann, ben}
  Requirements <- OneOrTwo
  MaxFaults = 0
SYMMETRY Symmetry
INVARIANTS
  LedgerIsOneChain
