SPECIFICATION Spec
SYMMETRY Symmetry
CONSTANTS
  Workers = {w1, w2}
  Clients = {a, b}
  Idle = Idle
  EventLimit = 1
  TriageLimit = 1
  Window = 1
  MaxTime = 1
INVARIANTS TypeOK ChargesConserved OnlyValidatedTriageServed
PROPERTIES ChargedToCaller Quotas
