SPECIFICATION Spec
SYMMETRY Symmetry
CONSTANTS
  Threads = {t1, t2}
  Clients = {a, b}
  Idle = Idle
  Limit = 2
  Window = 2
  MaxTime = 3
INVARIANTS TypeOK
PROPERTIES RefusalDeserved ImplementsQuota
