SPECIFICATION Spec
CONSTANTS
  Threads = {t1, t2}
  Clients = {a}
  Idle = Idle
  Limit = 2
  Window = 2
  MaxTime = 4
INVARIANTS SlidingWindowExact
