SPECIFICATION FairSpec
CONSTANTS
  Rules = {r1, r2, r3}
  Outside = {x}
INVARIANTS TypeOK ValidOrder RefusedExactly
PROPERTIES Terminates
CHECK_DEADLOCK FALSE
