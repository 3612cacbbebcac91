SPECIFICATION FairSpec
CONSTANTS
  MaxOctet = 40
  MaxShort = 40
  Half = 32
  MaxLine = 34
  MaxLines = 2
INVARIANTS TypeOK NeverPanics
PROPERTIES ImplementsStream Terminates
CHECK_DEADLOCK FALSE
