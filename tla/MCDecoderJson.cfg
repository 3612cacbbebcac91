SPECIFICATION FairSpec
CONSTANTS
  MaxOctet = 40
  MaxShort = 40
  Half = 32
  MaxLine = 34
  MaxLines = 1
INVARIANTS EventsAreJson
CHECK_DEADLOCK FALSE
