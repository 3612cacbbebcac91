SPECIFICATION MCSpec
CONSTANTS
  g1 = g1
  v1 = v1
  Groups = {g1, g2}
  Values = {v1, v2}
  NoTime = NoTime
  Moments = {0, 1, 2}
  Thresholds = {1, 2}
  Span = 2
  MaxEvents = 3
INVARIANTS TypeOK MatchSound QuietComplete LoudFailure
CHECK_DEADLOCK FALSE
