SPECIFICATION Spec
CONSTANTS
  base = base
  corr = corr
  dnp3 = dnp3
  Rules <- MCRules
  Refs <- MCRefs
  NativeRules <- MCNative
  Absent = Absent
  Torn = Torn
  MaxEdits = 1
INVARIANTS TypeOK UntouchedRulesExact UpToDateMeansCurrent RerunRepairs
