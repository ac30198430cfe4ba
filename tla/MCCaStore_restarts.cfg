SPECIFICATION Spec
CONSTANTS
  Proc = {p1, p2}
  Key = {k1, k2, k3, k4, k5, k6}
  Absent = Absent
  Torn = Torn
  Apart = TRUE
INVARIANTS
  TypeOK
  PairMatches
PROPERTIES
  PairIsPermanent
  FailuresExplained
