SPECIFICATION Spec
CONSTANTS
  Proc = {p1}
  Key = {k1, k2, k3, k4}
  Absent = Absent
  Torn = Torn
  Apart = TRUE
INVARIANTS
  AnchorSurvives
