SPECIFICATION Spec
CONSTANTS
  Task = {t1, t2, t3}
  Host = {h1, bad}
  BadHost = {bad}
  MaxForge = 4
INVARIANTS
  TypeOK
  ServedWasCurrent
  StampedeBounded
