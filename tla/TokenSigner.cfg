SPECIFICATION Spec
CONSTANTS
  Nil = Nil
  Thread = {t1, t2}
  Grant = {g1, p1}
  Private = {p1}
  Key = {k1, k2}
  Durations = {1, 2}
  Usize = 4
  Second = 2
  MaxTime = 2
  MaxCalls = 3
  MaxRestarts = 1
SYMMETRY Symmetry
INVARIANTS
  TokensDiffer
  RecoveredIsIssued
CHECK_DEADLOCK FALSE
