SPECIFICATION Spec
CONSTANTS
  Nil = Nil
  Bad = Bad
  Panic = Panic
  c1 = c1
  c2 = c2
  c3 = c3
  a1 = a1
  p1 = p1
  p2 = p2
  x1 = x1
  x2 = x2
  ScopeToken = {a1}
  Client = {c1, c2, c3}
  Pass = {p1, p2}
  UriText = {x1, x2}
  ToUrl <- MCToUrl
  Server = {s1, s2}
  HashId = c2
  Literal = {c1, c2}
  Replica = {n1, n2}
  Calls <- MCCalls
  Rows <- MCRows
  Records <- MCRecords
  MaxCalls = 2
  MaxChanges = 1
INVARIANTS
  TypeOK
  ServedWasKnown
  MissIsFresh
  PresentIsFound
PROPERTY
  LookupEnds
CHECK_DEADLOCK FALSE
