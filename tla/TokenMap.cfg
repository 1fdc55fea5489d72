SPECIFICATION Spec
CONSTANTS
  Taggers = {"random", "assertion"}
  Grant = {g1, p1}
  Private = {p1}
  Tag <- MCTag
  Signed <- MCSigned
  Signatures <- MCSignatures
  U64 = 4
  Nil = Nil
  Server = {s1, s2}
  Replies = {"ok", "lost", "refused"}
  MaxCalls = 4
SYMMETRY Symmetry
INVARIANTS
  TypeOK
  RefreshEntryIsLock
  OneLiveAccess
  PairedRecords
  RetiredStaysDead
  AssertsHold
PROPERTIES
  ImplementsTokenStore
CHECK_DEADLOCK FALSE
