SPECIFICATION Spec
CONSTANTS
  Taggers = {"random"}
  Grant = {g1}
  Private = {}
  Tag <- MCTag
  Signed <- MCSigned
  Signatures <- MCSignatures
  U64 = 4
  Nil = Nil
  Server = {s1, s2}
  Replies = {"ok"}
  MaxCalls = 3
INVARIANT
  RefreshTokenSurvives
CHECK_DEADLOCK FALSE
