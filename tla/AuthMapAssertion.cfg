SPECIFICATION Spec
CONSTANTS
  Taggers = {"assertion"}
  x = x
  y = y
  z = z
  Grant <- MCGrant
  Private <- MCPrivate
  Tag <- MCTag
  Signed <- MCSigned
  Signatures <- MCSignatures
  U64 = 3
  Nil = Nil
  Server = {s1, s2}
  Replies = {"ok"}
  OverflowChecks = TRUE
  MaxAuthorize = 2
INVARIANT
  NeverTheSameCodeTwice
