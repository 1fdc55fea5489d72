SPECIFICATION FairSpec
CONSTANTS
  Taggers = {"random", "assertion"}
  x = x
  y = y
  z = z
  Grant <- MCGrant
  Private <- MCPrivate
  Tag <- MCTag
  Signed <- MCSigned
  Signatures <- MCSignatures
  U64 = 2
  Nil = Nil
  Server = {s1, s2}
  Replies = {"ok", "lost", "refused"}
  OverflowChecks = TRUE
  MaxAuthorize = 2
INVARIANTS
  TypeOK
  SingleUse
  RedeemedWasCreated
PROPERTIES
  ImplementsCodeStore
  ContendedCodeIsRedeemed
