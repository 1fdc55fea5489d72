SPECIFICATION Spec
CONSTANTS
  Nil = Nil
  Bad = Bad
  c1 = c1
  c2 = c2
  o1 = o1
  a1 = a1
  b1 = b1
  ScopeToken = {a1, b1}
  Client = {c1, c2}
  Pass = {p1}
  UriText = {x1, x2}
  ToUrl <- MCToUrl
  Text = {v1}
  Verifier = {v1}
  B64Sha256 <- MCB64Sha256
  Required = FALSE
  AllowPlain = TRUE
  Owner = {o1}
  Code = {k1}
  Token = {t1}
  CodeLife = 1
  RefreshLife = 2
  ImplicitLife = 1
  Grants <- MCGrants
  MaxTime = 2
INVARIANTS
  OkAfterWholeProtocol
  OkOnce
  OkRestsOnFittingGrant
PROPERTY
  ErrorsRepeat
