SPECIFICATION Spec
CONSTANTS
  Nil = Nil
  Bad = Bad
  c1 = c1
  o1 = o1
  a1 = a1
  p1 = p1
  x1 = x1
  k1 = k1
  t1 = t1
  ScopeToken = {a1}
  Client = {c1}
  Pass = {p1}
  UriText = {x1}
  ToUrl <- MCToUrl
  Text = {v1}
  Verifier = {v1}
  B64Sha256 <- MCB64Sha256
  Required = FALSE
  AllowPlain = TRUE
  Owner = {o1}
  Code = {k1}
  Token = {t1}
  CodeLife = 1
  RefreshLife = 2
  ImplicitLife = 1
  Pair <- MCPair
  WebRequests <- MCWebRequests
  Messages <- MCMessages
  Grants <- MCGrants
INVARIANT
  AuthorizationNeverPanics
