SPECIFICATION Spec
CONSTANTS
  Nil = Nil
  Bad = Bad
  c1 = c1
  c2 = c2
  o1 = o1
  a1 = a1
  b1 = b1
  p1 = p1
  p2 = p2
  x1 = x1
  x2 = x2
  v1 = v1
  h1 = h1
  y2 = y2
  ScopeToken = {a1, b1}
  Client = {c1, c2}
  Pass = {p1, p2}
  UriText = {x1, x2, y2}
  ToUrl <- MCToUrl
  Text = {v1, h1}
  Verifier = {v1}
  B64Sha256 <- MCB64Sha256
  Required = TRUE
  AllowPlain = TRUE
  Owner = {o1}
  Code = {1, 2}
  Token = {1, 2, 3, 4}
  CodeLife = 1
  RefreshLife = 2
  ImplicitLife = 1
  Thread = {r1, r2}
  Registrations <- MCRegistrations
  AuthorizationRequests <- MCAuthorizationRequests
  AccessTokenRequests <- MCAccessTokenRequests
  RefreshRequests <- MCRefreshRequests
  ImplicitRequests <- MCImplicitRequests
  ResourceRequests <- MCResourceRequests
  ResourceScopes <- MCResourceScopes
  MaxRequests = 4
  MaxRegistrations = 1
  MaxTime = 2
SYMMETRY Symmetry
INVARIANTS
  Consented
  OneAnswerPerCode
  OneLiveToken
  ProvenClient
  PkceProven
  RedirectRegistered
  PermitsAreBacked
CHECK_DEADLOCK FALSE
