--------------------------- MODULE ResourceMachine ---------------------------
(***************************************************************************)
(* The state machine Resource of code_grant/resource.rs.                     *)
(***************************************************************************)
EXTENDS CodeGrant

\* code_grant::resource::Request.  token is Bad when the header is not of the
\* form "Bearer ...".
ResourceRequest == [valid : BOOLEAN, token : Token \cup {Nil, Bad}]

ResourceNew == [at |-> "New"]

ResourceValidate(req) ==
  IF ~req.valid THEN Err("InvalidRequest")
  ELSE IF req.token = Nil THEN Err("NoAuthentication")
  ELSE IF req.token = Bad THEN Err("InvalidRequest")
  ELSE [at |-> "Internalized", token |-> req.token]

\* Mutant: an expired grant opens the resource.
ResourceRecoveredExpired(grant, scopes, now) ==
  IF grant = Nil THEN "invalid_request"
  ELSE IF ~\E scope \in scopes : AllowAccess(grant.scope, scope)
       THEN "insufficient_scope"
  ELSE "Ok"

\* recovered: the ErrorCode of Error::AccessDenied, or "Ok".
ResourceRecovered(grant, scopes, now) ==
  IF grant = Nil THEN "invalid_request"
  ELSE IF grant.until < now THEN "invalid_token"
  ELSE IF ~\E scope \in scopes : AllowAccess(grant.scope, scope)
       THEN "insufficient_scope"
  ELSE "Ok"

ResourceOutput(m) ==
  CASE m.at = "Err" -> OutErr(m.error)
    [] m.at = "New" -> [kind |-> "GetRequest"]
    [] m.at = "Internalized" -> [kind |-> "DetermineScopes"]
    [] m.at = "Recovering" -> [kind |-> "Recover", token |-> m.token]

\* advance: with an input that does not fit, in an error state too, the
\* answer is a primitive error and `take` has left one behind.
ResourceAdvance(m, in, now) ==
  LET to(n) == [m |-> n, out |-> ResourceOutput(n)]
      res == ResourceRecovered(in.grant, m.scopes, now)
  IN
  CASE in.kind = "None" -> to(m)
    [] in.kind = "Request" /\ m.at = "New" -> to(ResourceValidate(in.request))
    [] in.kind = "Scopes" /\ m.at = "Internalized" ->
         to([at |-> "Recovering", token |-> m.token, scopes |-> in.scopes])
    [] in.kind = "Recovered" /\ m.at = "Recovering" ->
         IF res = "Ok"
         THEN [m |-> Err("PrimitiveError"), out |-> [kind |-> "Ok", grant |-> in.grant]]
         ELSE to(Err(res))
    [] OTHER -> to(Err("PrimitiveError"))

\* The executor protect up to its call of the issuer: it injects the request
\* and the scopes the endpoint protects.
ResourceAsked(req, scopes) ==
  LET m == ResourceAdvance(ResourceNew, [kind |-> "Request", request |-> req], 0).m
  IN  IF m.at = "Err" THEN m
      ELSE ResourceAdvance(m, [kind |-> "Scopes", scopes |-> scopes], 0).m
=============================================================================
