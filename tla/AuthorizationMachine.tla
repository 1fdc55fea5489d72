------------------------- MODULE AuthorizationMachine -------------------------
(***************************************************************************)
(* The state machine Authorization of code_grant/authorization.rs.           *)
(***************************************************************************)
EXTENDS CodeGrant

\* code_grant::authorization::Request.  valid is FALSE for a request whose
\* encoding was malformed; type "other" is any unknown response_type.
AuthorizationRequest ==
  [valid : BOOLEAN, client : Client \cup {Nil}, uri : UriText \cup {Nil, Bad},
   type : {"code", "other"}, scope : Scope \cup {Nil, Bad},
   method : MethodParam, challenge : Text \cup {Nil}]

\* Authorization::new with validate.  The fields extensions and scope of the
\* struct are part of every state.
AuthorizationNew(req) ==
  IF ~req.valid \/ req.client = Nil \/ req.uri = Bad THEN Err("Ignore")
  ELSE [at |-> "Binding", client |-> req.client, uri |-> req.uri]

\* bound: the first point where the client may be told about an error.
Bound(req, client, uri) ==
  IF req.type # "code" \/ req.scope = Bad THEN Err("Redirect")
  ELSE [at |-> "Extending", client |-> client, uri |-> uri, scope |-> req.scope]

AuthorizationState(m, in) ==
  CASE in.kind = "None" -> m
    [] in.kind = "Bound" /\ m.at = "Binding" -> Bound(in.request, in.client, in.uri)
    [] in.kind = "Extended" /\ m.at = "Extending" ->
         [at |-> "Negotiating", client |-> m.client, uri |-> m.uri,
          scope |-> m.scope, ext |-> in.ext]
    [] in.kind = "Negotiated" /\ m.at = "Negotiating" ->
         [at |-> "Pending", pre |-> in.pre, ext |-> m.ext]
    [] m.at = "Err" -> m
    [] OTHER -> Err("PrimitiveError")

AuthorizationOutput(m) ==
  CASE m.at = "Err" -> OutErr(m.error)
    [] m.at = "Binding" -> [kind |-> "Bind", client |-> m.client, uri |-> m.uri]
    [] m.at = "Extending" -> [kind |-> "Extend"]
    [] m.at = "Negotiating" ->
         [kind |-> "Negotiate", client |-> m.client, uri |-> m.uri, scope |-> m.scope]
    [] m.at = "Pending" -> [kind |-> "Ok", pre |-> m.pre, ext |-> m.ext]

AuthorizationAdvance(m, in) ==
  LET n == AuthorizationState(m, in) IN [m |-> n, out |-> AuthorizationOutput(n)]

----------------------------------------------------------------------------
(* What the executor authorization_code injects as the answer to an output;  *)
(* Nil when it returns an error instead.  client is the registered record.   *)

BoundAnswer(m, req, client) ==
  LET uri == BoundRedirect(client, m.uri)
  IN  IF uri = Nil THEN Nil
      ELSE [kind |-> "Bound", request |-> req, client |-> m.client, uri |-> uri]

ChallengeAnswer(req) ==
  LET ext == Challenge(req.method, req.challenge)
  IN  IF ext = Bad THEN Nil ELSE [kind |-> "Extended", ext |-> ext]

NegotiatedAnswer(m, client) ==
  [kind |-> "Negotiated", pre |-> Negotiate(m.client, client, m.uri)]

\* Pending::authorize: the grant a code is made for.
AuthorizedGrant(owner, pre, ext, now) ==
  [owner |-> owner, client |-> pre.client, uri |-> pre.uri, scope |-> pre.scope,
   until |-> now + CodeLife, ext |-> ext]
=============================================================================
