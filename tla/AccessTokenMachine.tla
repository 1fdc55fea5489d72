-------------------------- MODULE AccessTokenMachine --------------------------
(***************************************************************************)
(* The state machine AccessToken of code_grant/accesstoken.rs.               *)
(***************************************************************************)
EXTENDS CodeGrant

\* code_grant::accesstoken::Request.  header is the pair of the Authorization
\* header or Nil, client and secret are body parameters, body tells whether
\* the endpoint allows credentials there.
AccessTokenRequest ==
  [valid : BOOLEAN, header : (Client \X Pass) \cup {Nil},
   client : Client \cup {Nil}, secret : Pass \cup {Nil}, body : BOOLEAN,
   type : {"authorization_code", "other", Nil},
   uri : UriText \cup {Nil, Bad}, code : Code \cup {Nil},
   verifier : Verifier \cup {Nil}]

\* The credentials a request offers: header and body each add at most one.
Credentials(req) ==
  (IF req.header = Nil THEN {} ELSE {<<"header", req.header[1], req.header[2]>>})
    \cup
  (IF req.client = Nil THEN {}
   ELSE {<<"body", req.client, IF req.body THEN req.secret ELSE Nil>>})

\* AccessToken::new with validate.  Exactly one set of credentials.
AccessTokenNew(req) ==
  IF ~req.valid \/ req.type = Nil THEN Err("Invalid")
  ELSE IF req.type # "authorization_code" THEN Err("UnsupportedGrantType")
  ELSE IF Cardinality(Credentials(req)) # 1 \/ req.uri \in {Nil, Bad} \/ req.code = Nil
       THEN Err("Invalid")
  ELSE LET cred == CHOOSE cred \in Credentials(req) : TRUE
       IN  [at |-> "Authenticate", client |-> cred[2], pass |-> cred[3],
            code |-> req.code, uri |-> ToUrl(req.uri)]

\* Mutant: the client that the code was issued to is not compared.
RecoveredAnyClient(m, grant, now) ==
  IF grant = Nil THEN Err("Invalid")
  ELSE IF grant.uri # m.uri \/ grant.until < now THEN Err("InvalidGrant")
  ELSE [at |-> "Extend", grant |-> [grant EXCEPT !.ext = Nil], ext |-> grant.ext]

\* recovered: the grant must be this client's, for this uri, and not expired.
Recovered(m, grant, now) ==
  IF grant = Nil THEN Err("Invalid")
  ELSE IF <<grant.client, grant.uri>> # <<m.client, m.uri>> \/ grant.until < now
       THEN Err("InvalidGrant")
  ELSE [at |-> "Extend", grant |-> [grant EXCEPT !.ext = Nil], ext |-> grant.ext]

\* Mutant: a recovered grant is taken before the client is authenticated.
AccessTokenStateUnchecked(m, in, now) ==
  CASE in.kind = "None" -> m
    [] in.kind = "Authenticated" /\ m.at = "Authenticate" ->
         [at |-> "Recover", client |-> m.client, code |-> m.code, uri |-> m.uri]
    [] in.kind = "Recovered" /\ m.at \in {"Authenticate", "Recover"} ->
         Recovered(m, in.grant, now)
    [] in.kind = "Extended" /\ m.at = "Extend" ->
         [at |-> "Issue", grant |-> [m.grant EXCEPT !.ext = in.ext]]
    [] m.at = "Err" -> m
    [] OTHER -> Err("Primitive")

AccessTokenState(m, in, now) ==
  CASE in.kind = "None" -> m
    [] in.kind = "Authenticated" /\ m.at = "Authenticate" ->
         [at |-> "Recover", client |-> m.client, code |-> m.code, uri |-> m.uri]
    [] in.kind = "Recovered" /\ m.at = "Recover" -> Recovered(m, in.grant, now)
    [] in.kind = "Extended" /\ m.at = "Extend" ->
         [at |-> "Issue", grant |-> [m.grant EXCEPT !.ext = in.ext]]
    [] m.at = "Err" -> m
    [] OTHER -> Err("Primitive")

AccessTokenOutput(m) ==
  CASE m.at = "Err" -> OutErr(m.error)
    [] m.at = "Authenticate" ->
         [kind |-> "Authenticate", client |-> m.client, pass |-> m.pass]
    [] m.at = "Recover" -> [kind |-> "Recover", code |-> m.code]
    [] m.at = "Extend" -> [kind |-> "Extend", ext |-> m.ext]
    [] m.at = "Issue" -> [kind |-> "Issue", grant |-> m.grant]

\* Mutant: the machine stays in Issue after the bearer token was handed out.
AccessTokenAdvanceRepeats(m, in, now) ==
  IF in.kind = "Issued" /\ m.at = "Issue"
  THEN [m |-> m, out |-> [kind |-> "Ok", token |-> in.token, scope |-> m.grant.scope]]
  ELSE LET n == AccessTokenState(m, in, now) IN [m |-> n, out |-> AccessTokenOutput(n)]

\* advance: the bearer token is handed out once, `take` has left an error.
AccessTokenAdvance(m, in, now) ==
  IF in.kind = "Issued" /\ m.at = "Issue"
  THEN [m |-> Err("Primitive"),
        out |-> [kind |-> "Ok", token |-> in.token, scope |-> m.grant.scope]]
  ELSE LET n == AccessTokenState(m, in, now) IN [m |-> n, out |-> AccessTokenOutput(n)]

----------------------------------------------------------------------------
(* What the executor access_token injects; Nil when it returns an error.     *)

AuthenticatedAnswer(m, client) ==
  IF Check(client, m.pass) THEN [kind |-> "Authenticated"] ELSE Nil

VerifyAnswer(m, req) ==
  IF Verify(m.ext, req.verifier) THEN [kind |-> "Extended", ext |-> Nil] ELSE Nil
=============================================================================
