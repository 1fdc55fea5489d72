--------------------------- MODULE RefreshMachine ---------------------------
(***************************************************************************)
(* The state machine Refresh of code_grant/refresh.rs.                       *)
(***************************************************************************)
EXTENDS CodeGrant

\* code_grant::refresh::Request.
RefreshRequest ==
  [valid : BOOLEAN, header : (Client \X Pass) \cup {Nil},
   type : {"refresh_token", "other", Nil}, token : Token \cup {Nil},
   scope : Scope \cup {Nil, Bad}]

\* Refresh::new with initialize: without credentials the token comes first.
RefreshNew(req) ==
  IF ~req.valid \/ req.token = Nil \/ req.type = Nil THEN Err("InvalidRequest")
  ELSE IF req.type # "refresh_token" THEN Err("UnsupportedGrantType")
  ELSE IF req.header = Nil
       THEN [at |-> "Recovering", authenticated |-> Nil, token |-> req.token]
       ELSE [at |-> "Authenticating", client |-> req.header[1], pass |-> req.header[2],
             token |-> req.token]

\* Mutant: the requested scope is not compared with the granted one.
RefreshValidateAnyScope(scope, grant, token, now) ==
  IF grant.until <= now THEN Err("InvalidGrant")
  ELSE IF scope = Bad THEN Err("InvalidScope")
  ELSE [at |-> "Issuing", token |-> token,
        grant |-> [grant EXCEPT !.scope = IF scope = Nil THEN @ ELSE scope,
                                !.until = now + RefreshLife]]

\* validate: not expired, a scope within the granted one, a new expiry.
RefreshValidate(scope, grant, token, now) ==
  IF grant.until <= now THEN Err("InvalidGrant")
  ELSE IF scope = Bad THEN Err("InvalidScope")
  ELSE IF scope # Nil /\ ~PriviledgedTo(grant.scope, scope) THEN Err("InvalidScope")
  ELSE [at |-> "Issuing", token |-> token,
        grant |-> [grant EXCEPT !.scope = IF scope = Nil THEN @ ELSE scope,
                                !.until = now + RefreshLife]]

\* recovered_refresh: the token must be the authenticated client's; without
\* authentication, its client has to be authenticated now.
RecoveredRefresh(m, scope, grant, now) ==
  IF grant = Nil THEN Err("InvalidGrant")
  ELSE IF m.authenticated = Nil
       THEN [at |-> "CoAuthenticating", grant |-> grant, token |-> m.token]
  ELSE IF grant.client # m.authenticated THEN Err("InvalidGrant")
  ELSE RefreshValidate(scope, grant, m.token, now)

\* Mutant: an error is not kept.
RefreshStateForgets(m, in, now) ==
  CASE in.kind = "Authenticated" /\ m.at = "Authenticating" ->
         [at |-> "Recovering", authenticated |-> m.client, token |-> m.token]
    [] in.kind = "Recovered" /\ m.at = "Recovering" ->
         RecoveredRefresh(m, in.scope, in.grant, now)
    [] in.kind = "Authenticated" /\ m.at = "CoAuthenticating" ->
         RefreshValidate(in.scope, m.grant, m.token, now)
    [] in.kind = "None" /\ m.at \in {"Authenticating", "Recovering"} -> m
    [] OTHER -> Err("Primitive")

\* Input::None keeps the first two states and loses the others, where `take`
\* has left an error.
RefreshState(m, in, now) ==
  CASE m.at = "Err" -> m
    [] in.kind = "Authenticated" /\ m.at = "Authenticating" ->
         [at |-> "Recovering", authenticated |-> m.client, token |-> m.token]
    [] in.kind = "Recovered" /\ m.at = "Recovering" ->
         RecoveredRefresh(m, in.scope, in.grant, now)
    [] in.kind = "Authenticated" /\ m.at = "CoAuthenticating" ->
         RefreshValidate(in.scope, m.grant, m.token, now)
    [] in.kind = "None" /\ m.at \in {"Authenticating", "Recovering"} -> m
    [] OTHER -> Err("Primitive")

RefreshOutput(m) ==
  CASE m.at = "Err" -> OutErr(m.error)
    [] m.at = "Authenticating" ->
         [kind |-> "Unauthenticated", client |-> m.client, pass |-> m.pass]
    [] m.at = "CoAuthenticating" ->
         [kind |-> "Unauthenticated", client |-> m.grant.client, pass |-> Nil]
    [] m.at = "Recovering" -> [kind |-> "RecoverRefresh", token |-> m.token]
    [] m.at = "Issuing" -> [kind |-> "Refresh", token |-> m.token, grant |-> m.grant]

RefreshAdvance(m, in, now) ==
  IF in.kind = "Refreshed" /\ m.at = "Issuing"
  THEN [m |-> Err("Primitive"),
        out |-> [kind |-> "Ok", token |-> in.token, scope |-> m.grant.scope]]
  ELSE LET n == RefreshState(m, in, now) IN [m |-> n, out |-> RefreshOutput(n)]

----------------------------------------------------------------------------
(* What the executor refresh injects; Nil when it returns an error.  The     *)
(* client is that of the header or, for a token presented without one, that  *)
(* of its grant, without a passphrase.                                       *)

RefreshAuthenticatedAnswer(m, req, client) ==
  IF Check(client, RefreshOutput(m).pass)
  THEN [kind |-> "Authenticated", scope |-> req.scope] ELSE Nil

RefreshRecoveredAnswer(req, entry) ==
  [kind |-> "Recovered", scope |-> req.scope,
   grant |-> IF entry = Nil THEN Nil ELSE entry.grant]
=============================================================================
