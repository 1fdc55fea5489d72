----------------------------- MODULE OAuthServer -----------------------------
(***************************************************************************)
(* The authorization server as its clients see it: requests of several       *)
(* clients run at once, each driven by the executors of code_grant (or       *)
(* token_grant) over one registrar, one authorizer and one issuer.  A step   *)
(* is one call of a primitive together with the `advance` that takes its     *)
(* answer; between two steps of a request anything else may happen, as       *)
(* between two awaits of oxide-auth-async or between two server instances.   *)
(*                                                                         *)
(* Authorizer and issuer are taken at the level of their traits (AuthMap and *)
(* TokenMap look inside).  Every primitive may fail, except that codes and   *)
(* tokens are not made up: authorize, issue and refresh return new strings.  *)
(***************************************************************************)
EXTENDS AuthorizationMachine, AccessTokenMachine, RefreshMachine, ResourceMachine

CONSTANTS
  Thread,         \* requests that can be in progress at once
  Registrations,  \* the client records the operator may register: a set of
                  \*   pairs <<client, EncodedClient>>
  AuthorizationRequests, AccessTokenRequests, RefreshRequests, ImplicitRequests,
  ResourceRequests,   \* the requests considered
  ResourceScopes,     \* the scopes of the protected resource
  MaxRequests, MaxRegistrations, MaxTime   \* bounds

\* response_type=token; the owner is whoever the request names.
ImplicitRequest ==
  [client : Client \cup {Nil}, uri : UriText \cup {Nil, Bad},
   scope : Scope \cup {Nil, Bad}, user : Owner]

ASSUME OAuthServerAssumption ==
  /\ AuthorizationRequests \subseteq AuthorizationRequest
  /\ AccessTokenRequests \subseteq AccessTokenRequest
  /\ RefreshRequests \subseteq RefreshRequest
  /\ ImplicitRequests \subseteq ImplicitRequest
  /\ ResourceRequests \subseteq ResourceRequest
  /\ ResourceScopes \subseteq Scope
  /\ Registrations \subseteq Client \X EncodedClient
  /\ Code \subseteq Nat /\ Token \subseteq Nat
  /\ {MaxRequests, MaxRegistrations, MaxTime} \subseteq Nat

VARIABLES
  now,       \* Utc::now()
  clients,   \* registrar: client id -> EncodedClient
  codes,     \* authorizer: code -> Grant
  access,    \* issuer: access token -> Grant
  refresh,   \* issuer: refresh token -> [access, grant]
  run,       \* run[t]: the request in progress: flow, request, machine state
  \* History.
  registered,  \* pairs <<client, EncodedClient>> in force at some time
  consents,    \* what owners have consented to
  issued,      \* code -> the grant it was issued for
  answers,     \* bearer tokens sent to clients, with the request they answer
  permits,     \* accesses to the resource: token, grant, whether it had expired
  requests, registrations   \* counters

store == <<codes, access, refresh>>
history == <<registered, consents, issued, answers, permits, requests, registrations>>
vars == <<now, clients, store, run, history>>

Idle == [flow |-> "idle", req |-> Nil, m |-> Nil]

UrisOf(client) == {ToUrl(u.text) : u \in client.more \cup {client.uri}}

Init ==
  /\ now = 0
  /\ clients \in [Client -> {r[2] : r \in Registrations} \cup {Nil}]
  /\ registered = {<<c, clients[c]>> : c \in {c \in Client : clients[c] # Nil}}
  /\ registered \subseteq Registrations
  /\ codes = [k \in Code |-> Nil]
  /\ access = [a \in Token |-> Nil]
  /\ refresh = [b \in Token |-> Nil]
  /\ run = [t \in Thread |-> Idle]
  /\ consents = {}
  /\ issued = [k \in Code |-> Nil]
  /\ answers = {}
  /\ permits = {}
  /\ requests = 0
  /\ registrations = 0

\* The executor returns to its caller.
Reply(t) == run' = [run EXCEPT ![t] = Idle]

\* The executor feeds the machine and loops, or returns the error.
Continue(t, m) ==
  IF m.at = "Err" THEN Reply(t) ELSE run' = [run EXCEPT ![t].m = m]

\* in = Nil: the primitive has refused.
Feed(t, in, m) == IF in = Nil THEN Reply(t) ELSE Continue(t, m)

Begin(t, flow, req, m) ==
  /\ run[t].flow = "idle"
  /\ requests < MaxRequests
  /\ requests' = requests + 1
  /\ m.at # "Err"
  /\ run' = [run EXCEPT ![t] = [flow |-> flow, req |-> req, m |-> m]]
  /\ UNCHANGED <<now, clients, store, registered, consents, issued, answers, permits,
                 registrations>>

In(t, flow, at) == run[t].flow = flow /\ run[t].m.at = at

\* New codes and tokens are interchangeable: they are taken in order.
First(a, S) == a \in S /\ \A c \in S : a <= c

\* A primitive reports an error and the executor returns it.
Fail(t) ==
  /\ run[t].flow # "idle"
  /\ Reply(t)
  /\ UNCHANGED <<now, clients, store, history>>

----------------------------------------------------------------------------
(* authorization_code, then the solicitation of the owner's consent *)

AuthorizationCall(t, req) == Begin(t, "authorization", req, AuthorizationNew(req))

AuthorizationBind(t) ==
  LET m == run[t].m
      in == BoundAnswer(m, run[t].req, clients[m.client])
  IN
  /\ In(t, "authorization", "Binding")
  /\ Feed(t, in, AuthorizationAdvance(m, in).m)
  /\ UNCHANGED <<now, clients, store, history>>

AuthorizationExtend(t) ==
  LET in == ChallengeAnswer(run[t].req)
  IN
  /\ In(t, "authorization", "Extending")
  /\ Feed(t, in, AuthorizationAdvance(run[t].m, in).m)
  /\ UNCHANGED <<now, clients, store, history>>

\* The client may have been registered again since it was bound.
AuthorizationNegotiate(t) ==
  LET m == run[t].m
      in == NegotiatedAnswer(m, clients[m.client])
  IN
  /\ In(t, "authorization", "Negotiating")
  /\ Feed(t, in, AuthorizationAdvance(m, in).m)
  /\ UNCHANGED <<now, clients, store, history>>

\* check_consent answers Authorized(owner); the other answers (denied, in
\* progress, error) end the request like a failure.
Solicit(t, owner) ==
  /\ In(t, "authorization", "Pending")
  /\ consents' = consents \cup {[owner |-> owner, pre |-> run[t].m.pre]}
  /\ run' = [run EXCEPT ![t].m = [at |-> "Authorizing", owner |-> owner,
                                  pre |-> run[t].m.pre, ext |-> run[t].m.ext]]
  /\ UNCHANGED <<now, clients, store, registered, issued, answers, permits, requests,
                 registrations>>

\* Pending::authorize: the code goes to the client in the redirect.
Authorize(t, code) ==
  LET m == run[t].m
      grant == AuthorizedGrant(m.owner, m.pre, m.ext, now)
  IN
  /\ In(t, "authorization", "Authorizing")
  /\ First(code, {k \in Code : issued[k] = Nil})
  /\ codes' = [codes EXCEPT ![code] = grant]
  /\ issued' = [issued EXCEPT ![code] = grant]
  /\ Reply(t)
  /\ UNCHANGED <<now, clients, access, refresh, registered, consents, answers,
                 permits, requests, registrations>>

----------------------------------------------------------------------------
(* access_token *)

\* Codes cannot be guessed.
AccessTokenCall(t, req) ==
  /\ issued[req.code] # Nil
  /\ Begin(t, "accesstoken", req, AccessTokenNew(req))

AccessTokenAuthenticate(t) ==
  LET m == run[t].m
      in == AuthenticatedAnswer(m, clients[m.client])
  IN
  /\ In(t, "accesstoken", "Authenticate")
  /\ Feed(t, in, AccessTokenAdvance(m, in, now).m)
  /\ UNCHANGED <<now, clients, store, history>>

\* Mutant: the code stays in the map.
AccessTokenRecoverKeeps(t) ==
  LET m == run[t].m
  IN
  /\ In(t, "accesstoken", "Recover")
  /\ Continue(t, AccessTokenAdvance(m, [kind |-> "Recovered", grant |-> codes[m.code]], now).m)
  /\ UNCHANGED <<now, clients, store, history>>

\* extract takes the code out of the map before anything about it is checked.
AccessTokenRecover(t) ==
  LET m == run[t].m
  IN
  /\ In(t, "accesstoken", "Recover")
  /\ codes' = [codes EXCEPT ![m.code] = Nil]
  /\ Continue(t, AccessTokenAdvance(m, [kind |-> "Recovered", grant |-> codes[m.code]], now).m)
  /\ UNCHANGED <<now, clients, access, refresh, history>>

\* extract fails after the code has been taken out.
ExtractBreaks(t) ==
  /\ In(t, "accesstoken", "Recover")
  /\ codes' = [codes EXCEPT ![run[t].m.code] = Nil]
  /\ Reply(t)
  /\ UNCHANGED <<now, clients, access, refresh, history>>

AccessTokenExtend(t) ==
  LET m == run[t].m
      in == VerifyAnswer(m, run[t].req)
  IN
  /\ In(t, "accesstoken", "Extend")
  /\ Feed(t, in, AccessTokenAdvance(m, in, now).m)
  /\ UNCHANGED <<now, clients, store, history>>

\* Neither stored nor handed out before.
Unused == {a \in Token : /\ access[a] = Nil /\ refresh[a] = Nil
                         /\ \A x \in answers : a \notin {x.token, x.refresh}}

NewToken(a) == First(a, Unused)
NewPair(a, b) == NewToken(a) /\ First(b, Unused \ {a})

Answer(t, via, client, grant, token, refr) ==
  answers' = answers \cup {[via |-> via, req |-> run[t].req, client |-> client,
                            grant |-> grant, token |-> token, refresh |-> refr]}

AccessTokenIssue(t, a, b) ==
  LET grant == run[t].m.grant
  IN
  /\ In(t, "accesstoken", "Issue")
  /\ NewPair(a, b)
  /\ access' = [access EXCEPT ![a] = grant]
  /\ refresh' = [refresh EXCEPT ![b] = [access |-> a, grant |-> grant]]
  /\ Answer(t, "code", AccessTokenNew(run[t].req).client, grant, a, b)
  /\ Reply(t)
  /\ UNCHANGED <<now, clients, codes, registered, consents, issued, permits, requests,
                 registrations>>

----------------------------------------------------------------------------
(* refresh *)

\* Refresh tokens cannot be guessed: a client has one only from an answer.
RefreshCall(t, req) ==
  /\ \E x \in answers : x.refresh = req.token
  /\ Begin(t, "refresh", req, RefreshNew(req))

RefreshAuthenticate(t) ==
  LET m == run[t].m
      in == RefreshAuthenticatedAnswer(m, run[t].req, clients[RefreshOutput(m).client])
  IN
  /\ In(t, "refresh", "Authenticating") \/ In(t, "refresh", "CoAuthenticating")
  /\ Feed(t, in, RefreshAdvance(m, in, now).m)
  /\ UNCHANGED <<now, clients, store, history>>

\* recover_refresh only reads: the token stays usable.
RefreshRecover(t) ==
  LET m == run[t].m
      in == RefreshRecoveredAnswer(run[t].req, refresh[m.token])
  IN
  /\ In(t, "refresh", "Recovering")
  /\ Feed(t, in, RefreshAdvance(m, in, now).m)
  /\ UNCHANGED <<now, clients, store, history>>

\* Mutant: the old access token stays.
RefreshIssueBeside(t, a) ==
  LET b == run[t].m.token
      grant == run[t].m.grant
  IN
  /\ In(t, "refresh", "Issuing")
  /\ refresh[b] # Nil
  /\ NewToken(a)
  /\ access' = [access EXCEPT ![a] = grant]
  /\ refresh' = [refresh EXCEPT ![b] = [access |-> a, grant |-> grant]]
  /\ Answer(t, "refresh", grant.client, grant, a, Nil)
  /\ Reply(t)
  /\ UNCHANGED <<now, clients, codes, registered, consents, issued, permits, requests,
                 registrations>>

\* Issuer::refresh: the old access token dies, the refresh token stays and is
\* not sent again.
RefreshIssue(t, a) ==
  LET b == run[t].m.token
      grant == run[t].m.grant
  IN
  /\ In(t, "refresh", "Issuing")
  /\ refresh[b] # Nil
  /\ NewToken(a)
  /\ access' = [access EXCEPT ![refresh[b].access] = Nil, ![a] = grant]
  /\ refresh' = [refresh EXCEPT ![b] = [access |-> a, grant |-> grant]]
  /\ Answer(t, "refresh", grant.client, grant, a, Nil)
  /\ Reply(t)
  /\ UNCHANGED <<now, clients, codes, registered, consents, issued, permits, requests,
                 registrations>>

\* Issuer::refresh fails on the way: the entry may be gone, and with it the
\* access token.
RefreshBreaks(t) ==
  LET b == run[t].m.token
  IN
  /\ In(t, "refresh", "Issuing")
  /\ refresh[b] # Nil
  /\ refresh' = [refresh EXCEPT ![b] = Nil]
  /\ access' \in {access, [access EXCEPT ![refresh[b].access] = Nil]}
  /\ Reply(t)
  /\ UNCHANGED <<now, clients, codes, history>>

----------------------------------------------------------------------------
(* authorization_token: the implicit grant, without an owner's consent *)

ImplicitNew(req) ==
  IF req.client = Nil \/ req.uri = Bad THEN Err("InvalidRequest")
  ELSE [at |-> "Binding", client |-> req.client, uri |-> req.uri]

ImplicitCall(t, req) == Begin(t, "implicit", req, ImplicitNew(req))

ImplicitBind(t) ==
  LET m == run[t].m
      uri == BoundRedirect(clients[m.client], m.uri)
  IN
  /\ In(t, "implicit", "Binding")
  /\ IF uri = Nil \/ run[t].req.scope = Bad THEN Reply(t)
     ELSE Continue(t, [at |-> "Negotiating", client |-> m.client, uri |-> uri])
  /\ UNCHANGED <<now, clients, store, history>>

ImplicitNegotiate(t) ==
  LET m == run[t].m
      pre == Negotiate(m.client, clients[m.client], m.uri)
  IN
  /\ In(t, "implicit", "Negotiating")
  /\ Continue(t, [at |-> "Issue",
                  grant |-> [owner |-> run[t].req.user, client |-> pre.client,
                             uri |-> pre.uri, scope |-> pre.scope,
                             until |-> now + ImplicitLife, ext |-> Nil]])
  /\ UNCHANGED <<now, clients, store, history>>

\* The token goes to the redirect uri as requested, so without one it is
\* issued and then lost to a server error.  Its refresh token is not sent.
ImplicitIssue(t, a, b) ==
  LET grant == run[t].m.grant
  IN
  /\ In(t, "implicit", "Issue")
  /\ NewPair(a, b)
  /\ access' = [access EXCEPT ![a] = grant]
  /\ refresh' = [refresh EXCEPT ![b] = [access |-> a, grant |-> grant]]
  /\ IF run[t].req.uri = Nil THEN UNCHANGED answers
     ELSE Answer(t, "implicit", grant.client, grant, a, Nil)
  /\ Reply(t)
  /\ UNCHANGED <<now, clients, codes, registered, consents, issued, permits, requests,
                 registrations>>

----------------------------------------------------------------------------
(* protect *)

\* Access tokens cannot be guessed either.
ResourceCall(t, req) ==
  /\ \E x \in answers : x.token = req.token
  /\ Begin(t, "resource", req, ResourceAsked(req, ResourceScopes))

ResourceRecover(t) ==
  LET m == run[t].m
      grant == access[m.token]
      out == ResourceAdvance(m, [kind |-> "Recovered", grant |-> grant], now).out
  IN
  /\ In(t, "resource", "Recovering")
  /\ permits' = IF out.kind = "Ok"
                THEN permits \cup {[token |-> m.token, grant |-> out.grant,
                                    expired |-> out.grant.until < now]}
                ELSE permits
  /\ Reply(t)
  /\ UNCHANGED <<now, clients, store, registered, consents, issued, answers, requests,
                 registrations>>

----------------------------------------------------------------------------
(* ClientMap::register_client replaces the record, whatever is in progress. *)

RegisterClient(c, record) ==
  /\ registrations < MaxRegistrations
  /\ registrations' = registrations + 1
  /\ clients' = [clients EXCEPT ![c] = record]
  /\ registered' = registered \cup {<<c, record>>}
  /\ UNCHANGED <<now, store, run, consents, issued, answers, permits, requests>>

Tick ==
  /\ now < MaxTime
  /\ now' = now + 1
  /\ UNCHANGED <<clients, store, run, history>>

AuthorizationStep(t) ==
  \/ \E req \in AuthorizationRequests : AuthorizationCall(t, req)
  \/ AuthorizationBind(t)
  \/ AuthorizationExtend(t)
  \/ AuthorizationNegotiate(t)
  \/ \E owner \in Owner : Solicit(t, owner)
  \/ \E code \in Code : Authorize(t, code)

AccessTokenStep(t) ==
  \/ \E req \in AccessTokenRequests : AccessTokenCall(t, req)
  \/ AccessTokenAuthenticate(t)
  \/ AccessTokenRecover(t)
  \/ AccessTokenExtend(t)
  \/ \E a, b \in Token : AccessTokenIssue(t, a, b)
  \/ ExtractBreaks(t)

RefreshStep(t) ==
  \/ \E req \in RefreshRequests : RefreshCall(t, req)
  \/ RefreshAuthenticate(t)
  \/ RefreshRecover(t)
  \/ \E a \in Token : RefreshIssue(t, a)
  \/ RefreshBreaks(t)

ImplicitStep(t) ==
  \/ \E req \in ImplicitRequests : ImplicitCall(t, req)
  \/ ImplicitBind(t)
  \/ ImplicitNegotiate(t)
  \/ \E a, b \in Token : ImplicitIssue(t, a, b)

ResourceStep(t) ==
  \/ \E req \in ResourceRequests : ResourceCall(t, req)
  \/ ResourceRecover(t)

Next ==
  \/ \E t \in Thread : \/ AuthorizationStep(t)
                       \/ AccessTokenStep(t)
                       \/ RefreshStep(t)
                       \/ ImplicitStep(t)
                       \/ ResourceStep(t)
                       \/ Fail(t)
  \/ \E r \in Registrations : RegisterClient(r[1], r[2])
  \/ Tick

Spec == Init /\ [][Next]_vars

----------------------------------------------------------------------------
(* Properties *)

\* Every bearer token of the code and the refresh flow rests on a consent: an
\* owner agreed to this client and redirect uri and to at least this scope,
\* over however many refreshes and re-registrations.
Consented ==
  \A x \in answers :
    x.via # "implicit" =>
      \E y \in consents :
        /\ <<y.owner, y.pre.client, y.pre.uri>> = <<x.grant.owner, x.grant.client, x.grant.uri>>
        /\ x.grant.scope \subseteq y.pre.scope

\* "a code should not be usable twice": of all the requests that present a
\* code, at once or one after the other, one gets a bearer token.
OneAnswerPerCode ==
  \A x, y \in answers :
    x.via = "code" /\ y.via = "code" /\ x.req.code = y.req.code => x = y

\* The refresh token behind a bearer token of the code and the refresh flow.
RenewedBy(x) == IF x.via = "code" THEN x.refresh ELSE x.req.token

\* Of the access tokens that a client has got with one code, the first one and
\* those of all the refreshes after it, at once or one after the other and
\* failing or not, at most one opens a resource: a refresh replaces a token and
\* never adds one.
OneLiveToken ==
  \A x, y \in answers :
    /\ x.via # "implicit" /\ y.via # "implicit" /\ RenewedBy(x) = RenewedBy(y)
    /\ access[x.token] # Nil /\ access[y.token] # Nil
    => x = y

\* A bearer token goes only to the client its grant names, after that client
\* has proved itself: with a passphrase that was registered for it, or with
\* none if it was registered as public.
ProvenClient ==
  \A x \in answers :
    x.via # "implicit" =>
      LET header == x.req.header
          pass == CASE header # Nil -> header[2]
                    [] header = Nil /\ x.via = "code" /\ x.req.body -> x.req.secret
                    [] OTHER -> Nil
      IN
      /\ header # Nil => x.grant.client = header[1]
      /\ x.via = "code" /\ header = Nil => x.grant.client = x.req.client
      /\ \E r \in registered : r[1] = x.grant.client /\ r[2].pass = pass

\* A code is exchanged only by who knows the verifier of the challenge it was
\* requested with, and only if there was one where PKCE is required.
PkceProven ==
  \A x \in answers :
    x.via = "code" =>
      LET saved == issued[x.req.code].ext
      IN
      /\ Required => saved # Nil
      /\ saved # Nil => /\ x.req.verifier # Nil
                        /\ saved \in {<<"plain", x.req.verifier>>,
                                      <<"S256", B64Sha256(x.req.verifier)>>}

\* Codes and implicit tokens are sent only to a uri that was registered for
\* the client.
RedirectRegistered ==
  /\ \A k \in Code : issued[k] # Nil =>
       \E r \in registered : r[1] = issued[k].client /\ issued[k].uri \in UrisOf(r[2])
  /\ \A x \in answers : x.via = "implicit" =>
       \E r \in registered : r[1] = x.grant.client /\ ToUrl(x.req.uri) \in UrisOf(r[2])

\* A resource is opened only to a token that was sent to a client, under the
\* grant it was sent with, for as long as that grant allows, and unless it came
\* from the implicit flow with an owner's consent behind it.
PermitsAreBacked ==
  \A p \in permits :
    \E x \in answers :
      /\ x.token = p.token /\ x.grant = p.grant
      /\ ~p.expired
      /\ \/ x.via = "implicit"
         \/ \E y \in consents : y.owner = p.grant.owner /\ y.pre.client = p.grant.client
                               /\ p.grant.scope \subseteq y.pre.scope
=============================================================================
