------------------------------ MODULE Endpoints ------------------------------
(***************************************************************************)
(* The flows of endpoint/ (sync) and oxide-auth-async (async): from a web    *)
(* request to the request the executor sees, the calls of the endpoint's     *)
(* primitives, and the calls that build the web response.  The web request   *)
(* is one of an adapter, made from an HTTP message, or any other.            *)
(*                                                                         *)
(* One flow object serves one request after another, and one web request can *)
(* be given to one flow after another.  What the primitives answer is        *)
(* arbitrary (OAuthServer has real ones); each of them may fail.  An         *)
(* endpoint may lack any of its parts, but is consistent: it always has them *)
(* or never.                                                                 *)
(***************************************************************************)
EXTENDS AuthorizationMachine, AccessTokenMachine, RefreshMachine, ResourceMachine,
        Adapters, FiniteSets

CONSTANTS
  Pair,          \* the parameters <<key, value>> a query or body may have
  WebRequests,   \* the web requests of no adapter that are considered
  Messages,      \* the HTTP messages considered
  Grants         \* the grants that authorizer and issuer return

Part == {"registrar", "authorizer", "issuer", "solicitor", "scopes"}

Key == {"client_id", "redirect_uri", "response_type", "scope", "code", "grant_type",
        "client_secret", "refresh_token", "code_verifier", "code_challenge",
        "code_challenge_method"}

\* The Authorization header; "garbled" is neither Basic nor Bearer, or does
\* not decode; "unreadable": authheader() fails; "nontext": see Adapters.
Header == [scheme : {"none", "garbled", "unreadable", "nontext"}]
            \cup [scheme : {"Basic"}, client : Client, pass : Pass]
            \cup [scheme : {"Bearer"}, token : Token]

\* What execute returns; None (Nil) is that it has not returned.
Result == {"Response", "PrimitiveError", "DenySilently", "Web", "Page", "Grant"}

\* A query or body is a sequence of pairs, or Bad: reading fails.
Form == Seq(Pair) \cup {Bad}

ASSUME EndpointsAssumption ==
  /\ Grants \subseteq Grant
  /\ \A pair \in Pair : pair[1] \in Key
  /\ Bad \notin Seq(Pair)
  /\ \A w \in WebRequests :
       /\ w = WebRequest(w.query, w.body, w.header)
       /\ w.header \in Header
       /\ w.query \in Form /\ w.body \in Form
  /\ \A msg \in Messages :
       /\ msg.ctype \in ContentType
       /\ msg.auth \in Seq(Header)
       /\ msg.query \in Form /\ msg.body \in Form
  /\ Nil \notin Result

VARIABLES
  build,   \* "sync" or "async"
  adapter, \* the adapter, or "any"
  parts,   \* the parts the endpoint returns Some for
  flow,    \* the flow prepared, or "none"
  allow,   \* allow_credentials_in_body
  http,    \* the HTTP message, Nil without an adapter
  object,  \* the WebRequest
  web,     \* what the flow found in it
  req,     \* the request of the executor, a WrappedRequest
  m,       \* the state of the executor's machine
  pc,      \* "idle", "run" (the executor), "respond", "dead" (panicked)
  todo,    \* the calls that build the response and are still to be made
  resp,    \* the response
  result,  \* what prepare or execute has returned
  \* History.
  called,  \* the stages of the executor that have called a primitive
  fault,   \* has one of them failed for a reason of its own?
  reads    \* calls of execute that read the body of the message (2: or more)

setup == <<build, adapter, parts>>
request == <<http, object, web, req>>
history == <<called, fault, reads>>
vars == <<setup, flow, allow, request, m, pc, todo, resp, result, history>>

\* Endpoint for Generic: Vacant is a solicitor and scopes, too, but stands for
\* a registrar, authorizer or issuer that is not there.
GenericParts(given) == given \cup {"solicitor", "scopes"}

NoRequest == WebRequest(<<>>, <<>>, NoHeader)

Init ==
  /\ \/ adapter = "any" /\ build \in {"sync", "async"} /\ parts \in SUBSET Part
     \/ /\ adapter \in Adapter /\ build = "sync"
        /\ \E given \in {{"registrar", "authorizer"}, {"registrar", "authorizer", "issuer"}} :
             parts = GenericParts(given)
  /\ flow = "none"
  /\ allow = FALSE
  /\ http = Nil
  /\ object = Nil
  /\ web = NoRequest
  /\ req = Nil
  /\ m = Nil
  /\ pc = "idle"
  /\ todo = <<>>
  /\ resp = Nil
  /\ result = Nil
  /\ called = {}
  /\ fault = FALSE
  /\ reads = 0

----------------------------------------------------------------------------
(* Query parameters *)

At(pairs, key) == {i \in DOMAIN pairs : pairs[i][1] = key}

\* unique_value of a vector of pairs: a second one ends the search.
UniqueInPairs(pairs, key) ==
  IF Cardinality(At(pairs, key)) = 1 THEN pairs[CHOOSE i \in At(pairs, key) : TRUE][2] ELSE Nil

\* Mutant: the entry of a repeated key is removed.
InsertOrRemove(params, pair) ==
  IF pair[1] \in DOMAIN params
  THEN [key \in DOMAIN params \ {pair[1]} |-> params[key]]
  ELSE [key \in DOMAIN params \cup {pair[1]} |->
          IF key = pair[1] THEN pair[2] ELSE params[key]]

\* insert_or_poison: a repeated key keeps its entry, without a value.
InsertOrPoison(params, pair) ==
  [key \in DOMAIN params \cup {pair[1]} |->
     IF key # pair[1] THEN params[key] ELSE IF key \in DOMAIN params THEN Nil ELSE pair[2]]

\* The pairs are inserted one after another.
Normalize(pairs) ==
  LET after[n \in 0 .. Len(pairs)] ==
        IF n = 0 THEN <<>> ELSE InsertOrPoison(after[n - 1], pairs[n])
  IN  after[Len(pairs)]

UniqueInNormalized(params, key) == IF key \in DOMAIN params THEN params[key] ELSE Nil

\* The async flows make an owned copy of the parameters, the sync ones do not;
\* the adapters decode into NormalizedParameter.
UniqueValue(pairs, key) ==
  IF build = "async" \/ adapter # "any" THEN UniqueInNormalized(Normalize(pairs), key)
  ELSE UniqueInPairs(pairs, key)

----------------------------------------------------------------------------
(* WrappedRequest of the four flows *)

WrapAuthorization(w) ==
  LET value(key) == IF w.query = Bad THEN Nil ELSE UniqueValue(w.query, key)
  IN  [valid |-> w.query # Bad, client |-> value("client_id"), uri |-> value("redirect_uri"),
       type |-> value("response_type"), scope |-> value("scope"),
       method |-> value("code_challenge_method"), challenge |-> value("code_challenge")]

\* "If there is a header, it must parse correctly."
Readable(w) == w.header.scheme \in {"none", "Basic"} /\ w.body # Bad

Authorization(w) ==
  IF w.header.scheme = "Basic" THEN <<w.header.client, w.header.pass>> ELSE Nil

\* from_err: the parameters, the header and the permission are dropped.
WrapAccessToken(w) ==
  LET value(key) == IF Readable(w) THEN UniqueValue(w.body, key) ELSE Nil
  IN  [valid |-> Readable(w), header |-> IF Readable(w) THEN Authorization(w) ELSE Nil,
       client |-> value("client_id"), secret |-> value("client_secret"),
       body |-> Readable(w) /\ allow, type |-> value("grant_type"),
       uri |-> value("redirect_uri"), code |-> value("code"),
       verifier |-> value("code_verifier")]

WrapRefresh(w) ==
  LET value(key) == IF Readable(w) THEN UniqueValue(w.body, key) ELSE Nil
  IN  [valid |-> Readable(w), header |-> IF Readable(w) THEN Authorization(w) ELSE Nil,
       type |-> value("grant_type"), token |-> value("refresh_token"),
       scope |-> value("scope")]

WrapResource(w) ==
  [valid |-> w.header.scheme # "unreadable",
   token |-> CASE w.header.scheme \in {"none", "unreadable"} -> Nil
               [] w.header.scheme = "Bearer" -> w.header.token
               [] OTHER -> Bad]

Wrap(w) ==
  CASE flow = "authorization" -> WrapAuthorization(w)
    [] flow = "accesstoken" -> WrapAccessToken(w)
    [] flow = "refresh" -> WrapRefresh(w)
    [] flow = "resource" -> WrapResource(w)

----------------------------------------------------------------------------
(* Replies: the calls that remain when the executor has returned.  The last *)
(* step of one without a response is <<"return", what>>.                     *)

Make(template) == <<"response", template>>

Give(what) == << <<"return", what>> >>

RedirectReply == <<Make("Redirect"), <<"redirect">>>>

BearerReply == <<Make("Ok"), <<"body_json">>>>

AuthorizationErrorReply(error) ==
  CASE error = "Ignore" -> Give("DenySilently")
    [] error = "PrimitiveError" -> Give("PrimitiveError")
    [] error = "Redirect" -> RedirectReply

\* Mutant: a failing primitive is reported as a bad request.
TokenErrorReplyBlaming(error) ==
  CASE error = "Unauthorized" ->
         <<Make("Unauthorized"), <<"unauthorized">>, <<"body_json">>>>
    [] OTHER -> <<Make("BadRequest"), <<"client_error">>, <<"body_json">>>>

\* Mutant: an error is sent in the body of an ordinary response.
TokenErrorReplyOk(error) ==
  CASE error = "Primitive" -> Give("PrimitiveError")
    [] error = "Unauthorized" ->
         <<Make("Unauthorized"), <<"unauthorized">>, <<"body_json">>>>
    [] OTHER -> BearerReply

\* token_error: every error but these two is an Error::Invalid.
TokenErrorReply(error) ==
  CASE error = "Primitive" -> Give("PrimitiveError")
    [] error = "Unauthorized" ->
         <<Make("Unauthorized"), <<"unauthorized">>, <<"body_json">>>>
    [] OTHER -> <<Make("BadRequest"), <<"client_error">>, <<"body_json">>>>

\* ResourceFlow::denied.
DeniedReply(error) ==
  CASE error = "PrimitiveError" -> Give("PrimitiveError")
    [] error = "InvalidRequest" -> <<Make("BadRequest"), <<"unauthorized">>>>
    [] OTHER -> <<Make("Unauthorized"), <<"unauthorized">>>>

\* The sync authorization flow answers with token errors when it does not run
\* its machine.
ErrorReply(error) ==
  CASE flow = "authorization" /\ error \in {"Ignore", "Redirect", "PrimitiveError"} ->
         AuthorizationErrorReply(error)
    [] flow = "resource" -> DeniedReply(error)
    [] OTHER -> TokenErrorReply(error)

\* Mutant: the error is sent in the response that was to redirect.
ImplicitReplyReused ==
  IF req.uri # Nil THEN RedirectReply
  ELSE RedirectReply \o Tail(TokenErrorReply("ServerError"))

\* response_type=token: the url is made of the redirect_uri of the request,
\* the empty string if it has none, and then does not parse.
ImplicitReply ==
  IF req.uri # Nil THEN RedirectReply
  ELSE <<Make("Redirect")>> \o TokenErrorReply("ServerError")

OkReply ==
  CASE m.at = "TokenIssue" -> ImplicitReply
    [] m.at = "Authorizing" -> RedirectReply
    [] flow = "resource" -> Give("Grant")
    [] OTHER -> BearerReply

Return(reply) == pc' = "respond" /\ todo' = reply

----------------------------------------------------------------------------
(* prepare, and the start of execute *)

\* Mutant: an access token flow without an issuer is accepted.
NeedsNoIssuer(f) ==
  CASE f \in {"authorization", "accesstoken"} -> {"registrar", "authorizer"}
    [] f = "refresh" -> {"registrar", "issuer"}
    [] f = "resource" -> {"issuer", "scopes"}

\* What prepare of the four flows checks.
Needs(f) ==
  CASE f = "authorization" -> {"registrar", "authorizer"}
    [] f = "accesstoken" -> {"registrar", "authorizer", "issuer"}
    [] f = "refresh" -> {"registrar", "issuer"}
    [] f = "resource" -> {"issuer", "scopes"}

Prepare(f) ==
  /\ flow = "none"
  /\ IF Needs(f) \subseteq parts
     THEN flow' = f /\ result' = Nil /\ fault' = FALSE
     ELSE result' = "PrimitiveError" /\ fault' = TRUE /\ UNCHANGED flow
  /\ allow' = FALSE
  /\ UNCHANGED <<setup, request, m, pc, todo, resp, called, reads>>

\* What the functions authorization_flow, access_token_flow, refresh_flow and
\* resource_flow of frontends/simple are given.
AdHocParts(f) ==
  GenericParts(CASE f = "authorization" -> {"registrar", "authorizer"}
                 [] f = "accesstoken" -> {"registrar", "authorizer", "issuer"}
                 [] f = "refresh" -> {"registrar", "issuer"}
                 [] f = "resource" -> {"issuer"})

\* They build an endpoint for one flow and declare the error of prepare
\* unreachable!().
AdHoc(f) ==
  /\ flow = "none" /\ adapter = "any" /\ build = "sync" /\ pc = "idle"
  /\ parts' = AdHocParts(f)
  /\ flow' = f
  /\ pc' = IF Needs(f) \subseteq AdHocParts(f) THEN "idle" ELSE "dead"
  /\ result' = Nil /\ fault' = FALSE /\ allow' = FALSE
  /\ UNCHANGED <<build, adapter, request, m, todo, resp, called, reads>>

\* The methods of Generic with these names do the same with the endpoint they
\* are called on; their trait bounds ask for the same parts.
GenericFlow(f) ==
  /\ flow = "none" /\ build = "sync" /\ pc = "idle"
  /\ AdHocParts(f) \subseteq parts
  /\ flow' = f
  /\ pc' = IF Needs(f) \subseteq parts THEN "idle" ELSE "dead"
  /\ result' = Nil /\ fault' = FALSE /\ allow' = FALSE
  /\ UNCHANGED <<setup, request, m, todo, resp, called, reads>>

\* Nothing is left of the last execute.
Reset == web' = NoRequest /\ req' = Nil /\ m' = Nil /\ resp' = Nil /\ result' = Nil
         /\ called' = {} /\ fault' = FALSE

\* The flow goes out of scope; the endpoint can be used for another one.
Drop ==
  /\ flow # "none" /\ pc \in {"idle", "dead"}
  /\ flow' = "none" /\ pc' = "idle" /\ allow' = FALSE
  /\ Reset
  /\ UNCHANGED <<setup, http, object, todo, reads>>

AllowCredentialsInBody(b) ==
  /\ flow = "accesstoken" /\ pc = "idle"
  /\ allow' = b
  /\ UNCHANGED <<setup, flow, request, m, pc, todo, resp, result, history>>

\* A web request that no adapter made.
Receive(w) ==
  /\ adapter = "any" /\ pc = "idle"
  /\ object' = w
  /\ Reset
  /\ UNCHANGED <<setup, flow, allow, http, pc, todo, reads>>

\* An HTTP message.  Only actix and iron look for bytes that are not text, and
\* only actix has a request type for resources.  Construction may fail.
ReceiveHttp(msg, resource) ==
  LET o == NewRequest(adapter, msg, resource) IN
  /\ adapter # "any" /\ pc = "idle"
  /\ resource => adapter = "actix"
  /\ (\E i \in DOMAIN msg.auth : msg.auth[i].scheme = "nontext") => adapter \in {"actix", "iron"}
  /\ http' = msg
  /\ object' = o
  /\ web' = NoRequest /\ req' = Nil /\ m' = Nil /\ resp' = Nil
  /\ result' = IF o = Nil THEN "Web" ELSE Nil
  /\ called' = {} /\ fault' = FALSE /\ reads' = 0
  /\ UNCHANGED <<setup, flow, allow, pc, todo>>

\* rocket: the application hands the body over before it runs a flow, or
\* forgets to.
GiveBody ==
  /\ adapter = "rocket" /\ object # Nil /\ pc = "idle"
  /\ object' = AddBody(object, http)
  /\ Reset
  /\ UNCHANGED <<setup, flow, allow, http, pc, todo, reads>>

\* The sync authorization flow looks at response_type first.
StartByType(r) ==
  IF r.type = Nil THEN Err("UnsupportedResponseType")
  ELSE IF r.type = "code" THEN AuthorizationNew(r)
  ELSE IF r.type # "token" THEN Err("ServerError")
  ELSE IF r.client = Nil \/ r.uri = Bad THEN Err("InvalidRequest")
  ELSE [at |-> "TokenBind", client |-> r.client]

\* Where the executor begins.
Start(r) ==
  CASE flow = "authorization" -> IF build = "sync" THEN StartByType(r) ELSE AuthorizationNew(r)
    [] flow = "accesstoken" -> AccessTokenNew(r)
    [] flow = "refresh" -> RefreshNew(r)
    [] flow = "resource" ->
         ResourceAdvance(ResourceNew, [kind |-> "Request", request |-> r], 0).m

\* urlbody() is called by the token flows when the header can be used.
ReadsBody(w) ==
  flow \in {"accesstoken", "refresh"} /\ w.header.scheme \in {"none", "Basic"}

\* A flow serves one request after another; nothing of the last one is left.
Execute ==
  LET w == Found(object)
      r == Wrap(w)
      n == Start(r)
  IN
  /\ flow # "none" /\ object # Nil /\ pc = "idle"
  /\ web' = w
  /\ req' = r
  /\ m' = n
  /\ IF adapter # "any" /\ ReadsBody(w)
     THEN object' = AfterRead(adapter, object, http) /\ reads' = IF reads = 0 THEN 1 ELSE 2
     ELSE UNCHANGED <<object, reads>>
  /\ IF n.at = "Err" THEN Return(ErrorReply(n.error)) ELSE pc' = "run" /\ UNCHANGED todo
  /\ resp' = Nil /\ result' = Nil /\ called' = {} /\ fault' = FALSE
  /\ UNCHANGED <<setup, flow, allow, http>>

----------------------------------------------------------------------------
(* The executor: one call of a primitive after another *)

\* The part of the endpoint that a stage unwraps; an extension has a fallback.
PartOf(at) ==
  CASE at \in {"Binding", "Negotiating", "TokenBind", "TokenNegotiate", "Authenticate",
               "Authenticating", "CoAuthenticating"} -> "registrar"
    [] at \in {"Authorizing", "Recover"} -> "authorizer"
    [] at \in {"Issue", "Issuing", "Recovering", "TokenIssue"} -> "issuer"
    [] at = "Pending" -> "solicitor"
    [] at = "Internalized" -> "scopes"
    [] OTHER -> Nil

Ready == pc = "run" /\ PartOf(m.at) \in parts \cup {Nil}

\* What the primitive may answer; the solicitor's answers are in Consent.
Answers ==
  CASE m.at = "Binding" ->
         {[kind |-> "Bound", request |-> req, client |-> m.client, uri |-> uri] :
            uri \in RegisteredUrl}
    [] m.at \in {"Extending", "Extend"} -> {[kind |-> "Extended", ext |-> Nil]}
    [] m.at = "Negotiating" ->
         {[kind |-> "Negotiated",
           pre |-> [client |-> m.client, uri |-> ToUrl(m.uri.text), scope |-> scope]] :
            scope \in Scope}
    [] m.at = "Authenticate" -> {[kind |-> "Authenticated"]}
    [] m.at \in {"Authenticating", "CoAuthenticating"} ->
         {[kind |-> "Authenticated", scope |-> req.scope]}
    [] m.at = "Recover" \/ (m.at = "Recovering" /\ flow = "resource") ->
         {[kind |-> "Recovered", grant |-> grant] : grant \in Grants \cup {Nil}}
    [] m.at = "Recovering" /\ flow = "refresh" ->
         {[kind |-> "Recovered", scope |-> req.scope, grant |-> grant] :
            grant \in Grants \cup {Nil}}
    [] m.at = "Internalized" ->
         {[kind |-> "Scopes", scopes |-> scopes] : scopes \in SUBSET Scope}
    [] m.at = "Issue" -> {[kind |-> "Issued", token |-> token] : token \in Token}
    [] m.at = "Issuing" -> {[kind |-> "Refreshed", token |-> token] : token \in Token}
    [] m.at \in {"TokenBind", "TokenNegotiate", "TokenIssue", "Authorizing"} -> {None}
    [] OTHER -> {}

\* The errors that the executor makes of an Err of the primitive; TRUE goes
\* with RegistrarError::PrimitiveError and the Err(()) of authorizer and issuer.
Failures ==
  CASE m.at = "Binding" -> {<<"Ignore", FALSE>>, <<"PrimitiveError", TRUE>>}
    [] m.at = "Extending" -> {<<"Redirect", FALSE>>}
    [] m.at = "Negotiating" -> {<<"Redirect", FALSE>>, <<"PrimitiveError", TRUE>>}
    [] m.at = "Authorizing" \/ (m.at = "Recovering" /\ flow = "resource") ->
         {<<"PrimitiveError", TRUE>>}
    [] m.at \in {"Authenticate", "Authenticating", "CoAuthenticating"} ->
         {<<"Unauthorized", FALSE>>, <<"Primitive", TRUE>>}
    [] m.at \in {"Recover", "Issue", "Issuing"} -> {<<"Primitive", TRUE>>}
    [] m.at = "Recovering" /\ flow = "refresh" -> {<<"Primitive", TRUE>>}
    [] m.at = "Extend" -> {<<"Invalid", FALSE>>}
    [] m.at \in {"TokenBind", "TokenNegotiate"} -> {<<"Invalid", FALSE>>, <<"Invalid", TRUE>>}
    [] m.at = "TokenIssue" -> {<<"Invalid", TRUE>>}
    [] OTHER -> {}

\* authorization_token and Pending::authorize, which no machine describes.
DirectAdvance ==
  CASE m.at = "TokenBind" ->
         LET n == IF req.scope = Bad THEN Err("InvalidScope") ELSE [at |-> "TokenNegotiate"]
         IN  [m |-> n, out |-> IF n.at = "Err" THEN OutErr(n.error) ELSE None]
    [] m.at = "TokenNegotiate" -> [m |-> [at |-> "TokenIssue"], out |-> None]
    [] m.at \in {"TokenIssue", "Authorizing"} -> [m |-> m, out |-> [kind |-> "Ok"]]

Advance(in, now) ==
  CASE in = None -> DirectAdvance
    [] in # None /\ flow = "authorization" -> AuthorizationAdvance(m, in)
    [] in # None /\ flow = "accesstoken" -> AccessTokenAdvance(m, in, now)
    [] in # None /\ flow = "refresh" -> RefreshAdvance(m, in, now)
    [] in # None /\ flow = "resource" -> ResourceAdvance(m, in, now)

Answered(in, now) ==
  LET step == Advance(in, now) IN
  /\ m' = step.m
  /\ CASE step.out.kind = "Err" -> Return(ErrorReply(step.out.error))
       [] step.out.kind = "Ok" /\ step.m.at # "Pending" -> Return(OkReply)
       [] OTHER -> UNCHANGED <<pc, todo>>
  /\ called' = called \cup {m.at}
  /\ UNCHANGED <<setup, flow, allow, request, resp, result, fault, reads>>

Failed(failure) ==
  /\ m' = Err(failure[1])
  /\ Return(ErrorReply(failure[1]))
  /\ called' = called \cup {m.at}
  /\ fault' = failure[2]
  /\ UNCHANGED <<setup, flow, allow, request, resp, result, reads>>

Answer == Ready /\ \E in \in Answers, now \in 0..1 : Answered(in, now)

Fail == Ready /\ \E failure \in Failures : Failed(failure)

\* unwrap() of a part that the endpoint lacks.
Panic ==
  /\ pc = "run" /\ ~Ready
  /\ pc' = "dead"
  /\ UNCHANGED <<setup, flow, allow, request, m, todo, resp, result, history>>

\* AuthorizationPending::finish; "InProgress" hands on the solicitor's response.
Consent(answer) ==
  /\ Ready /\ m.at = "Pending"
  /\ called' = called \cup {"Pending"}
  /\ CASE answer = "Authorized" -> m' = [at |-> "Authorizing"] /\ UNCHANGED <<pc, todo>>
       [] answer = "Denied" -> Return(AuthorizationErrorReply("Redirect")) /\ UNCHANGED m
       [] answer = "InProgress" -> Return(Give("Page")) /\ UNCHANGED m
       [] answer = "Error" -> Return(Give("Web")) /\ UNCHANGED m
  /\ UNCHANGED <<setup, flow, allow, request, resp, result, fault, reads>>

----------------------------------------------------------------------------
(* The response *)

Written(call) ==
  CASE call[1] = "response" -> Response(call[2])
    [] call[1] = "redirect" -> SetStatus(adapter, resp, "Redirect")
    [] call[1] = "client_error" -> SetStatus(adapter, resp, "BadRequest")
    [] call[1] = "unauthorized" -> SetStatus(adapter, resp, "Unauthorized")
    [] call[1] = "body_json" -> resp

Respond ==
  /\ pc = "respond" /\ Head(todo)[1] # "return"
  /\ resp' = Written(Head(todo))
  /\ todo' = Tail(todo)
  /\ IF Len(todo) = 1 THEN pc' = "idle" /\ result' = "Response"
     ELSE UNCHANGED <<pc, result>>
  /\ UNCHANGED <<setup, flow, allow, request, m, history>>

\* A call fails: its error is handed on and the response is lost.
RespondFails ==
  /\ pc = "respond" /\ Head(todo)[1] # "return"
  /\ MayFail(adapter, Head(todo)[1])
  /\ pc' = "idle" /\ result' = "Web" /\ todo' = <<>> /\ resp' = Nil
  /\ UNCHANGED <<setup, flow, allow, request, m, history>>

ReturnOther ==
  /\ pc = "respond" /\ Head(todo)[1] = "return"
  /\ pc' = "idle" /\ result' = Head(todo)[2] /\ todo' = <<>>
  /\ UNCHANGED <<setup, flow, allow, request, m, resp, history>>

Next ==
  \/ \E f \in {"authorization", "accesstoken", "refresh", "resource"} : Prepare(f)
  \/ \E f \in {"authorization", "accesstoken", "refresh", "resource"} : AdHoc(f)
  \/ \E f \in {"authorization", "accesstoken", "refresh", "resource"} : GenericFlow(f)
  \/ Drop
  \/ \E b \in BOOLEAN : AllowCredentialsInBody(b)
  \/ \E w \in WebRequests : Receive(w)
  \/ \E msg \in Messages, resource \in BOOLEAN : ReceiveHttp(msg, resource)
  \/ GiveBody
  \/ Execute
  \/ Answer
  \/ Fail
  \/ Panic
  \/ \E answer \in {"Authorized", "Denied", "InProgress", "Error"} : Consent(answer)
  \/ Respond
  \/ RespondFails
  \/ ReturnOther

Spec == Init /\ [][Next]_vars

----------------------------------------------------------------------------
(* Properties *)

\* Without the pairs whose key is repeated.
Once(pairs) ==
  IF pairs = Bad THEN Bad
  ELSE LET kept[n \in 0 .. Len(pairs)] ==
             IF n = 0 THEN <<>>
             ELSE IF Cardinality(At(pairs, pairs[n][1])) = 1 THEN Append(kept[n - 1], pairs[n])
             ELSE kept[n - 1]
       IN  kept[Len(pairs)]

\* "If there are multiple values, return `None`" (endpoint/query.rs): whatever
\* representation the parameters have, and however often one is repeated, the
\* executor sees what it would see had the client left that one out.
RepeatedIsAbsent ==
  pc = "run" => req = Wrap([web EXCEPT !.query = Once(@), !.body = Once(@)])

\* The header a message stands for: the only one, with rouille the first.
TheHeader(msg) ==
  IF Len(msg.auth) = 1 \/ (adapter = "rouille" /\ msg.auth # <<>>) THEN msg.auth[1] ELSE NoHeader

\* A token request reaches the registrar, the authorizer or the issuer, and so
\* can use up a code, only if its header could be used and its body is a form
\* (rouille also takes one without a content type).  With iron and rouille,
\* whose urlbody() reads the connection, that is the case for one flow only: a
\* second one that is given the same message finds nothing.
OnlyAFreshFormIsServed ==
  flow \in {"accesstoken", "refresh"} /\ called # {} =>
    /\ web.body # Bad /\ web.header.scheme \in {"none", "Basic"}
    /\ adapter # "any" =>
         /\ http.body # Bad
         /\ http.ctype = "form" \/ (adapter = "rouille" /\ http.ctype = "none")
         /\ TheHeader(http).scheme \in {"none", "Basic", "nontext"}
         /\ adapter \in {"iron", "rouille"} => reads = 1

\* prepare catches what would panic in execute: with a consistent endpoint the
\* token flows and the resource flow never unwrap a part that is missing, and
\* the unreachable!() of the functions that prepare for the caller is.
PreparedHasItsParts == flow # "authorization" => pc # "dead"

\* A passphrase that the registrar is asked about came in the header, or in
\* the body of a flow that was told to allow it there.  With two headers in a
\* message, only rouille ever uses one of them.
SecretNeedsPermission ==
  pc = "run" /\ m.at = "Authenticate" /\ m.pass # Nil /\ ~allow =>
    (IF adapter = "any" THEN web.header ELSE TheHeader(http))
      = [scheme |-> "Basic", client |-> m.client, pass |-> m.pass]

\* A response that is sent has a Location exactly if it redirects and a
\* WWW-Authenticate header exactly if it is a 401, with every adapter: no
\* reply is built on top of another one.
CoherentAnswer ==
  result = "Response" =>
    /\ resp.location <=> resp.status = "Redirect"
    /\ resp.challenge <=> resp.status = "Unauthorized"

\* What was returned is an error that the adapter turns into a 500.
Answer500 ==
  /\ result \in {"PrimitiveError", "DenySilently", "Web"}
  /\ ErrorStatus(adapter, result) = "ServerError"

\* A registrar, authorizer or issuer that fails for a reason of its own, or
\* is missing, is the server's fault: the adapters answer 500 and not that
\* the request was bad, and iron and rocket answer 500 for nothing else.
\* (Except in the implicit grant, whose stages report all failures as the
\* client's.)
FailureIsNotTheClients ==
  /\ adapter \in {"actix", "iron", "rocket"} /\ pc = "idle" /\ fault
     /\ called \cap {"TokenBind", "TokenNegotiate", "TokenIssue"} = {}
       => Answer500
  /\ adapter \in {"iron", "rocket"} /\ pc = "idle" /\ Answer500 => fault

\* A token request is answered with 200 exactly if the issuer made a token for
\* it: no error looks like a success and no token is lost behind an error that
\* was reported to the client.
OkIffIssued ==
  result = "Response" /\ flow \in {"accesstoken", "refresh"}
    => (resp.status = "Ok" <=> called \cap {"Issue", "Issuing"} # {})

\* The doc of authorization_flow (frontends/simple/endpoint.rs), which gives
\* the endpoint a registrar, an authorizer and a solicitor: "guaranteed to
\* never fail or panic".
AuthorizationNeverPanics ==
  flow = "authorization" /\ parts = AdHocParts("authorization") => pc # "dead"
=============================================================================
