-------------------------- MODULE OAuthServerProof --------------------------
(***************************************************************************)
(* Theorems about the composed server, for every number of requests at once, *)
(* of clients, owners, codes and tokens, and any registrations.              *)
(***************************************************************************)
EXTENDS OAuthServer, FiniteSetTheorems, TLAPS

\* Parts of the properties, for one grant, client or code.
Agreed(g) ==
  \E y \in consents :
    /\ <<y.owner, y.pre.client, y.pre.uri>> = <<g.owner, g.client, g.uri>>
    /\ g.scope \subseteq y.pre.scope

Proven(c, pass) == \E r \in registered : r[1] = c /\ r[2].pass = pass

Registered(c, url) == \E r \in registered : r[1] = c /\ url \in UrisOf(r[2])

PkceFits(saved, verifier) ==
  /\ Required => saved # Nil
  /\ saved # Nil => /\ verifier # Nil
                    /\ saved \in {<<"plain", verifier>>, <<"S256", B64Sha256(verifier)>>}

\* Who sends an access token request, and with which passphrase.
Sender(req) == IF req.header = Nil THEN req.client ELSE req.header[1]

Shown(req) ==
  IF req.header # Nil THEN req.header[2] ELSE IF req.body THEN req.secret ELSE Nil

----------------------------------------------------------------------------
(* The inductive invariant *)

Entry == [access : Token, grant : Grant]

TypeInv ==
  /\ now \in Nat
  /\ clients \in [Client -> EncodedClient \cup {Nil}]
  /\ codes \in [Code -> Grant \cup {Nil}]
  /\ issued \in [Code -> Grant \cup {Nil}]
  /\ access \in [Token -> Grant \cup {Nil}]
  /\ refresh \in [Token -> Entry \cup {Nil}]
  /\ run = [t \in Thread |-> run[t]]

\* The records in force are remembered as registered.
ClientInv == \A c \in Client : clients[c] # Nil => <<c, clients[c]>> \in registered

\* A code in the map is there with the grant it was issued for, an owner has
\* agreed to that grant, and its redirect uri was registered.
IssuedInv ==
  \A k \in Code :
    /\ codes[k] # Nil => codes[k] = issued[k]
    /\ issued[k] # Nil => Agreed(issued[k]) /\ Registered(issued[k].client, issued[k].uri)

\* Request t has taken code k out of the map.
Holds(t, k) ==
  /\ run[t].flow = "accesstoken" /\ run[t].m.at \in {"Extend", "Issue"}
  /\ run[t].req.code = k

\* A code is in the map, in the hands of one request, or answered.
CodeInv ==
  /\ \A t, u \in Thread, k \in Code : Holds(t, k) /\ Holds(u, k) => t = u
  /\ \A t \in Thread, k \in Code :
       Holds(t, k) => /\ codes[k] = Nil
                      /\ \A x \in answers : x.via = "code" => x.req.code # k
  /\ \A x \in answers : x.via = "code" => /\ x.req.code \in Code
                                          /\ codes[x.req.code] = Nil
                                          /\ issued[x.req.code] # Nil
  /\ OneAnswerPerCode

\* What is stored under the tokens that clients have: the grant a token was
\* sent with, and an agreed one under a refresh token.
Backed(x) ==
  /\ x.token \in Token /\ access[x.token] \in {Nil, x.grant}
  /\ x.refresh \in Token /\ refresh[x.refresh] # Nil => Agreed(refresh[x.refresh].grant)

TokenInv == \A x \in answers : Backed(x)

\* The properties, answer by answer.
Sent(x) ==
  /\ x.req.header # Nil => x.grant.client = x.req.header[1]
  /\ x.via = "code" /\ x.req.header = Nil => x.grant.client = x.req.client
  /\ Proven(x.grant.client,
            IF x.req.header = Nil /\ x.via # "code" THEN Nil ELSE Shown(x.req))

Answered(x) ==
  /\ x.via # "implicit" => Agreed(x.grant) /\ Sent(x)
  /\ x.via = "code" => PkceFits(issued[x.req.code].ext, x.req.verifier)
  /\ x.via = "implicit" => Registered(x.grant.client, ToUrl(x.req.uri))

AnswerInv == \A x \in answers : Answered(x)

PermitInv ==
  \A p \in permits : ~p.expired /\ \E x \in answers : x.token = p.token /\ x.grant = p.grant

\* What is known about a request, by the state of its machine.
AuthorizationRun(t) ==
  LET req == run[t].req
      m == run[t].m
  IN
  /\ req \in AuthorizationRequest
  /\ m.at \in {"Binding", "Extending", "Negotiating", "Pending", "Authorizing"}
  /\ m.at = "Binding" => m.client \in Client
  /\ m.at \in {"Extending", "Negotiating"} =>
       /\ m.client \in Client /\ clients[m.client] \in EncodedClient
       /\ m.uri \in RegisteredUrl /\ Registered(m.client, ToUrl(m.uri.text))
  /\ m.at \in {"Negotiating", "Pending", "Authorizing"} => m.ext \in Encoded \cup {Nil}
  /\ m.at \in {"Pending", "Authorizing"} =>
       /\ m.pre \in [client : Client, uri : Url, scope : Scope]
       /\ Registered(m.pre.client, m.pre.uri)
  /\ m.at = "Authorizing" =>
       m.owner \in Owner /\ [owner |-> m.owner, pre |-> m.pre] \in consents

AccessTokenRun(t) ==
  LET req == run[t].req
      m == run[t].m
  IN
  /\ req \in AccessTokenRequest /\ req.code \in Code /\ issued[req.code] # Nil
  /\ m.at \in {"Authenticate", "Recover", "Extend", "Issue"}
  /\ m.at \in {"Authenticate", "Recover"} => m.client = Sender(req) /\ m.code = req.code
  /\ m.at = "Authenticate" => m.pass = Shown(req) /\ m.client \in Client
  /\ m.at \in {"Recover", "Extend", "Issue"} => Proven(Sender(req), Shown(req))
  /\ m.at \in {"Extend", "Issue"} =>
       m.grant \in Grant /\ m.grant.client = Sender(req) /\ Agreed(m.grant)
  /\ m.at = "Extend" => m.ext = issued[req.code].ext
  /\ m.at = "Issue" => PkceFits(issued[req.code].ext, req.verifier)

RefreshRun(t) ==
  LET req == run[t].req
      m == run[t].m
  IN
  /\ req \in RefreshRequest /\ req.token \in Token /\ m.token = req.token
  /\ \E x \in answers : x.refresh = req.token
  /\ m.at \in {"Authenticating", "Recovering", "CoAuthenticating", "Issuing"}
  /\ m.at = "Authenticating" =>
       req.header # Nil /\ m.client = req.header[1] /\ m.pass = req.header[2]
  /\ m.at = "Recovering" =>
       IF req.header = Nil THEN m.authenticated = Nil
       ELSE m.authenticated = req.header[1] /\ Proven(req.header[1], req.header[2])
  /\ m.at \in {"CoAuthenticating", "Issuing"} => m.grant \in Grant /\ Agreed(m.grant)
  /\ m.at = "CoAuthenticating" => req.header = Nil
  /\ m.at = "Issuing" =>
       IF req.header = Nil THEN Proven(m.grant.client, Nil)
       ELSE m.grant.client = req.header[1] /\ Proven(req.header[1], req.header[2])

ImplicitRun(t) ==
  LET req == run[t].req
      m == run[t].m
  IN
  /\ req \in ImplicitRequest
  /\ m.at \in {"Binding", "Negotiating", "Issue"}
  /\ m.at = "Binding" => m.client \in Client /\ m.uri = req.uri
  /\ m.at = "Negotiating" =>
       /\ m.client \in Client /\ clients[m.client] \in EncodedClient
       /\ m.uri \in RegisteredUrl
       /\ req.uri # Nil => Registered(m.client, ToUrl(req.uri))
  /\ m.at = "Issue" =>
       /\ m.grant \in Grant
       /\ req.uri # Nil => Registered(m.grant.client, ToUrl(req.uri))

ResourceRun(t) ==
  /\ run[t].m.at = "Recovering" /\ run[t].m.token \in Token
  /\ \E x \in answers : x.token = run[t].m.token

RunInv(t) ==
  /\ run[t] = [flow |-> run[t].flow, req |-> run[t].req, m |-> run[t].m]
  /\ run[t].flow \in {"idle", "authorization", "accesstoken", "refresh", "implicit", "resource"}
  /\ run[t].flow = "authorization" => AuthorizationRun(t)
  /\ run[t].flow = "accesstoken" => AccessTokenRun(t)
  /\ run[t].flow = "refresh" => RefreshRun(t)
  /\ run[t].flow = "implicit" => ImplicitRun(t)
  /\ run[t].flow = "resource" => ResourceRun(t)

Inv ==
  /\ TypeInv /\ ClientInv /\ IssuedInv /\ CodeInv /\ TokenInv /\ AnswerInv /\ PermitInv
  /\ \A t \in Thread : RunInv(t)

----------------------------------------------------------------------------
(* Operators *)

\* partial_cmp of scope.rs counts the common tokens.  What it computes is the
\* order of inclusion: Equal exactly for equal scopes, as Rust demands of a type
\* with PartialEq, and the two strict answers each other's mirror image.
THEOREM ScopeOrderIsInclusion ==
  ASSUME NEW a \in Scope, NEW b \in Scope
  PROVE  /\ PartialCmp(a, b) = "Equal" <=> a = b
         /\ PartialCmp(a, b) = "Less" <=> a \subseteq b /\ a # b
         /\ PartialCmp(a, b) = "Greater" <=> b \subseteq a /\ a # b
         /\ PartialCmp(a, b) = "None" <=> ~(a \subseteq b) /\ ~(b \subseteq a)
<1>1. IsFiniteSet(a) /\ IsFiniteSet(b)
  BY ScopesAssumption, FS_Subset DEF Scope
<1>2. /\ Cardinality(a \cap b) = Cardinality(a) <=> a \cap b = a
      /\ Cardinality(a \cap b) = Cardinality(b) <=> a \cap b = b
  BY <1>1, FS_Subset
<1>3. /\ a \cap b = a <=> a \subseteq b
      /\ a \cap b = b <=> b \subseteq a
      /\ a = b <=> a \subseteq b /\ b \subseteq a
  OBVIOUS
<1> QED BY <1>2, <1>3 DEF PartialCmp

\* The comparison that decides about the scope of a refreshed token.
LEMMA PriviledgedToIsInclusion ==
  ASSUME NEW self \in Scope, NEW rhs \in Scope
  PROVE  PriviledgedTo(self, rhs) <=> rhs \subseteq self
BY ScopeOrderIsInclusion DEF PriviledgedTo

\* Two elements make a set of two, and one can be chosen from one only.
LEMMA PairHasTwo ==
  ASSUME NEW a, NEW b, a # b
  PROVE  Cardinality({a} \cup {b}) = 2
<1>1. IsFiniteSet({a}) /\ Cardinality({a}) = 1
  BY FS_Singleton
<1>2. Cardinality({a} \cup {b}) = Cardinality({a}) + 1
  BY <1>1, FS_AddElement
<1> QED BY <1>1, <1>2

LEMMA ChooseOfOne ==
  ASSUME NEW S, NEW a, S = {a}
  PROVE  (CHOOSE x \in S : TRUE) = a
OBVIOUS

\* A request with exactly one set of credentials shows one client and one
\* passphrase.
LEMMA OneCredential ==
  ASSUME NEW r \in AccessTokenRequest, Cardinality(Credentials(r)) = 1
  PROVE  LET cred == CHOOSE cred \in Credentials(r) : TRUE
         IN  cred[2] = Sender(r) /\ cred[3] = Shown(r) /\ Sender(r) \in Client
<1> DEFINE h == <<"header", r.header[1], r.header[2]>>
           b == <<"body", r.client, IF r.body THEN r.secret ELSE Nil>>
<1>1. h # b
  OBVIOUS
<1>2. /\ r.header # Nil => r.header[1] \in Client
      /\ r.client # Nil => r.client \in Client
  BY DEF AccessTokenRequest
<1>3. CASE r.header = Nil /\ r.client = Nil
  <2>1. Credentials(r) = {}
    BY <1>3 DEF Credentials
  <2> QED BY <2>1, FS_EmptySet
<1>4. CASE r.header # Nil /\ r.client # Nil
  <2>1. Credentials(r) = {h} \cup {b}
    BY <1>4 DEF Credentials
  <2>2. Cardinality({h} \cup {b}) = 2
    BY <1>1, PairHasTwo
  <2> QED BY <2>1, <2>2
<1>5. CASE r.header = Nil /\ r.client # Nil
  <2>1. Credentials(r) = {b}
    BY <1>5 DEF Credentials
  <2>2. (CHOOSE cred \in Credentials(r) : TRUE) = b
    BY <2>1, ChooseOfOne
  <2>3. b[2] = Sender(r) /\ b[3] = Shown(r)
    BY <1>5 DEF Sender, Shown
  <2>4. Sender(r) \in Client
    BY <1>2, <1>5 DEF Sender
  <2> HIDE DEF b
  <2> QED BY <2>2, <2>3, <2>4
<1>6. CASE r.header # Nil /\ r.client = Nil
  <2>1. Credentials(r) = {h}
    BY <1>6 DEF Credentials
  <2>2. (CHOOSE cred \in Credentials(r) : TRUE) = h
    BY <2>1, ChooseOfOne
  <2>3. h[2] = Sender(r) /\ h[3] = Shown(r)
    BY <1>6 DEF Sender, Shown
  <2>4. Sender(r) \in Client
    BY <1>2, <1>6 DEF Sender
  <2> HIDE DEF h
  <2> QED BY <2>2, <2>3, <2>4
<1> QED BY <1>3, <1>4, <1>5, <1>6

\* AccessToken::new.
LEMMA AccessTokenStarts ==
  ASSUME NEW r \in AccessTokenRequest, AccessTokenNew(r).at # "Err"
  PROVE  LET n == AccessTokenNew(r)
         IN  /\ n.at = "Authenticate" /\ n.client = Sender(r) /\ n.pass = Shown(r)
             /\ n.code = r.code /\ r.code \in Code /\ Sender(r) \in Client
<1> DEFINE cred == CHOOSE cred \in Credentials(r) : TRUE
<1>1. Cardinality(Credentials(r)) = 1 /\ r.code # Nil
  BY DEF AccessTokenNew, Err
<1>2. AccessTokenNew(r) = [at |-> "Authenticate", client |-> cred[2], pass |-> cred[3],
                           code |-> r.code, uri |-> ToUrl(r.uri)]
  BY DEF AccessTokenNew, Err
<1>3. cred[2] = Sender(r) /\ cred[3] = Shown(r) /\ Sender(r) \in Client
  BY <1>1, OneCredential
<1>4. r.code \in Code
  BY <1>1 DEF AccessTokenRequest
<1> HIDE DEF cred
<1> QED BY <1>2, <1>3, <1>4

\* bound_redirect answers with a registered uri that is the requested one, if
\* one was requested.
LEMMA BoundIsRegistered ==
  ASSUME Inv, NEW c \in Client, NEW text, BoundRedirect(clients[c], text) # Nil
  PROVE  LET u == BoundRedirect(clients[c], text)
         IN  /\ clients[c] \in EncodedClient /\ u \in RegisteredUrl
             /\ Registered(c, ToUrl(u.text))
             /\ text # Nil => ToUrl(u.text) = ToUrl(text)
<1> DEFINE u == BoundRedirect(clients[c], text)
           client == clients[c]
<1>1. client # Nil /\ client \in EncodedClient /\ <<c, client>> \in registered
  BY DEF BoundRedirect, Inv, TypeInv, ClientInv
<1>2. /\ u \in client.more \cup {client.uri}
      /\ text # Nil => Matches(u, text)
  BY <1>1 DEF BoundRedirect
<1>3. u \in RegisteredUrl
  BY <1>1, <1>2 DEF EncodedClient
<1>4. ToUrl(u.text) \in UrisOf(client)
  BY <1>2 DEF UrisOf
<1>5. text # Nil => ToUrl(u.text) = ToUrl(text)
  BY <1>2 DEF Matches
<1>6. Registered(c, ToUrl(u.text))
  BY <1>1, <1>4 DEF Registered
<1> QED BY <1>1, <1>3, <1>5, <1>6

\* negotiate.
LEMMA NegotiatedTyped ==
  ASSUME NEW c \in Client, NEW client \in EncodedClient, NEW u \in RegisteredUrl
  PROVE  /\ Negotiate(c, client, u) \in [client : Client, uri : Url, scope : Scope]
         /\ Negotiate(c, client, u).client = c
         /\ Negotiate(c, client, u).uri = ToUrl(u.text)
BY DEF Negotiate, EncodedClient, RegisteredUrl, Url

\* challenge and verify of pkce.rs.
LEMMA ChallengeTyped ==
  ASSUME NEW method \in MethodParam, NEW challenge \in Text \cup {Nil},
         Challenge(method, challenge) # Bad
  PROVE  Challenge(method, challenge) \in Encoded \cup {Nil}
BY DEF Challenge, Encoded

LEMMA VerifiedFits ==
  ASSUME NEW saved \in Encoded \cup {Nil}, NEW verifier, Verify(saved, verifier)
  PROVE  PkceFits(saved, verifier)
<1>1. CASE saved = Nil
  BY <1>1 DEF Verify, PkceFits
<1>2. CASE saved # Nil
  <2>1. saved \in Encoded /\ saved = <<saved[1], saved[2]>> /\ saved[1] \in {"plain", "S256"}
    BY <1>2 DEF Encoded
  <2>2. /\ verifier # Nil
        /\ saved[2] = IF saved[1] = "plain" THEN verifier ELSE B64Sha256(verifier)
    BY <1>2 DEF Verify
  <2> QED BY <1>2, <2>1, <2>2 DEF PkceFits
<1> QED BY <1>1, <1>2

\* What a client sends as code_challenge for its verifier v.
ChallengeFor(method, v) == IF method = "S256" THEN B64Sha256(v) ELSE v

\* PKCE closes: if the challenge of verifier v was accepted and saved, the
\* access token request passes with v and with no other verifier, and not
\* without one.
THEOREM OnlyTheVerifierPasses ==
  ASSUME NEW method \in MethodParam, NEW v \in Verifier, NEW w \in Verifier,
         NEW saved, saved = Challenge(method, ChallengeFor(method, v)), saved # Bad
  PROVE  /\ Verify(saved, w) <=> w = v
         /\ ~Verify(saved, Nil)
<1>1. ChallengeFor(method, v) \in Text
  BY PkceAssumption DEF ChallengeFor
<1>2. ChallengeFor(method, v) # Nil
  BY <1>1, PkceAssumption
<1>3. saved \in {<<"S256", B64Sha256(v)>>, <<"plain", v>>}
  BY <1>2, PkceAssumption DEF Challenge, ChallengeFor, MethodParam
<1>4. saved # Nil
  BY <1>3, PkceAssumption DEF Encoded
<1>5. w # Nil
  BY PkceAssumption
<1>6. CASE saved = <<"S256", B64Sha256(v)>>
  <2>1. saved[1] = "S256" /\ saved[2] = B64Sha256(v)
    BY <1>6
  <2> QED BY <1>4, <1>5, <2>1, PkceAssumption DEF Verify
<1>7. CASE saved = <<"plain", v>>
  <2>1. saved[1] = "plain" /\ saved[2] = v
    BY <1>7
  <2> QED BY <1>4, <1>5, <2>1 DEF Verify
<1> QED BY <1>3, <1>6, <1>7

----------------------------------------------------------------------------
(* Steps *)

\* What no step takes back.
Grows ==
  /\ registered \subseteq registered' /\ consents \subseteq consents'
  /\ answers \subseteq answers'
  /\ \A k \in Code : issued[k] # Nil => issued'[k] = issued[k]
  /\ \A c \in Client : clients[c] \in EncodedClient => clients'[c] \in EncodedClient

\* Only request t moves.
Moves(t) == run' = [u \in Thread |-> IF u = t THEN run'[t] ELSE run[u]]

\* What is known about a request that does not move stays true.
LEMMA Bystander ==
  ASSUME Inv, Grows, NEW t \in Thread, run'[t] = run[t]
  PROVE  RunInv(t)'
<1>1. RunInv(t)
  BY DEF Inv
<1>2. run[t].flow = "authorization" => AuthorizationRun(t)'
  BY <1>1 DEF RunInv, AuthorizationRun, Registered, Grows
<1>3. run[t].flow = "accesstoken" => AccessTokenRun(t)'
  BY <1>1 DEF RunInv, AccessTokenRun, Agreed, Proven, Grows
<1>4. run[t].flow = "refresh" => RefreshRun(t)'
  BY <1>1 DEF RunInv, RefreshRun, Agreed, Proven, Grows
<1>5. run[t].flow = "implicit" => ImplicitRun(t)'
  BY <1>1 DEF RunInv, ImplicitRun, Registered, Grows
<1>6. run[t].flow = "resource" => ResourceRun(t)'
  BY <1>1 DEF RunInv, ResourceRun, Grows
<1> QED BY <1>1, <1>2, <1>3, <1>4, <1>5, <1>6 DEF RunInv

\* A step of one request keeps what is known about all.
LEMMA OneMoves ==
  ASSUME Inv, Grows, NEW t \in Thread, Moves(t), RunInv(t)'
  PROVE  /\ \A u \in Thread : RunInv(u)'
         /\ run' = [u \in Thread |-> run'[u]]
<1>1. \A u \in Thread : u # t => run'[u] = run[u]
  BY DEF Moves
<1>2. run' = [u \in Thread |-> run'[u]]
  BY DEF Moves
<1> QED BY <1>1, <1>2, Bystander

\* The record of a request after a step.
LEMMA Moved ==
  ASSUME Inv, NEW t \in Thread, NEW v, run' = [run EXCEPT ![t] = v]
  PROVE  Moves(t) /\ run'[t] = v
BY DEF Inv, TypeInv, Moves

\* The executor returns: nothing is known about the request any more.
LEMMA Replied ==
  ASSUME Inv, NEW t \in Thread, Reply(t)
  PROVE  Moves(t) /\ run'[t] = Idle /\ RunInv(t)' /\ \A k : ~Holds(t, k)'
<1>1. Moves(t) /\ run'[t] = Idle
  BY Moved DEF Reply
<1> QED BY <1>1 DEF Idle, RunInv, Holds

\* The executor goes on with machine n, or returns.
LEMMA Continued ==
  ASSUME Inv, NEW t \in Thread, NEW n, Continue(t, n)
  PROVE  \/ Reply(t)
         \/ /\ Moves(t) /\ n.at # "Err"
            /\ run'[t] = [flow |-> run[t].flow, req |-> run[t].req, m |-> n]
<1>1. CASE n.at = "Err"
  BY <1>1 DEF Continue
<1>2. CASE n.at # "Err"
  <2>1. run[t] = [flow |-> run[t].flow, req |-> run[t].req, m |-> run[t].m]
    BY DEF Inv, RunInv
  <2>2. run' = [run EXCEPT ![t] = [run[t] EXCEPT !.m = n]]
    BY <1>2 DEF Continue
  <2>3. [run[t] EXCEPT !.m = n] = [flow |-> run[t].flow, req |-> run[t].req, m |-> n]
    BY <2>1
  <2> QED BY <1>2, <2>2, <2>3, Moved
<1> QED BY <1>1, <1>2

LEMMA Fed ==
  ASSUME Inv, NEW t \in Thread, NEW in, NEW n, Feed(t, in, n)
  PROVE  \/ Reply(t)
         \/ /\ Moves(t) /\ n.at # "Err" /\ in # Nil
            /\ run'[t] = [flow |-> run[t].flow, req |-> run[t].req, m |-> n]
BY Continued DEF Feed

\* The stores lose entries at most.
Removes ==
  /\ codes' = [k \in Code |-> codes'[k]] /\ \A k \in Code : codes'[k] \in {codes[k], Nil}
  /\ access' = [a \in Token |-> access'[a]] /\ \A a \in Token : access'[a] \in {access[a], Nil}
  /\ refresh' = [b \in Token |-> refresh'[b]] /\ \A b \in Token : refresh'[b] \in {refresh[b], Nil}

\* What was said about an answer stays true.
LEMMA OldAnswers ==
  ASSUME Inv, Grows, NEW x \in answers
  PROVE  Answered(x)'
<1>1. Answered(x)
  BY DEF Inv, AnswerInv
<1>2. x.via = "code" => issued'[x.req.code] = issued[x.req.code]
  BY DEF Inv, CodeInv, Grows
<1>3. Agreed(x.grant) => Agreed(x.grant)'
  BY DEF Agreed, Grows
<1>4. Sent(x) => Sent(x)'
  BY DEF Sent, Proven, Grows
<1>5. Registered(x.grant.client, ToUrl(x.req.uri)) => Registered(x.grant.client, ToUrl(x.req.uri))'
  BY DEF Registered, Grows
<1> QED BY <1>1, <1>2, <1>3, <1>4, <1>5 DEF Answered

LEMMA OldTokens ==
  ASSUME Inv, Grows, NEW x \in answers, access'[x.token] \in {access[x.token], Nil},
         x.refresh \in Token /\ refresh'[x.refresh] # Nil =>
           \/ refresh'[x.refresh] = refresh[x.refresh]
           \/ \E g : Agreed(g) /\ refresh'[x.refresh].grant = g
  PROVE  Backed(x)'
<1>1. Backed(x)
  BY DEF Inv, TokenInv
<1> QED BY <1>1 DEF Backed, Agreed, Grows

LEMMA OldPermits ==
  ASSUME Inv, Grows, UNCHANGED permits
  PROVE  PermitInv'
BY DEF Inv, PermitInv, Grows

LEMMA OldIssued ==
  ASSUME Inv, Grows, NEW k \in Code, issued[k] # Nil
  PROVE  Agreed(issued[k])' /\ Registered(issued[k].client, issued[k].uri)'
<1>1. Agreed(issued[k]) /\ Registered(issued[k].client, issued[k].uri)
  BY DEF Inv, IssuedInv
<1>2. issued'[k] = issued[k]
  BY DEF Grows
<1> QED BY <1>1, <1>2 DEF Agreed, Registered, Grows

\* A request moves and the stores lose entries at most.
LEMMA RemovesStep ==
  ASSUME Inv, NEW t \in Thread, Grows, Removes, Moves(t), RunInv(t)',
         UNCHANGED <<now, clients, issued, answers, permits>>,
         \A k \in Code : Holds(t, k)' => Holds(t, k)
  PROVE  Inv'
<1>1. (\A u \in Thread : RunInv(u)') /\ run' = [u \in Thread |-> run'[u]]
  BY OneMoves
<1>2. \A u \in Thread, k \in Code : Holds(u, k)' => Holds(u, k)
  BY DEF Moves, Holds
<1>3. CodeInv'
  BY <1>2 DEF Inv, CodeInv, OneAnswerPerCode, Removes
<1>4. TypeInv'
  <2>1. codes' \in [Code -> Grant \cup {Nil}]
    BY DEF Inv, TypeInv, Removes
  <2>2. access' \in [Token -> Grant \cup {Nil}]
    BY DEF Inv, TypeInv, Removes
  <2>3. refresh' \in [Token -> Entry \cup {Nil}]
    BY DEF Inv, TypeInv, Removes
  <2> QED BY <1>1, <2>1, <2>2, <2>3 DEF Inv, TypeInv
<1>5. ClientInv'
  BY DEF Inv, ClientInv, Grows
<1>6. IssuedInv'
  BY OldIssued DEF Inv, IssuedInv, Removes
<1>7. TokenInv'
  <2>1. \A x \in answers : /\ access'[x.token] \in {access[x.token], Nil}
                           /\ x.refresh \in Token => refresh'[x.refresh] \in {refresh[x.refresh], Nil}
    BY DEF Removes, Inv, TokenInv, Backed
  <2> QED BY <2>1, OldTokens DEF TokenInv
<1>8. AnswerInv' /\ PermitInv'
  BY OldAnswers, OldPermits DEF AnswerInv
<1> QED BY <1>1, <1>3, <1>4, <1>5, <1>6, <1>7, <1>8 DEF Inv

\* Nothing but the requests and the counters changes.
Quiet == UNCHANGED <<now, clients, store, registered, consents, issued, answers, permits>>

LEMMA QuietStep ==
  ASSUME Inv, NEW t \in Thread, Quiet, Moves(t), RunInv(t)',
         \A k \in Code : Holds(t, k)' => Holds(t, k)
  PROVE  Inv'
<1>1. /\ Grows /\ Removes
      /\ UNCHANGED <<now, clients, issued, answers, permits>>
  BY DEF Quiet, store, Grows, Removes, Inv, TypeInv
<1> QED BY <1>1, RemovesStep

\* A request that ends without an effect.
LEMMA QuietReply ==
  ASSUME Inv, NEW t \in Thread, Quiet, Reply(t)
  PROVE  Inv'
BY Replied, QuietStep

\* A request is accepted.
LEMMA Begun ==
  ASSUME Inv, NEW t \in Thread, NEW flow, NEW req, NEW n, Begin(t, flow, req, n)
  PROVE  /\ Quiet /\ Moves(t) /\ n.at # "Err"
         /\ run'[t] = [flow |-> flow, req |-> req, m |-> n]
BY Moved DEF Begin, Quiet

----------------------------------------------------------------------------
(* authorization_code *)

LEMMA AuthorizationCallKeeps ==
  ASSUME Inv, NEW t \in Thread, NEW req \in AuthorizationRequests, AuthorizationCall(t, req)
  PROVE  Inv'
<1> DEFINE n == AuthorizationNew(req)
<1>1. /\ Quiet /\ Moves(t) /\ n.at # "Err"
      /\ run'[t] = [flow |-> "authorization", req |-> req, m |-> n]
  BY Begun DEF AuthorizationCall
<1>2. req \in AuthorizationRequest
  BY OAuthServerAssumption
<1>3. n.at = "Binding" /\ n.client \in Client
  BY <1>1, <1>2 DEF AuthorizationNew, Err, AuthorizationRequest
<1> HIDE DEF n
<1>4. RunInv(t)' /\ \A k \in Code : ~Holds(t, k)'
  BY <1>1, <1>2, <1>3 DEF RunInv, AuthorizationRun, Holds
<1> QED BY <1>1, <1>4, QuietStep

LEMMA AuthorizationBindKeeps ==
  ASSUME Inv, NEW t \in Thread, AuthorizationBind(t)
  PROVE  Inv'
<1> DEFINE m == run[t].m
           req == run[t].req
           uri == BoundRedirect(clients[m.client], m.uri)
           in == BoundAnswer(m, req, clients[m.client])
           n == AuthorizationAdvance(m, in).m
<1>1. Quiet /\ In(t, "authorization", "Binding") /\ Feed(t, in, n)
  BY DEF AuthorizationBind, Quiet, history
<1>2. req \in AuthorizationRequest /\ m.client \in Client /\ m.at = "Binding"
  BY <1>1 DEF Inv, RunInv, AuthorizationRun, In
<1>3. CASE Reply(t)
  BY <1>1, <1>3, QuietReply
<1>4. CASE /\ Moves(t) /\ n.at # "Err" /\ in # Nil
           /\ run'[t] = [flow |-> run[t].flow, req |-> req, m |-> n]
  <2>1. uri # Nil /\ in = [kind |-> "Bound", request |-> req, client |-> m.client, uri |-> uri]
    BY <1>4 DEF BoundAnswer
  <2>2. n = Bound(req, m.client, uri)
    BY <1>2, <2>1 DEF AuthorizationAdvance, AuthorizationState
  <2>3. n = [at |-> "Extending", client |-> m.client, uri |-> uri, scope |-> req.scope]
    BY <1>4, <2>2 DEF Bound, Err
  <2>4. /\ clients[m.client] \in EncodedClient /\ uri \in RegisteredUrl
        /\ Registered(m.client, ToUrl(uri.text))
    BY <1>2, <2>1, BoundIsRegistered
  <2> HIDE DEF n, uri
  <2>5. RunInv(t)' /\ \A k \in Code : ~Holds(t, k)'
    BY <1>1, <1>2, <1>4, <2>3, <2>4
    DEF RunInv, AuthorizationRun, Holds, In, Quiet, Registered
  <2> QED BY <1>1, <1>4, <2>5, QuietStep
<1> QED BY <1>1, <1>3, <1>4, Fed

LEMMA AuthorizationExtendKeeps ==
  ASSUME Inv, NEW t \in Thread, AuthorizationExtend(t)
  PROVE  Inv'
<1> DEFINE m == run[t].m
           req == run[t].req
           ext == Challenge(req.method, req.challenge)
           in == ChallengeAnswer(req)
           n == AuthorizationAdvance(m, in).m
<1>1. Quiet /\ In(t, "authorization", "Extending") /\ Feed(t, in, n)
  BY DEF AuthorizationExtend, Quiet, history
<1>2. /\ req \in AuthorizationRequest /\ m.at = "Extending"
      /\ m.client \in Client /\ clients[m.client] \in EncodedClient
      /\ m.uri \in RegisteredUrl /\ Registered(m.client, ToUrl(m.uri.text))
  BY <1>1 DEF Inv, RunInv, AuthorizationRun, In
<1>3. CASE Reply(t)
  BY <1>1, <1>3, QuietReply
<1>4. CASE /\ Moves(t) /\ n.at # "Err" /\ in # Nil
           /\ run'[t] = [flow |-> run[t].flow, req |-> req, m |-> n]
  <2>1. ext # Bad /\ in = [kind |-> "Extended", ext |-> ext]
    BY <1>4 DEF ChallengeAnswer
  <2>2. n = [at |-> "Negotiating", client |-> m.client, uri |-> m.uri,
             scope |-> m.scope, ext |-> ext]
    BY <1>2, <2>1 DEF AuthorizationAdvance, AuthorizationState
  <2>3. ext \in Encoded \cup {Nil}
    BY <1>2, <2>1, ChallengeTyped DEF AuthorizationRequest
  <2> HIDE DEF n, ext
  <2>4. RunInv(t)' /\ \A k \in Code : ~Holds(t, k)'
    BY <1>1, <1>2, <1>4, <2>2, <2>3
    DEF RunInv, AuthorizationRun, Holds, In, Quiet, Registered
  <2> QED BY <1>1, <1>4, <2>4, QuietStep
<1> QED BY <1>1, <1>3, <1>4, Fed

LEMMA AuthorizationNegotiateKeeps ==
  ASSUME Inv, NEW t \in Thread, AuthorizationNegotiate(t)
  PROVE  Inv'
<1> DEFINE m == run[t].m
           req == run[t].req
           pre == Negotiate(m.client, clients[m.client], m.uri)
           in == NegotiatedAnswer(m, clients[m.client])
           n == AuthorizationAdvance(m, in).m
<1>1. Quiet /\ In(t, "authorization", "Negotiating") /\ Feed(t, in, n)
  BY DEF AuthorizationNegotiate, Quiet, history
<1>2. /\ req \in AuthorizationRequest /\ m.at = "Negotiating"
      /\ m.client \in Client /\ clients[m.client] \in EncodedClient
      /\ m.uri \in RegisteredUrl /\ Registered(m.client, ToUrl(m.uri.text))
      /\ m.ext \in Encoded \cup {Nil}
  BY <1>1 DEF Inv, RunInv, AuthorizationRun, In
<1>3. CASE Reply(t)
  BY <1>1, <1>3, QuietReply
<1>4. CASE /\ Moves(t) /\ n.at # "Err" /\ in # Nil
           /\ run'[t] = [flow |-> run[t].flow, req |-> req, m |-> n]
  <2>1. n = [at |-> "Pending", pre |-> pre, ext |-> m.ext]
    BY <1>2 DEF NegotiatedAnswer, AuthorizationAdvance, AuthorizationState
  <2>2. /\ pre \in [client : Client, uri : Url, scope : Scope]
        /\ Registered(pre.client, pre.uri)
    BY <1>2, NegotiatedTyped
  <2> HIDE DEF n, pre
  <2>3. RunInv(t)' /\ \A k \in Code : ~Holds(t, k)'
    BY <1>1, <1>2, <1>4, <2>1, <2>2
    DEF RunInv, AuthorizationRun, Holds, In, Quiet, Registered
  <2> QED BY <1>1, <1>4, <2>3, QuietStep
<1> QED BY <1>1, <1>3, <1>4, Fed

----------------------------------------------------------------------------
(* access_token, up to the issuer *)

LEMMA AccessTokenCallKeeps ==
  ASSUME Inv, NEW t \in Thread, NEW req \in AccessTokenRequests, AccessTokenCall(t, req)
  PROVE  Inv'
<1> DEFINE n == AccessTokenNew(req)
<1>1. /\ Quiet /\ Moves(t) /\ n.at # "Err" /\ issued[req.code] # Nil
      /\ run'[t] = [flow |-> "accesstoken", req |-> req, m |-> n]
  BY Begun DEF AccessTokenCall
<1>2. req \in AccessTokenRequest
  BY OAuthServerAssumption
<1>3. /\ n.at = "Authenticate" /\ n.client = Sender(req) /\ n.pass = Shown(req)
      /\ n.code = req.code /\ req.code \in Code /\ n.client \in Client
  BY <1>1, <1>2, AccessTokenStarts
<1> HIDE DEF n
<1>4. RunInv(t)' /\ \A k \in Code : ~Holds(t, k)'
  BY <1>1, <1>2, <1>3 DEF RunInv, AccessTokenRun, Holds, Quiet
<1> QED BY <1>1, <1>4, QuietStep

LEMMA AccessTokenAuthenticateKeeps ==
  ASSUME Inv, NEW t \in Thread, AccessTokenAuthenticate(t)
  PROVE  Inv'
<1> DEFINE m == run[t].m
           req == run[t].req
           in == AuthenticatedAnswer(m, clients[m.client])
           n == AccessTokenAdvance(m, in, now).m
<1>1. Quiet /\ In(t, "accesstoken", "Authenticate") /\ Feed(t, in, n)
  BY DEF AccessTokenAuthenticate, Quiet, history
<1>2. /\ req \in AccessTokenRequest /\ req.code \in Code /\ issued[req.code] # Nil
      /\ m.at = "Authenticate" /\ m.client = Sender(req) /\ m.code = req.code
      /\ m.pass = Shown(req) /\ m.client \in Client
  BY <1>1 DEF Inv, RunInv, AccessTokenRun, In
<1>3. CASE Reply(t)
  BY <1>1, <1>3, QuietReply
<1>4. CASE /\ Moves(t) /\ n.at # "Err" /\ in # Nil
           /\ run'[t] = [flow |-> run[t].flow, req |-> req, m |-> n]
  <2>1. Check(clients[m.client], m.pass) /\ in = [kind |-> "Authenticated"]
    BY <1>4 DEF AuthenticatedAnswer
  <2>2. n = [at |-> "Recover", client |-> m.client, code |-> m.code, uri |-> m.uri]
    BY <1>2, <2>1 DEF AccessTokenAdvance, AccessTokenState
  <2>3. Proven(Sender(req), Shown(req))
    <3>1. clients[m.client] # Nil /\ m.pass = clients[m.client].pass
      BY <2>1 DEF Check
    <3>2. <<m.client, clients[m.client]>> \in registered
      BY <1>2, <3>1 DEF Inv, ClientInv
    <3> QED BY <1>2, <3>1, <3>2 DEF Proven
  <2> HIDE DEF n
  <2>4. RunInv(t)' /\ \A k \in Code : ~Holds(t, k)'
    BY <1>1, <1>2, <1>4, <2>2, <2>3
    DEF RunInv, AccessTokenRun, Holds, In, Quiet, Proven
  <2> QED BY <1>1, <1>4, <2>4, QuietStep
<1> QED BY <1>1, <1>3, <1>4, Fed

LEMMA AccessTokenExtendKeeps ==
  ASSUME Inv, NEW t \in Thread, AccessTokenExtend(t)
  PROVE  Inv'
<1> DEFINE m == run[t].m
           req == run[t].req
           in == VerifyAnswer(m, req)
           n == AccessTokenAdvance(m, in, now).m
<1>1. Quiet /\ In(t, "accesstoken", "Extend") /\ Feed(t, in, n)
  BY DEF AccessTokenExtend, Quiet, history
<1>2. /\ req \in AccessTokenRequest /\ req.code \in Code /\ issued[req.code] # Nil
      /\ m.at = "Extend" /\ Proven(Sender(req), Shown(req))
      /\ m.grant \in Grant /\ m.grant.client = Sender(req) /\ Agreed(m.grant)
      /\ m.ext = issued[req.code].ext
  BY <1>1 DEF Inv, RunInv, AccessTokenRun, In
<1>3. CASE Reply(t)
  BY <1>1, <1>3, QuietReply
<1>4. CASE /\ Moves(t) /\ n.at # "Err" /\ in # Nil
           /\ run'[t] = [flow |-> run[t].flow, req |-> req, m |-> n]
  <2>1. Verify(m.ext, req.verifier) /\ in = [kind |-> "Extended", ext |-> Nil]
    BY <1>4 DEF VerifyAnswer
  <2> DEFINE g == [m.grant EXCEPT !.ext = Nil]
  <2>2. n = [at |-> "Issue", grant |-> g]
    BY <1>2, <2>1 DEF AccessTokenAdvance, AccessTokenState
  <2>3. /\ g \in Grant /\ g.client = m.grant.client /\ g.owner = m.grant.owner
        /\ g.uri = m.grant.uri /\ g.scope = m.grant.scope
    BY <1>2 DEF Grant
  <2>4. issued[req.code].ext \in Encoded \cup {Nil}
    BY <1>2 DEF Inv, TypeInv, Grant
  <2>5. PkceFits(issued[req.code].ext, req.verifier)
    BY <1>2, <2>1, <2>4, VerifiedFits
  <2>6. Agreed(g)
    BY <1>2, <2>3 DEF Agreed
  <2> HIDE DEF n, g
  <2>7. RunInv(t)'
    BY <1>1, <1>2, <1>4, <2>2, <2>3, <2>5, <2>6
    DEF RunInv, AccessTokenRun, In, Quiet, Proven, Agreed
  <2>8. \A k \in Code : Holds(t, k)' => Holds(t, k)
    BY <1>1, <1>2, <1>4 DEF Holds, In
  <2> QED BY <1>1, <1>4, <2>7, <2>8, QuietStep
<1> QED BY <1>1, <1>3, <1>4, Fed

----------------------------------------------------------------------------
(* refresh, up to the issuer *)

\* validate of refresh.rs narrows the grant and renews it.
LEMMA RefreshValidated ==
  ASSUME NEW g \in Grant, NEW scope \in Scope \cup {Nil, Bad}, NEW token, NEW time \in Nat,
         RefreshValidate(scope, g, token, time).at # "Err"
  PROVE  LET n == RefreshValidate(scope, g, token, time)
         IN  /\ n.at = "Issuing" /\ n.token = token /\ n.grant \in Grant
             /\ <<n.grant.owner, n.grant.client, n.grant.uri>> = <<g.owner, g.client, g.uri>>
             /\ n.grant.scope \subseteq g.scope
<1> DEFINE n == RefreshValidate(scope, g, token, time)
           narrow == IF scope = Nil THEN g.scope ELSE scope
<1>1. ~(g.until <= time) /\ scope # Bad /\ ~(scope # Nil /\ ~PriviledgedTo(g.scope, scope))
  BY DEF RefreshValidate, Err
<1>2. narrow \subseteq g.scope /\ narrow \in Scope
  BY <1>1, PriviledgedToIsInclusion DEF Grant
<1>3. n = [at |-> "Issuing", token |-> token,
           grant |-> [g EXCEPT !.scope = IF scope = Nil THEN @ ELSE scope,
                               !.until = time + RefreshLife]]
  BY <1>1 DEF RefreshValidate
<1>4. n.grant = [g EXCEPT !.scope = narrow, !.until = time + RefreshLife]
  <2>1. CASE scope = Nil
    BY <1>3, <2>1
  <2>2. CASE scope # Nil
    BY <1>3, <2>2
  <2> QED BY <2>1, <2>2
<1>5. time + RefreshLife \in Nat
  BY LifeAssumption
<1> HIDE DEF narrow
<1>6. /\ n.grant \in Grant /\ n.grant.scope = narrow
      /\ <<n.grant.owner, n.grant.client, n.grant.uri>> = <<g.owner, g.client, g.uri>>
  BY <1>2, <1>4, <1>5 DEF Grant
<1>7. n.at = "Issuing" /\ n.token = token
  BY <1>3
<1> HIDE DEF n
<1> QED BY <1>2, <1>6, <1>7 DEF n

LEMMA RefreshCallKeeps ==
  ASSUME Inv, NEW t \in Thread, NEW req \in RefreshRequests, RefreshCall(t, req)
  PROVE  Inv'
<1> DEFINE n == RefreshNew(req)
<1>1. /\ Quiet /\ Moves(t) /\ n.at # "Err" /\ \E x \in answers : x.refresh = req.token
      /\ run'[t] = [flow |-> "refresh", req |-> req, m |-> n]
  BY Begun DEF RefreshCall
<1>2. req \in RefreshRequest
  BY OAuthServerAssumption
<1>3. req.token \in Token
  BY <1>1, <1>2 DEF RefreshNew, Err, RefreshRequest
<1>4. /\ n.at \in {"Recovering", "Authenticating"} /\ n.token = req.token
      /\ n.at = "Recovering" => req.header = Nil /\ n.authenticated = Nil
      /\ n.at = "Authenticating" =>
           req.header # Nil /\ n.client = req.header[1] /\ n.pass = req.header[2]
  BY <1>1 DEF RefreshNew, Err
<1> HIDE DEF n
<1>5. RunInv(t)' /\ \A k \in Code : ~Holds(t, k)'
  BY <1>1, <1>2, <1>3, <1>4 DEF RunInv, RefreshRun, Holds, Quiet
<1> QED BY <1>1, <1>5, QuietStep

LEMMA RefreshAuthenticateKeeps ==
  ASSUME Inv, NEW t \in Thread, RefreshAuthenticate(t)
  PROVE  Inv'
<1> DEFINE m == run[t].m
           req == run[t].req
           out == RefreshOutput(m)
           in == RefreshAuthenticatedAnswer(m, req, clients[out.client])
           n == RefreshAdvance(m, in, now).m
<1>1. /\ Quiet /\ Feed(t, in, n)
      /\ In(t, "refresh", "Authenticating") \/ In(t, "refresh", "CoAuthenticating")
  BY DEF RefreshAuthenticate, Quiet, history
<1>2. /\ RefreshRun(t) /\ run[t].flow = "refresh"
      /\ m.at = "Authenticating" \/ m.at = "CoAuthenticating"
  BY <1>1 DEF Inv, RunInv, In
<1>3. CASE Reply(t)
  BY <1>1, <1>3, QuietReply
<1>4. CASE /\ Moves(t) /\ n.at # "Err" /\ in # Nil
           /\ run'[t] = [flow |-> run[t].flow, req |-> req, m |-> n]
  <2>1. Check(clients[out.client], out.pass) /\ in = [kind |-> "Authenticated", scope |-> req.scope]
    BY <1>4 DEF RefreshAuthenticatedAnswer
  <2>2. out.client \in Client => Proven(out.client, out.pass)
    <3>1. clients[out.client] # Nil /\ out.pass = clients[out.client].pass
      BY <2>1 DEF Check
    <3> QED BY <3>1 DEF Inv, ClientInv, Proven
  <2>3. CASE m.at = "Authenticating"
    <3>1. n = [at |-> "Recovering", authenticated |-> m.client, token |-> m.token]
      BY <2>1, <2>3 DEF RefreshAdvance, RefreshState
    <3>2. out.client = m.client /\ out.pass = m.pass
      BY <2>3 DEF RefreshOutput
    <3>3. /\ req.header # Nil /\ m.client = req.header[1] /\ m.pass = req.header[2]
          /\ m.client \in Client
      BY <1>2, <2>3 DEF RefreshRun, RefreshRequest
    <3>4. Proven(req.header[1], req.header[2])
      BY <2>2, <3>2, <3>3
    <3> HIDE DEF n, out
    <3>5. RunInv(t)' /\ \A k \in Code : ~Holds(t, k)'
      BY <1>1, <1>2, <1>4, <3>1, <3>3, <3>4
      DEF RunInv, RefreshRun, Holds, In, Quiet, Proven
    <3> QED BY <1>1, <1>4, <3>5, QuietStep
  <2>4. CASE m.at = "CoAuthenticating"
    <3>1. n = RefreshValidate(req.scope, m.grant, m.token, now)
      BY <2>1, <2>4 DEF RefreshAdvance, RefreshState
    <3>2. out.client = m.grant.client /\ out.pass = Nil
      BY <2>4 DEF RefreshOutput
    <3>3. /\ req.header = Nil /\ m.grant \in Grant /\ Agreed(m.grant)
          /\ req.scope \in Scope \cup {Nil, Bad} /\ now \in Nat
      BY <1>2, <2>4 DEF RefreshRun, RefreshRequest, Inv, TypeInv
    <3>4. Proven(m.grant.client, Nil)
      BY <2>2, <3>2, <3>3 DEF Grant
    <3> HIDE DEF n, out
    <3>5. /\ n.at = "Issuing" /\ n.token = m.token /\ n.grant \in Grant
          /\ <<n.grant.owner, n.grant.client, n.grant.uri>>
               = <<m.grant.owner, m.grant.client, m.grant.uri>>
          /\ n.grant.scope \subseteq m.grant.scope
      BY <1>4, <3>1, <3>3, RefreshValidated
    <3>6. Agreed(n.grant) /\ n.grant.client = m.grant.client
      BY <3>3, <3>5 DEF Agreed
    <3>7. RunInv(t)' /\ \A k \in Code : ~Holds(t, k)'
      BY <1>1, <1>2, <1>4, <3>3, <3>4, <3>5, <3>6
      DEF RunInv, RefreshRun, Holds, In, Quiet, Proven, Agreed
    <3> QED BY <1>1, <1>4, <3>7, QuietStep
  <2> QED BY <1>2, <2>3, <2>4
<1> QED BY <1>1, <1>3, <1>4, Fed

LEMMA RefreshRecoverKeeps ==
  ASSUME Inv, NEW t \in Thread, RefreshRecover(t)
  PROVE  Inv'
<1> DEFINE m == run[t].m
           req == run[t].req
           g == IF refresh[m.token] = Nil THEN Nil ELSE refresh[m.token].grant
           in == RefreshRecoveredAnswer(req, refresh[m.token])
           n == RefreshAdvance(m, in, now).m
<1>1. Quiet /\ In(t, "refresh", "Recovering") /\ Feed(t, in, n)
  BY DEF RefreshRecover, Quiet, history
<1>2. /\ RefreshRun(t) /\ run[t].flow = "refresh" /\ m.at = "Recovering"
  BY <1>1 DEF Inv, RunInv, In
<1>3. CASE Reply(t)
  BY <1>1, <1>3, QuietReply
<1>4. CASE /\ Moves(t) /\ n.at # "Err" /\ in # Nil
           /\ run'[t] = [flow |-> run[t].flow, req |-> req, m |-> n]
  <2>1. n = RecoveredRefresh(m, req.scope, g, now)
    BY <1>2 DEF RefreshRecoveredAnswer, RefreshAdvance, RefreshState
  <2>2. g # Nil
    BY <1>4, <2>1 DEF RecoveredRefresh, Err
  <2>3. g \in Grant /\ Agreed(g)
    <3>1. m.token \in Token /\ \E x \in answers : x.refresh = m.token
      BY <1>2 DEF RefreshRun
    <3>2. refresh[m.token] # Nil /\ refresh[m.token] \in Entry /\ g = refresh[m.token].grant
      BY <2>2, <3>1 DEF Inv, TypeInv
    <3> QED BY <3>1, <3>2 DEF Inv, TokenInv, Backed, Entry
  <2>4. req.scope \in Scope \cup {Nil, Bad} /\ now \in Nat
    BY <1>2 DEF RefreshRun, RefreshRequest, Inv, TypeInv
  <2> HIDE DEF g
  <2>5. CASE req.header = Nil
    <3>1. m.authenticated = Nil
      BY <1>2, <2>5 DEF RefreshRun
    <3>2. n = [at |-> "CoAuthenticating", grant |-> g, token |-> m.token]
      BY <2>1, <2>2, <3>1 DEF RecoveredRefresh
    <3> HIDE DEF n
    <3>3. RunInv(t)' /\ \A k \in Code : ~Holds(t, k)'
      BY <1>1, <1>2, <1>4, <2>3, <2>5, <3>2
      DEF RunInv, RefreshRun, Holds, In, Quiet, Agreed
    <3> QED BY <1>1, <1>4, <3>3, QuietStep
  <2>6. CASE req.header # Nil
    <3>1. /\ m.authenticated = req.header[1] /\ Proven(req.header[1], req.header[2])
          /\ m.authenticated \in Client
      BY <1>2, <2>6 DEF RefreshRun, RefreshRequest
    <3>2. m.authenticated # Nil
      BY <3>1, OptionAssumption
    <3>3. g.client = m.authenticated /\ n = RefreshValidate(req.scope, g, m.token, now)
      BY <1>4, <2>1, <2>2, <3>2 DEF RecoveredRefresh, Err
    <3> HIDE DEF n
    <3>4. RefreshValidate(req.scope, g, m.token, now).at # "Err"
      BY <1>4, <3>3
    <3>5. /\ n.at = "Issuing" /\ n.token = m.token /\ n.grant \in Grant
          /\ <<n.grant.owner, n.grant.client, n.grant.uri>> = <<g.owner, g.client, g.uri>>
          /\ n.grant.scope \subseteq g.scope
      BY <2>3, <2>4, <3>3, <3>4, RefreshValidated
    <3>6. Agreed(n.grant) /\ n.grant.client = req.header[1]
      BY <2>3, <3>1, <3>3, <3>5 DEF Agreed
    <3>7. RunInv(t)' /\ \A k \in Code : ~Holds(t, k)'
      BY <1>1, <1>2, <1>4, <2>6, <3>1, <3>5, <3>6
      DEF RunInv, RefreshRun, Holds, In, Quiet, Proven, Agreed
    <3> QED BY <1>1, <1>4, <3>7, QuietStep
  <2> QED BY <2>5, <2>6
<1> QED BY <1>1, <1>3, <1>4, Fed

----------------------------------------------------------------------------
(* The implicit grant and protect, up to the issuer, and failures *)

LEMMA ImplicitCallKeeps ==
  ASSUME Inv, NEW t \in Thread, NEW req \in ImplicitRequests, ImplicitCall(t, req)
  PROVE  Inv'
<1> DEFINE n == ImplicitNew(req)
<1>1. /\ Quiet /\ Moves(t) /\ n.at # "Err"
      /\ run'[t] = [flow |-> "implicit", req |-> req, m |-> n]
  BY Begun DEF ImplicitCall
<1>2. req \in ImplicitRequest
  BY OAuthServerAssumption
<1>3. n.at = "Binding" /\ n.client \in Client /\ n.uri = req.uri
  BY <1>1, <1>2 DEF ImplicitNew, Err, ImplicitRequest
<1> HIDE DEF n
<1>4. RunInv(t)' /\ \A k \in Code : ~Holds(t, k)'
  BY <1>1, <1>2, <1>3 DEF RunInv, ImplicitRun, Holds
<1> QED BY <1>1, <1>4, QuietStep

LEMMA ImplicitBindKeeps ==
  ASSUME Inv, NEW t \in Thread, ImplicitBind(t)
  PROVE  Inv'
<1> DEFINE m == run[t].m
           req == run[t].req
           uri == BoundRedirect(clients[m.client], m.uri)
           n == [at |-> "Negotiating", client |-> m.client, uri |-> uri]
<1>1. /\ Quiet /\ In(t, "implicit", "Binding")
      /\ Reply(t) \/ (uri # Nil /\ Continue(t, n))
  BY DEF ImplicitBind, Quiet, history
<1>2. /\ req \in ImplicitRequest /\ m.client \in Client /\ m.at = "Binding"
      /\ m.uri = req.uri
  BY <1>1 DEF Inv, RunInv, ImplicitRun, In
<1>3. CASE Reply(t)
  BY <1>1, <1>3, QuietReply
<1>4. CASE /\ Moves(t) /\ uri # Nil
           /\ run'[t] = [flow |-> run[t].flow, req |-> req, m |-> n]
  <2>1. /\ clients[m.client] \in EncodedClient /\ uri \in RegisteredUrl
        /\ Registered(m.client, ToUrl(uri.text))
        /\ m.uri # Nil => ToUrl(uri.text) = ToUrl(m.uri)
    BY <1>2, <1>4, BoundIsRegistered
  <2>2. req.uri # Nil => Registered(m.client, ToUrl(req.uri))
    BY <1>2, <2>1
  <2>3. n.at = "Negotiating" /\ n.client = m.client /\ n.uri = uri
    OBVIOUS
  <2> HIDE DEF n, uri
  <2>4. RunInv(t)' /\ \A k \in Code : ~Holds(t, k)'
    BY <1>1, <1>2, <1>4, <2>1, <2>2, <2>3
    DEF RunInv, ImplicitRun, Holds, In, Quiet, Registered
  <2> QED BY <1>1, <1>4, <2>4, QuietStep
<1>5. CASE uri # Nil /\ Continue(t, n)
  BY <1>3, <1>4, <1>5, Continued
<1> QED BY <1>1, <1>3, <1>5

LEMMA ImplicitNegotiateKeeps ==
  ASSUME Inv, NEW t \in Thread, ImplicitNegotiate(t)
  PROVE  Inv'
<1> DEFINE m == run[t].m
           req == run[t].req
           pre == Negotiate(m.client, clients[m.client], m.uri)
           g == [owner |-> req.user, client |-> pre.client, uri |-> pre.uri,
                 scope |-> pre.scope, until |-> now + ImplicitLife, ext |-> Nil]
           n == [at |-> "Issue", grant |-> g]
<1>1. Quiet /\ In(t, "implicit", "Negotiating") /\ Continue(t, n)
  BY DEF ImplicitNegotiate, Quiet, history
<1>2. /\ req \in ImplicitRequest /\ m.client \in Client /\ m.at = "Negotiating"
      /\ clients[m.client] \in EncodedClient /\ m.uri \in RegisteredUrl
      /\ req.uri # Nil => Registered(m.client, ToUrl(req.uri))
  BY <1>1 DEF Inv, RunInv, ImplicitRun, In
<1>3. CASE Reply(t)
  BY <1>1, <1>3, QuietReply
<1>4. CASE /\ Moves(t)
           /\ run'[t] = [flow |-> run[t].flow, req |-> req, m |-> n]
  <2>1. pre \in [client : Client, uri : Url, scope : Scope] /\ pre.client = m.client
    BY <1>2, NegotiatedTyped
  <2>2. now + ImplicitLife \in Nat /\ req.user \in Owner
    BY <1>2, LifeAssumption DEF Inv, TypeInv, ImplicitRequest
  <2> HIDE DEF pre
  <2>3. g \in Grant /\ g.client = m.client
    BY <2>1, <2>2 DEF Grant
  <2>4. n.at = "Issue" /\ n.grant = g
    OBVIOUS
  <2> HIDE DEF n, g
  <2>5. RunInv(t)' /\ \A k \in Code : ~Holds(t, k)'
    BY <1>1, <1>2, <1>4, <2>3, <2>4
    DEF RunInv, ImplicitRun, Holds, In, Quiet, Registered
  <2> QED BY <1>1, <1>4, <2>5, QuietStep
<1> QED BY <1>1, <1>3, <1>4, Continued

\* protect, up to its call of the issuer.
LEMMA ResourceStarts ==
  ASSUME NEW r \in ResourceRequest, ResourceAsked(r, ResourceScopes).at # "Err"
  PROVE  LET n == ResourceAsked(r, ResourceScopes)
         IN  n.at = "Recovering" /\ n.token = r.token /\ r.token \in Token
<1> DEFINE v == ResourceValidate(r)
<1>1. ResourceAdvance(ResourceNew, [kind |-> "Request", request |-> r], 0).m = v
  BY DEF ResourceAdvance, ResourceNew
<1>2. v.at # "Err"
  BY <1>1 DEF ResourceAsked
<1>3. v = [at |-> "Internalized", token |-> r.token] /\ r.token \in Token
  BY <1>2 DEF ResourceValidate, Err, ResourceRequest
<1> HIDE DEF v
<1>4. ResourceAdvance(v, [kind |-> "Scopes", scopes |-> ResourceScopes], 0).m
        = [at |-> "Recovering", token |-> r.token, scopes |-> ResourceScopes]
  BY <1>3 DEF ResourceAdvance
<1>5. ResourceAsked(r, ResourceScopes)
        = [at |-> "Recovering", token |-> r.token, scopes |-> ResourceScopes]
  BY <1>1, <1>2, <1>4 DEF ResourceAsked
<1> QED BY <1>3, <1>5

LEMMA ResourceCallKeeps ==
  ASSUME Inv, NEW t \in Thread, NEW req \in ResourceRequests, ResourceCall(t, req)
  PROVE  Inv'
<1> DEFINE n == ResourceAsked(req, ResourceScopes)
<1>1. /\ Quiet /\ Moves(t) /\ n.at # "Err" /\ \E x \in answers : x.token = req.token
      /\ run'[t] = [flow |-> "resource", req |-> req, m |-> n]
  BY Begun DEF ResourceCall
<1>2. req \in ResourceRequest
  BY OAuthServerAssumption
<1>3. n.at = "Recovering" /\ n.token = req.token /\ req.token \in Token
  BY <1>1, <1>2, ResourceStarts
<1> HIDE DEF n
<1>4. RunInv(t)' /\ \A k \in Code : ~Holds(t, k)'
  BY <1>1, <1>3 DEF RunInv, ResourceRun, Holds, Quiet
<1> QED BY <1>1, <1>4, QuietStep

LEMMA FailKeeps ==
  ASSUME Inv, NEW t \in Thread, Fail(t)
  PROVE  Inv'
BY QuietReply DEF Fail, Quiet, history

----------------------------------------------------------------------------
(* Effects: consents, codes *)

\* The owner's consent covers what the code will be issued for.
LEMMA SolicitKeeps ==
  ASSUME Inv, NEW t \in Thread, NEW owner \in Owner, Solicit(t, owner)
  PROVE  Inv'
<1> DEFINE m == run[t].m
           req == run[t].req
           n == [at |-> "Authorizing", owner |-> owner, pre |-> m.pre, ext |-> m.ext]
<1>1. /\ UNCHANGED <<now, clients, issued, answers, permits>>
      /\ UNCHANGED <<codes, access, refresh, registered>>
      /\ consents' = consents \cup {[owner |-> owner, pre |-> m.pre]}
      /\ In(t, "authorization", "Pending") /\ run' = [run EXCEPT ![t].m = n]
  BY DEF Solicit, store
<1>2. Grows /\ Removes
  BY <1>1 DEF Grows, Removes, Inv, TypeInv
<1>3. /\ req \in AuthorizationRequest /\ m.at = "Pending" /\ m.ext \in Encoded \cup {Nil}
      /\ m.pre \in [client : Client, uri : Url, scope : Scope]
      /\ Registered(m.pre.client, m.pre.uri)
  BY <1>1 DEF Inv, RunInv, AuthorizationRun, In
<1>4. Moves(t) /\ run'[t] = [flow |-> run[t].flow, req |-> req, m |-> n]
  <2>1. Continue(t, n)
    BY <1>1 DEF Continue
  <2>2. ~Reply(t)
    <3>1. run[t].flow = "authorization"
      BY <1>1 DEF In
    <3>2. run'[t].flow = run[t].flow
      BY <1>1 DEF Inv, TypeInv, RunInv
    <3> QED BY <3>1, <3>2, Replied DEF Idle
  <2> QED BY <2>1, <2>2, Continued
<1>5. n.at = "Authorizing" /\ n.owner = owner /\ n.pre = m.pre /\ n.ext = m.ext
  OBVIOUS
<1> HIDE DEF n
<1>6. RunInv(t)' /\ \A k \in Code : ~Holds(t, k)'
  BY <1>1, <1>3, <1>4, <1>5 DEF RunInv, AuthorizationRun, Holds, In, Registered
<1> QED BY <1>1, <1>2, <1>4, <1>6, RemovesStep

\* A code is issued for what an owner agreed to, and nobody has used it.
LEMMA AuthorizeKeeps ==
  ASSUME Inv, NEW t \in Thread, NEW code \in Code, Authorize(t, code)
  PROVE  Inv'
<1>1. PICK g : g = AuthorizedGrant(run[t].m.owner, run[t].m.pre, run[t].m.ext, now)
  OBVIOUS
<1>2. /\ In(t, "authorization", "Authorizing") /\ issued[code] = Nil
      /\ codes' = [codes EXCEPT ![code] = g] /\ issued' = [issued EXCEPT ![code] = g]
      /\ Reply(t)
      /\ UNCHANGED <<now, clients, access, refresh, registered, consents, answers, permits>>
  BY <1>1 DEF Authorize, First
<1>3. g \in Grant /\ g # Nil /\ Agreed(g) /\ Registered(g.client, g.uri)
  <2>1. AuthorizationRun(t) /\ run[t].m.at = "Authorizing"
    BY <1>2 DEF Inv, RunInv, In
  <2>2. PICK m : m = run[t].m
    OBVIOUS
  <2>3. /\ m.owner \in Owner /\ [owner |-> m.owner, pre |-> m.pre] \in consents
        /\ m.pre \in [client : Client, uri : Url, scope : Scope]
        /\ Registered(m.pre.client, m.pre.uri) /\ m.ext \in Encoded \cup {Nil}
    BY <2>1, <2>2 DEF AuthorizationRun
  <2>4. now + CodeLife \in Nat
    BY LifeAssumption DEF Inv, TypeInv
  <2>5. g = [owner |-> m.owner, client |-> m.pre.client, uri |-> m.pre.uri,
             scope |-> m.pre.scope, until |-> now + CodeLife, ext |-> m.ext]
    BY <1>1, <2>2 DEF AuthorizedGrant
  <2>6. g \in Grant
    BY <2>3, <2>4, <2>5 DEF Grant
  <2>7. Agreed(g)
    <3> DEFINE y == [owner |-> m.owner, pre |-> m.pre]
    <3>1. /\ y \in consents /\ y.owner = g.owner /\ y.pre.client = g.client
          /\ y.pre.uri = g.uri /\ g.scope \subseteq y.pre.scope
      BY <2>3, <2>5
    <3> QED BY <3>1 DEF Agreed
  <2> QED BY <2>3, <2>5, <2>6, <2>7, OptionAssumption
<1>4. Grows
  BY <1>2 DEF Grows, Inv, TypeInv
<1>5. Moves(t) /\ RunInv(t)' /\ \A k : ~Holds(t, k)'
  BY <1>2, Replied
<1>6. (\A u \in Thread : RunInv(u)') /\ run' = [u \in Thread |-> run'[u]]
  BY <1>4, <1>5, OneMoves
<1>7. \A u \in Thread, k \in Code : Holds(u, k)' => Holds(u, k) /\ k # code
  <2>1. \A u \in Thread, k \in Code : Holds(u, k)' => Holds(u, k)
    BY <1>5 DEF Moves, Holds
  <2>2. \A u \in Thread, k \in Code : Holds(u, k) => issued[k] # Nil
    BY DEF Holds, Inv, RunInv, AccessTokenRun
  <2> QED BY <1>2, <2>1, <2>2
<1>8. \A k \in Code : k # code => codes'[k] = codes[k] /\ issued'[k] = issued[k]
  BY <1>2 DEF Inv, TypeInv
<1>9. codes'[code] = g /\ issued'[code] = g
  BY <1>2 DEF Inv, TypeInv
<1>10. CodeInv'
  BY <1>2, <1>7, <1>8 DEF Inv, CodeInv, OneAnswerPerCode
<1>11. TypeInv'
  BY <1>2, <1>3, <1>6 DEF Inv, TypeInv
<1>12. ClientInv'
  BY <1>2 DEF Inv, ClientInv
<1>13. IssuedInv'
  <2>1. Agreed(g)' /\ Registered(g.client, g.uri)'
    BY <1>2, <1>3 DEF Agreed, Registered
  <2>2. \A k \in Code : k # code /\ issued[k] # Nil =>
          Agreed(issued[k])' /\ Registered(issued[k].client, issued[k].uri)'
    BY <1>4, OldIssued
  <2>3. ASSUME NEW k \in Code
        PROVE  /\ codes'[k] # Nil => codes'[k] = issued'[k]
               /\ issued'[k] # Nil =>
                    Agreed(issued[k])' /\ Registered(issued[k].client, issued[k].uri)'
    <3>1. CASE k = code
      BY <1>9, <2>1, <3>1 DEF Agreed, Registered
    <3>2. CASE k # code
      BY <1>8, <2>2, <3>2 DEF Inv, IssuedInv
    <3> QED BY <3>1, <3>2
  <2> QED BY <2>3 DEF IssuedInv
<1>14. TokenInv'
  BY <1>2, <1>4, OldTokens DEF TokenInv
<1>15. AnswerInv' /\ PermitInv'
  BY <1>2, <1>4, OldAnswers, OldPermits DEF AnswerInv
<1> QED BY <1>6, <1>10, <1>11, <1>12, <1>13, <1>14, <1>15 DEF Inv

\* extract: whoever takes the code out of the map is the only one to have it.
LEMMA ExtractKeeps ==
  ASSUME Inv, NEW t \in Thread, AccessTokenRecover(t)
  PROVE  Inv'
<1> DEFINE m == run[t].m
           req == run[t].req
           k == m.code
           in == [kind |-> "Recovered", grant |-> codes[k]]
           n == AccessTokenAdvance(m, in, now).m
<1>1. /\ In(t, "accesstoken", "Recover") /\ codes' = [codes EXCEPT ![k] = Nil]
      /\ Continue(t, n)
      /\ UNCHANGED <<now, clients, access, refresh, registered, consents, issued, answers,
                     permits>>
  BY DEF AccessTokenRecover, history
<1>2. /\ req \in AccessTokenRequest /\ req.code \in Code /\ issued[req.code] # Nil
      /\ m.at = "Recover" /\ m.client = Sender(req) /\ k = req.code
      /\ Proven(Sender(req), Shown(req)) /\ run[t].flow = "accesstoken"
  BY <1>1 DEF Inv, RunInv, AccessTokenRun, In
<1>3. Grows /\ Removes
  BY <1>1 DEF Grows, Removes, Inv, TypeInv
<1>4. CASE Reply(t)
  BY <1>1, <1>3, <1>4, Replied, RemovesStep
<1>5. CASE /\ Moves(t) /\ n.at # "Err"
           /\ run'[t] = [flow |-> run[t].flow, req |-> req, m |-> n]
  <2>1. n = Recovered(m, codes[k], now)
    BY <1>2 DEF AccessTokenAdvance, AccessTokenState
  <2>2. /\ codes[k] # Nil /\ codes[k].client = m.client
        /\ n = [at |-> "Extend", grant |-> [codes[k] EXCEPT !.ext = Nil], ext |-> codes[k].ext]
    BY <1>5, <2>1 DEF Recovered, Err
  <2>3. PICK g : g = [codes[k] EXCEPT !.ext = Nil]
    OBVIOUS
  <2>4. codes[k] \in Grant /\ codes[k] = issued[req.code] /\ Agreed(codes[k])
    BY <1>2, <2>2 DEF Inv, TypeInv, IssuedInv
  <2>5. /\ g \in Grant /\ g.client = codes[k].client /\ g.owner = codes[k].owner
        /\ g.uri = codes[k].uri /\ g.scope = codes[k].scope
    BY <2>3, <2>4 DEF Grant
  <2>6. Agreed(g) /\ g.client = Sender(req)
    <3> HIDE DEF n, in, k
    <3>1. Agreed(g)
      BY <2>4, <2>5 DEF Agreed
    <3>2. g.client = Sender(req)
      BY <1>2, <2>2, <2>5
    <3> QED BY <3>1, <3>2
  <2>7. n.at = "Extend" /\ n.grant = g /\ n.ext = issued[req.code].ext
    BY <2>2, <2>3, <2>4
  <2> HIDE DEF n
  <2>8. RunInv(t)'
    BY <1>1, <1>2, <1>5, <2>5, <2>6, <2>7
    DEF RunInv, AccessTokenRun, Proven, Agreed
  <2>9. (\A u \in Thread : RunInv(u)') /\ run' = [u \in Thread |-> run'[u]]
    BY <1>3, <1>5, <2>8, OneMoves
  <2>10. \A u \in Thread, c \in Code :
           Holds(u, c)' => IF u = t THEN c = req.code ELSE Holds(u, c) /\ c # req.code
    <3>1. \A u \in Thread, c \in Code : Holds(u, c)' /\ u # t => Holds(u, c)
      BY <1>5 DEF Moves, Holds
    <3>2. \A u \in Thread : ~Holds(u, req.code)
      BY <1>2, <2>2 DEF Inv, CodeInv
    <3>3. \A c \in Code : Holds(t, c)' => c = req.code
      BY <1>5 DEF Holds
    <3> QED BY <3>1, <3>2, <3>3
  <2>11. \A x \in answers : x.via = "code" => x.req.code # req.code
    BY <1>2, <2>2 DEF Inv, CodeInv
  <2>12. codes'[req.code] = Nil /\ \A c \in Code : c # req.code => codes'[c] = codes[c]
    BY <1>1, <1>2 DEF Inv, TypeInv
  <2>13. CodeInv'
    BY <1>1, <2>10, <2>11, <2>12 DEF Inv, CodeInv, OneAnswerPerCode
  <2>14. TypeInv'
    BY <1>1, <1>2, <2>9 DEF Inv, TypeInv
  <2>15. ClientInv'
    BY <1>1 DEF Inv, ClientInv
  <2>16. IssuedInv'
    BY <1>1, <1>3, OldIssued DEF Inv, IssuedInv, Removes
  <2>17. TokenInv'
    BY <1>1, <1>3, OldTokens DEF TokenInv
  <2>18. AnswerInv' /\ PermitInv'
    BY <1>1, <1>3, OldAnswers, OldPermits DEF AnswerInv
  <2> QED BY <2>9, <2>13, <2>14, <2>15, <2>16, <2>17, <2>18 DEF Inv
<1> QED BY <1>1, <1>4, <1>5, Continued

LEMMA ExtractBreaksKeeps ==
  ASSUME Inv, NEW t \in Thread, ExtractBreaks(t)
  PROVE  Inv'
<1>1. /\ Reply(t) /\ codes' = [codes EXCEPT ![run[t].m.code] = Nil]
      /\ UNCHANGED <<now, clients, access, refresh, registered, consents, issued, answers,
                     permits>>
  BY DEF ExtractBreaks, history
<1>2. Grows /\ Removes
  BY <1>1 DEF Grows, Removes, Inv, TypeInv
<1> QED BY <1>1, <1>2, Replied, RemovesStep

----------------------------------------------------------------------------
(* Effects: tokens *)

\* What the issuing steps have in common: an answer x is added, its token and
\* its refresh token, if any, are new.
LEMMA IssueStep ==
  ASSUME Inv, NEW t \in Thread, NEW x, NEW a \in Unused,
         answers' = answers \/ (answers' = answers \cup {x} /\ Answered(x)' /\ Backed(x)'),
         UNCHANGED <<now, clients, codes, registered, consents, issued, permits>>,
         access' \in [Token -> Grant \cup {Nil}], refresh' \in [Token -> Entry \cup {Nil}],
         \A c \in Token \ {a} : access'[c] \in {access[c], Nil},
         \A b \in Token :
           (\A y \in answers : y.refresh # b) \/ refresh'[b] = refresh[b]
             \/ \E g : Agreed(g) /\ refresh'[b].grant = g,
         Reply(t),
         x \in answers' /\ x.via = "code" =>
           Holds(t, x.req.code) /\ x.req.code \in Code /\ issued[x.req.code] # Nil
  PROVE  Inv'
<1>1. Grows
  BY DEF Grows
<1>2. Moves(t) /\ RunInv(t)' /\ \A k : ~Holds(t, k)'
  BY Replied
<1>3. (\A u \in Thread : RunInv(u)') /\ run' = [u \in Thread |-> run'[u]]
  BY <1>1, <1>2, OneMoves
<1>4. \A u \in Thread, k \in Code : Holds(u, k)' => Holds(u, k) /\ u # t
  BY <1>2 DEF Moves, Holds
<1>5. CodeInv'
  <2>1. CASE answers' = answers
    BY <1>4, <2>1 DEF Inv, CodeInv, OneAnswerPerCode
  <2>2. CASE answers' = answers \cup {x} /\ x.via # "code"
    BY <1>4, <2>2 DEF Inv, CodeInv, OneAnswerPerCode
  <2>3. CASE answers' = answers \cup {x} /\ x.via = "code"
    <3>1. Holds(t, x.req.code) /\ x.req.code \in Code /\ issued[x.req.code] # Nil
      BY <2>3
    <3>2. \A u \in Thread, k \in Code : Holds(u, k)' => Holds(u, k) /\ k # x.req.code
      BY <1>4, <3>1 DEF Inv, CodeInv
    <3>3. codes[x.req.code] = Nil /\ \A y \in answers : y.via = "code" => y.req.code # x.req.code
      BY <3>1 DEF Inv, CodeInv
    <3> QED BY <2>3, <3>1, <3>2, <3>3 DEF Inv, CodeInv, OneAnswerPerCode
  <2> QED BY <2>1, <2>2, <2>3
<1>6. TypeInv'
  BY <1>3 DEF Inv, TypeInv
<1>7. ClientInv' /\ IssuedInv'
  BY DEF Inv, ClientInv, IssuedInv, Agreed, Registered
<1>8. \A y \in answers : Backed(y)'
  <2> SUFFICES ASSUME NEW y \in answers
               PROVE  Backed(y)'
    OBVIOUS
  <2>1. y.token \in Token /\ y.token # a
    BY DEF Unused, Inv, TokenInv, Backed
  <2> QED BY <1>1, <2>1, OldTokens
<1>9. TokenInv'
  BY <1>8 DEF TokenInv
<1>10. AnswerInv' /\ PermitInv'
  BY <1>1, OldAnswers, OldPermits DEF AnswerInv
<1> QED BY <1>3, <1>5, <1>6, <1>7, <1>9, <1>10 DEF Inv

LEMMA AccessTokenIssueKeeps ==
  ASSUME Inv, NEW t \in Thread, NEW a \in Token, NEW b \in Token, AccessTokenIssue(t, a, b)
  PROVE  Inv'
<1>1. PICK g, req : g = run[t].m.grant /\ req = run[t].req
  OBVIOUS
<1>2. PICK x : x = [via |-> "code", req |-> req, client |-> AccessTokenNew(req).client,
                    grant |-> g, token |-> a, refresh |-> b]
  OBVIOUS
<1>3. /\ In(t, "accesstoken", "Issue") /\ a \in Unused /\ b \in Unused /\ Reply(t)
      /\ access' = [access EXCEPT ![a] = g]
      /\ refresh' = [refresh EXCEPT ![b] = [access |-> a, grant |-> g]]
      /\ answers' = answers \cup {x}
      /\ UNCHANGED <<now, clients, codes, registered, consents, issued, permits>>
  BY <1>1, <1>2 DEF AccessTokenIssue, NewPair, NewToken, First, Answer
<1>4. /\ req \in AccessTokenRequest /\ req.code \in Code /\ issued[req.code] # Nil
      /\ Proven(Sender(req), Shown(req)) /\ g \in Grant /\ g.client = Sender(req)
      /\ Agreed(g) /\ PkceFits(issued[req.code].ext, req.verifier) /\ Holds(t, req.code)
  BY <1>1, <1>3 DEF Inv, RunInv, AccessTokenRun, In, Holds
<1>5. /\ x.via = "code" /\ x.req = req /\ x.grant = g /\ x.token = a /\ x.refresh = b
  BY <1>2
<1>6. /\ access' \in [Token -> Grant \cup {Nil}] /\ access'[a] = g
      /\ \A c \in Token \ {a} : access'[c] \in {access[c], Nil}
  BY <1>3, <1>4 DEF Inv, TypeInv
<1>7. /\ refresh' \in [Token -> Entry \cup {Nil}] /\ refresh'[b].grant = g
      /\ \A c \in Token \ {b} : refresh'[c] = refresh[c]
  BY <1>3, <1>4 DEF Inv, TypeInv, Entry
<1>8. \A y \in answers : y.refresh # b
  BY <1>3 DEF Unused
<1>9. Agreed(g)' /\ Proven(Sender(req), Shown(req))'
  BY <1>3, <1>4 DEF Agreed, Proven
<1>10. Backed(x)'
  BY <1>5, <1>6, <1>7, <1>9 DEF Backed, Agreed
<1>11. Answered(x)'
  <2>1. Sent(x)'
    BY <1>4, <1>5, <1>9 DEF Sent, Sender, Proven
  <2>2. PkceFits(issued[req.code].ext, req.verifier)'
    BY <1>3, <1>4 DEF PkceFits
  <2> QED BY <1>5, <1>9, <2>1, <2>2 DEF Answered, PkceFits
<1> QED BY <1>3, <1>4, <1>5, <1>6, <1>7, <1>8, <1>10, <1>11, IssueStep

LEMMA ImplicitIssueKeeps ==
  ASSUME Inv, NEW t \in Thread, NEW a \in Token, NEW b \in Token, ImplicitIssue(t, a, b)
  PROVE  Inv'
<1>1. PICK g, req : g = run[t].m.grant /\ req = run[t].req
  OBVIOUS
<1>2. PICK x : x = [via |-> "implicit", req |-> req, client |-> g.client,
                    grant |-> g, token |-> a, refresh |-> Nil]
  OBVIOUS
<1>3. /\ In(t, "implicit", "Issue") /\ a \in Unused /\ b \in Unused /\ Reply(t)
      /\ access' = [access EXCEPT ![a] = g]
      /\ refresh' = [refresh EXCEPT ![b] = [access |-> a, grant |-> g]]
      /\ \/ answers' = answers
         \/ req.uri # Nil /\ answers' = answers \cup {x}
      /\ UNCHANGED <<now, clients, codes, registered, consents, issued, permits>>
  BY <1>1, <1>2 DEF ImplicitIssue, NewPair, NewToken, First, Answer
<1>4. /\ g \in Grant
      /\ req.uri # Nil => Registered(g.client, ToUrl(req.uri))
  BY <1>1, <1>3 DEF Inv, RunInv, ImplicitRun, In
<1>5. /\ x.via = "implicit" /\ x.req = req /\ x.grant = g /\ x.token = a /\ x.refresh = Nil
  BY <1>2
<1>6. /\ access' \in [Token -> Grant \cup {Nil}] /\ access'[a] = g
      /\ \A c \in Token \ {a} : access'[c] \in {access[c], Nil}
  BY <1>3, <1>4 DEF Inv, TypeInv
<1>7. /\ refresh' \in [Token -> Entry \cup {Nil}]
      /\ \A c \in Token \ {b} : refresh'[c] = refresh[c]
  BY <1>3, <1>4 DEF Inv, TypeInv, Entry
<1>8. \A y \in answers : y.refresh # b
  BY <1>3 DEF Unused
<1>9. Backed(x)'
  BY <1>5, <1>6, OptionAssumption DEF Backed
<1>10. req.uri # Nil => Answered(x)'
  BY <1>3, <1>4, <1>5 DEF Answered, Registered
<1>11. answers' = answers \/ (answers' = answers \cup {x} /\ Answered(x)' /\ Backed(x)')
  BY <1>3, <1>9, <1>10
<1>12. \A c \in Token : (\A y \in answers : y.refresh # c) \/ refresh'[c] = refresh[c]
  BY <1>7, <1>8
<1>13. ~(x \in answers' /\ x.via = "code") /\ a \in Unused /\ Reply(t)
  BY <1>3, <1>5
<1>14. UNCHANGED <<now, clients, codes, registered, consents, issued, permits>>
  BY <1>3
<1> QED BY <1>6, <1>7, <1>11, <1>12, <1>13, <1>14, IssueStep

LEMMA RefreshIssueKeeps ==
  ASSUME Inv, NEW t \in Thread, NEW a \in Token, RefreshIssue(t, a)
  PROVE  Inv'
<1>1. PICK g, req, b, e : /\ g = run[t].m.grant /\ req = run[t].req
                          /\ b = run[t].m.token /\ e = refresh[b]
  OBVIOUS
<1>2. PICK x : x = [via |-> "refresh", req |-> req, client |-> g.client,
                    grant |-> g, token |-> a, refresh |-> Nil]
  OBVIOUS
<1>3. /\ In(t, "refresh", "Issuing") /\ a \in Unused /\ Reply(t) /\ e # Nil
      /\ access' = [access EXCEPT ![e.access] = Nil, ![a] = g]
      /\ refresh' = [refresh EXCEPT ![b] = [access |-> a, grant |-> g]]
      /\ answers' = answers \cup {x}
      /\ UNCHANGED <<now, clients, codes, registered, consents, issued, permits>>
  BY <1>1, <1>2 DEF RefreshIssue, NewToken, First, Answer
<1>4. /\ req \in RefreshRequest /\ b \in Token /\ g \in Grant /\ Agreed(g)
      /\ IF req.header = Nil THEN Proven(g.client, Nil)
         ELSE g.client = req.header[1] /\ Proven(req.header[1], req.header[2])
  BY <1>1, <1>3 DEF Inv, RunInv, RefreshRun, In
<1>5. /\ x.via = "refresh" /\ x.req = req /\ x.grant = g /\ x.token = a /\ x.refresh = Nil
  BY <1>2
<1>6. e \in Entry /\ e.access \in Token
  BY <1>1, <1>3, <1>4 DEF Inv, TypeInv, Entry
<1>7. /\ access' \in [Token -> Grant \cup {Nil}] /\ access'[a] = g
      /\ \A c \in Token \ {a} : access'[c] \in {access[c], Nil}
  BY <1>3, <1>4, <1>6 DEF Inv, TypeInv
<1>8. /\ refresh' \in [Token -> Entry \cup {Nil}] /\ refresh'[b].grant = g
      /\ \A c \in Token \ {b} : refresh'[c] = refresh[c]
  BY <1>3, <1>4 DEF Inv, TypeInv, Entry
<1>9. Backed(x)'
  BY <1>5, <1>7, OptionAssumption DEF Backed
<1>10. Answered(x)'
  <2>1. Agreed(g)'
    BY <1>3, <1>4 DEF Agreed
  <2>2. Sent(x)'
    BY <1>3, <1>4, <1>5 DEF Sent, Shown, Proven
  <2> QED BY <1>5, <2>1, <2>2 DEF Answered
<1> QED BY <1>3, <1>4, <1>5, <1>7, <1>8, <1>9, <1>10, IssueStep

LEMMA RefreshBreaksKeeps ==
  ASSUME Inv, NEW t \in Thread, RefreshBreaks(t)
  PROVE  Inv'
<1>1. PICK b, e : b = run[t].m.token /\ e = refresh[b]
  OBVIOUS
<1>2. /\ In(t, "refresh", "Issuing") /\ e # Nil /\ Reply(t)
      /\ refresh' = [refresh EXCEPT ![b] = Nil]
      /\ access' = access \/ access' = [access EXCEPT ![e.access] = Nil]
      /\ UNCHANGED <<now, clients, codes, registered, consents, issued, answers, permits>>
  BY <1>1 DEF RefreshBreaks, history
<1>3. Grows
  BY <1>2 DEF Grows
<1>4. Removes
  BY <1>2 DEF Removes, Inv, TypeInv
<1> QED BY <1>2, <1>3, <1>4, Replied, RemovesStep

----------------------------------------------------------------------------
(* Effects: permits, registrations, time *)

\* recover_token: the grant that is found is the one the token was sent with.
LEMMA ResourceRecoverKeeps ==
  ASSUME Inv, NEW t \in Thread, ResourceRecover(t)
  PROVE  Inv'
<1>1. PICK m, g : m = run[t].m /\ g = access[m.token]
  OBVIOUS
<1> DEFINE out == ResourceAdvance(m, [kind |-> "Recovered", grant |-> g], now).out
           p == [token |-> m.token, grant |-> out.grant, expired |-> out.grant.until < now]
<1>2. /\ In(t, "resource", "Recovering") /\ Reply(t)
      /\ permits' = IF out.kind = "Ok" THEN permits \cup {p} ELSE permits
      /\ UNCHANGED <<now, clients, codes, access, refresh, registered, consents, issued,
                     answers>>
  BY <1>1 DEF ResourceRecover, store
<1>3. m.at = "Recovering" /\ m.token \in Token /\ \E x \in answers : x.token = m.token
  BY <1>1, <1>2 DEF Inv, RunInv, ResourceRun, In
<1>4. out.kind = "Ok" => g # Nil /\ ~(g.until < now) /\ out.grant = g
  <2>1. out.kind = "Ok" => ResourceRecovered(g, m.scopes, now) = "Ok" /\ out.grant = g
    BY <1>3 DEF ResourceAdvance, ResourceOutput, OutErr, Err
  <2> QED BY <2>1 DEF ResourceRecovered
<1>5. g # Nil => \E x \in answers : x.token = m.token /\ x.grant = g
  BY <1>1, <1>3 DEF Inv, TokenInv, Backed
<1>6. Grows
  BY <1>2 DEF Grows
<1>7. PermitInv'
  <2>1. CASE out.kind = "Ok"
    <3>1. p.token = m.token /\ p.grant = g /\ ~p.expired
      BY <1>4, <2>1
    <3>2. permits' = permits \cup {p}
      BY <1>2, <2>1
    <3> HIDE DEF p
    <3> QED BY <1>2, <1>4, <1>5, <2>1, <3>1, <3>2 DEF Inv, PermitInv
  <2>2. CASE out.kind # "Ok"
    BY <1>2, <1>6, <2>2, OldPermits
  <2> QED BY <2>1, <2>2
<1>8. (\A u \in Thread : RunInv(u)') /\ run' = [u \in Thread |-> run'[u]]
  BY <1>2, <1>6, Replied, OneMoves
<1>9. \A u \in Thread, k \in Code : Holds(u, k)' => Holds(u, k)
  <2>1. Moves(t) /\ \A k : ~Holds(t, k)'
    BY <1>2, Replied
  <2> QED BY <2>1 DEF Moves, Holds
<1>10. CodeInv'
  BY <1>2, <1>9 DEF Inv, CodeInv, OneAnswerPerCode
<1>11. TypeInv' /\ ClientInv' /\ IssuedInv'
  BY <1>2, <1>8 DEF Inv, TypeInv, ClientInv, IssuedInv, Agreed, Registered
<1>12. TokenInv' /\ AnswerInv'
  BY <1>2, <1>6, OldTokens, OldAnswers DEF TokenInv, AnswerInv
<1> QED BY <1>7, <1>8, <1>10, <1>11, <1>12 DEF Inv

\* No request moves: the clients are registered again, time passes, or nothing
\* happens.
LEMMA AllStay ==
  ASSUME Inv, Grows, now' \in Nat, clients' \in [Client -> EncodedClient \cup {Nil}],
         ClientInv',
         UNCHANGED <<codes, access, refresh, run, consents, issued, answers, permits>>
  PROVE  Inv'
<1>1. \A t \in Thread : RunInv(t)'
  BY Bystander
<1>2. \A t \in Thread, k \in Code : Holds(t, k)' <=> Holds(t, k)
  BY DEF Holds
<1>3. CodeInv'
  BY <1>2 DEF Inv, CodeInv, OneAnswerPerCode
<1>4. TypeInv'
  BY DEF Inv, TypeInv
<1>5. IssuedInv'
  BY OldIssued DEF Inv, IssuedInv
<1>6. TokenInv' /\ AnswerInv' /\ PermitInv'
  BY OldTokens, OldAnswers, OldPermits DEF TokenInv, AnswerInv
<1> QED BY <1>1, <1>3, <1>4, <1>5, <1>6 DEF Inv

LEMMA RegisterClientKeeps ==
  ASSUME Inv, NEW r \in Registrations, RegisterClient(r[1], r[2])
  PROVE  Inv'
<1>1. r[1] \in Client /\ r[2] \in EncodedClient
  BY OAuthServerAssumption
<1>2. /\ clients' = [clients EXCEPT ![r[1]] = r[2]]
      /\ registered' = registered \cup {<<r[1], r[2]>>}
      /\ now' = now
      /\ UNCHANGED <<codes, access, refresh, run, consents, issued, answers, permits>>
  BY DEF RegisterClient, store
<1>3. clients' \in [Client -> EncodedClient \cup {Nil}] /\ now' \in Nat
  BY <1>1, <1>2 DEF Inv, TypeInv
<1>4. Grows
  BY <1>1, <1>2 DEF Grows, Inv, TypeInv
<1>5. ClientInv'
  BY <1>1, <1>2 DEF Inv, TypeInv, ClientInv
<1> QED BY <1>2, <1>3, <1>4, <1>5, AllStay

LEMMA TimeKeeps ==
  ASSUME Inv, Tick \/ UNCHANGED vars
  PROVE  Inv'
<1>1. /\ UNCHANGED <<clients, registered>> /\ now' \in Nat
      /\ UNCHANGED <<codes, access, refresh, run, consents, issued, answers, permits>>
  BY DEF Tick, vars, store, history, Inv, TypeInv
<1>2. Grows /\ ClientInv'
  BY <1>1 DEF Grows, Inv, ClientInv
<1>3. clients' \in [Client -> EncodedClient \cup {Nil}]
  BY <1>1 DEF Inv, TypeInv
<1> QED BY <1>1, <1>2, <1>3, AllStay

----------------------------------------------------------------------------
(* The theorems *)

LEMMA InitInv == Init => Inv
<1> SUFFICES ASSUME Init
             PROVE  Inv
  OBVIOUS
<1>1. \A r \in Registrations : r[2] \in EncodedClient
  BY OAuthServerAssumption
<1>2. TypeInv
  BY <1>1 DEF Init, TypeInv
<1>3. ClientInv
  BY DEF Init, ClientInv
<1>4. \A t \in Thread : run[t] = Idle
  BY DEF Init
<1>5. IssuedInv /\ TokenInv /\ AnswerInv /\ PermitInv
  BY DEF Init, IssuedInv, TokenInv, AnswerInv, PermitInv
<1>6. CodeInv
  BY <1>4 DEF Init, CodeInv, Holds, Idle, OneAnswerPerCode
<1>7. \A t \in Thread : RunInv(t)
  BY <1>4 DEF RunInv, Idle
<1> QED BY <1>2, <1>3, <1>5, <1>6, <1>7 DEF Inv

LEMMA NextKeeps == Inv /\ [Next]_vars => Inv'
<1> SUFFICES ASSUME Inv, [Next]_vars
             PROVE  Inv'
  OBVIOUS
<1>1. ASSUME NEW t \in Thread, AuthorizationStep(t)
      PROVE  Inv'
  BY <1>1, AuthorizationCallKeeps, AuthorizationBindKeeps, AuthorizationExtendKeeps,
     AuthorizationNegotiateKeeps, SolicitKeeps, AuthorizeKeeps DEF AuthorizationStep
<1>2. ASSUME NEW t \in Thread, AccessTokenStep(t)
      PROVE  Inv'
  BY <1>2, AccessTokenCallKeeps, AccessTokenAuthenticateKeeps, ExtractKeeps,
     AccessTokenExtendKeeps, AccessTokenIssueKeeps, ExtractBreaksKeeps DEF AccessTokenStep
<1>3. ASSUME NEW t \in Thread, RefreshStep(t)
      PROVE  Inv'
  BY <1>3, RefreshCallKeeps, RefreshAuthenticateKeeps, RefreshRecoverKeeps,
     RefreshIssueKeeps, RefreshBreaksKeeps DEF RefreshStep
<1>4. ASSUME NEW t \in Thread, ImplicitStep(t)
      PROVE  Inv'
  BY <1>4, ImplicitCallKeeps, ImplicitBindKeeps, ImplicitNegotiateKeeps, ImplicitIssueKeeps
  DEF ImplicitStep
<1>5. ASSUME NEW t \in Thread, ResourceStep(t)
      PROVE  Inv'
  BY <1>5, ResourceCallKeeps, ResourceRecoverKeeps DEF ResourceStep
<1>6. ASSUME NEW t \in Thread, Fail(t)
      PROVE  Inv'
  BY <1>6, FailKeeps
<1>7. ASSUME NEW r \in Registrations, RegisterClient(r[1], r[2])
      PROVE  Inv'
  BY <1>7, RegisterClientKeeps
<1>8. CASE Tick \/ UNCHANGED vars
  BY <1>8, TimeKeeps
<1> QED BY <1>1, <1>2, <1>3, <1>4, <1>5, <1>6, <1>7, <1>8 DEF Next

\* The inductive invariant: how the store, the answers and every request in
\* progress hang together, whatever the requests of the executors interleave.
THEOREM ServerInvariant == Spec => []Inv
BY InitInv, NextKeeps, PTL DEF Spec

\* Every bearer token of the code and the refresh flow rests on the consent of
\* its owner, for at least its scope, over any number of refreshes and
\* re-registrations.
THEOREM TokensRestOnConsent == Spec => []Consented
<1>1. Inv => Consented
  BY DEF Inv, AnswerInv, Answered, Agreed, Consented
<1> QED BY <1>1, ServerInvariant, PTL

\* Of all the requests that present a code, one gets a bearer token.
THEOREM CodesAreAnsweredOnce == Spec => []OneAnswerPerCode
<1>1. Inv => OneAnswerPerCode
  BY DEF Inv, CodeInv
<1> QED BY <1>1, ServerInvariant, PTL

\* A bearer token goes only to the client its grant names, after a proof of
\* identity that was registered for that client.
THEOREM ClientsAreProven == Spec => []ProvenClient
<1>1. Inv => ProvenClient
  <2> SUFFICES ASSUME Inv, NEW x \in answers, x.via # "implicit"
               PROVE  LET header == x.req.header
                          pass == CASE header # Nil -> header[2]
                                    [] header = Nil /\ x.via = "code" /\ x.req.body -> x.req.secret
                                    [] OTHER -> Nil
                      IN
                      /\ header # Nil => x.grant.client = header[1]
                      /\ x.via = "code" /\ header = Nil => x.grant.client = x.req.client
                      /\ \E r \in registered : r[1] = x.grant.client /\ r[2].pass = pass
    BY DEF ProvenClient
  <2>1. Sent(x)
    BY DEF Inv, AnswerInv, Answered
  <2>2. CASE x.req.header # Nil
    BY <2>1, <2>2 DEF Sent, Shown, Proven
  <2>3. CASE x.req.header = Nil /\ x.via = "code" /\ x.req.body
    BY <2>1, <2>3 DEF Sent, Shown, Proven
  <2>4. CASE x.req.header = Nil /\ ~(x.via = "code" /\ x.req.body)
    BY <2>1, <2>4 DEF Sent, Shown, Proven
  <2> QED BY <2>2, <2>3, <2>4
<1> QED BY <1>1, ServerInvariant, PTL

\* A code is exchanged only with the verifier of the challenge it was requested
\* with, and not without a challenge where PKCE is required.
THEOREM ChallengesAreMet == Spec => []PkceProven
<1>1. Inv => PkceProven
  BY DEF Inv, AnswerInv, Answered, PkceFits, PkceProven
<1> QED BY <1>1, ServerInvariant, PTL

\* Codes and implicit tokens are sent only to a uri that was registered for
\* the client.
THEOREM RedirectsAreRegistered == Spec => []RedirectRegistered
<1>1. Inv => RedirectRegistered
  BY DEF Inv, IssuedInv, AnswerInv, Answered, Registered, RedirectRegistered
<1> QED BY <1>1, ServerInvariant, PTL

\* A resource is opened only to a token that was sent, under its grant, before
\* it expires, and with a consent behind it unless it came from the implicit
\* flow.
THEOREM ResourcesAreGuarded == Spec => []PermitsAreBacked
<1>1. Inv => PermitsAreBacked
  <2> SUFFICES ASSUME Inv, NEW p \in permits
               PROVE  \E x \in answers :
                        /\ x.token = p.token /\ x.grant = p.grant
                        /\ ~p.expired
                        /\ \/ x.via = "implicit"
                           \/ \E y \in consents :
                                /\ y.owner = p.grant.owner /\ y.pre.client = p.grant.client
                                /\ p.grant.scope \subseteq y.pre.scope
    BY DEF PermitsAreBacked
  <2>1. PICK x \in answers : x.token = p.token /\ x.grant = p.grant
    BY DEF Inv, PermitInv
  <2>2. ~p.expired
    BY DEF Inv, PermitInv
  <2>3. x.via # "implicit" => Agreed(p.grant)
    BY <2>1 DEF Inv, AnswerInv, Answered
  <2> QED BY <2>1, <2>2, <2>3 DEF Agreed
<1> QED BY <1>1, ServerInvariant, PTL

----------------------------------------------------------------------------
(* One live token: a second inductive invariant, over the first *)

\* The refresh token behind an answer was sent to a client, and while both
\* are stored its entry names the answer's access token: this is how a refresh
\* finds the token it replaces.
Renewable(x) ==
  x.via # "implicit" =>
    /\ RenewedBy(x) \in Token
    /\ \E z \in answers : z.refresh = RenewedBy(x)
    /\ access[x.token] # Nil /\ refresh[RenewedBy(x)] # Nil =>
         refresh[RenewedBy(x)].access = x.token

LiveInv ==
  /\ \A x \in answers : Renewable(x)
  /\ OneLiveToken

\* The tokens that clients have are no worse off: they stay or are removed.
Spares ==
  \A y \in answers :
    /\ access'[y.token] \in {access[y.token], Nil}
    /\ y.refresh \in Token => refresh'[y.refresh] \in {refresh[y.refresh], Nil}

LEMMA SparedAreRenewable ==
  ASSUME LiveInv, Spares, answers \subseteq answers', NEW x \in answers
  PROVE  Renewable(x)'
<1> SUFFICES ASSUME x.via # "implicit"
             PROVE  Renewable(x)'
  BY DEF Renewable
<1>1. PICK b : b = RenewedBy(x)
  OBVIOUS
<1>2. /\ b \in Token
      /\ access[x.token] # Nil /\ refresh[b] # Nil => refresh[b].access = x.token
  BY <1>1 DEF LiveInv, Renewable
<1>3. PICK z \in answers : z.refresh = b
  BY <1>1 DEF LiveInv, Renewable
<1>4. access'[x.token] \in {access[x.token], Nil} /\ refresh'[b] \in {refresh[b], Nil}
  BY <1>2, <1>3 DEF Spares
<1>5. access'[x.token] # Nil /\ refresh'[b] # Nil => refresh'[b].access = x.token
  BY <1>2, <1>4
<1>6. RenewedBy(x)' = b
  BY <1>1 DEF RenewedBy
<1> QED BY <1>2, <1>3, <1>5, <1>6 DEF Renewable

\* An answer of the implicit flow has no refresh token.
LEMMA SparesKeep ==
  ASSUME LiveInv, Spares, NEW x, x.via = "implicit",
         answers' = answers \/ answers' = answers \cup {x}
  PROVE  LiveInv'
<1>1. \A y \in answers' : Renewable(y)'
  BY SparedAreRenewable DEF Renewable
<1>2. OneLiveToken'
  <2> SUFFICES ASSUME NEW y \in answers', NEW z \in answers',
                      y.via # "implicit", z.via # "implicit", RenewedBy(y) = RenewedBy(z),
                      access'[y.token] # Nil, access'[z.token] # Nil
               PROVE  y = z
    BY DEF OneLiveToken, RenewedBy
  <2>1. y \in answers /\ z \in answers
    OBVIOUS
  <2>2. access[y.token] # Nil /\ access[z.token] # Nil
    BY <2>1 DEF Spares
  <2> QED BY <2>1, <2>2 DEF LiveInv, OneLiveToken
<1> QED BY <1>1, <1>2 DEF LiveInv

\* The tokens and the answers stay as they are.
LEMMA LiveStays ==
  ASSUME LiveInv, UNCHANGED <<access, refresh, answers>>
  PROVE  LiveInv'
BY DEF LiveInv, Renewable, RenewedBy, OneLiveToken

\* An answer x with a new token a, replacing all the live ones behind its
\* refresh token b.
LEMMA NewLive ==
  ASSUME Inv, LiveInv, NEW x, NEW a \in Unused, NEW b \in Token,
         x.via # "implicit", x.token = a, RenewedBy(x) = b,
         answers' = answers \cup {x}, \E z \in answers' : z.refresh = b,
         \A y \in answers : access'[y.token] \in {access[y.token], Nil},
         \A y \in answers : y.via # "implicit" /\ RenewedBy(y) = b => access'[y.token] = Nil,
         \A c \in Token \ {b} : refresh'[c] = refresh[c],
         refresh'[b].access = a
  PROVE  LiveInv'
<1>1. \A y \in answers' : Renewable(y)'
  <2>1. Renewable(x)'
    <3>1. RenewedBy(x)' = b
      BY DEF RenewedBy
    <3> QED BY <3>1 DEF Renewable
  <2>2. ASSUME NEW y \in answers, y.via # "implicit"
        PROVE  Renewable(y)'
    <3>1. PICK c : c = RenewedBy(y)
      OBVIOUS
    <3>2. /\ c \in Token /\ \E z \in answers : z.refresh = c
          /\ access[y.token] # Nil /\ refresh[c] # Nil => refresh[c].access = y.token
      BY <2>2, <3>1 DEF LiveInv, Renewable
    <3>3. access'[y.token] # Nil /\ refresh'[c] # Nil => refresh'[c].access = y.token
      <4>1. CASE c = b
        BY <2>2, <3>1, <4>1
      <4>2. CASE c # b
        BY <3>2, <4>2
      <4> QED BY <4>1, <4>2
    <3>4. RenewedBy(y)' = c
      BY <3>1 DEF RenewedBy
    <3> QED BY <3>2, <3>3, <3>4 DEF Renewable
  <2>3. \A y \in answers : Renewable(y)'
    BY <2>2 DEF Renewable
  <2> QED BY <2>1, <2>3
<1>2. OneLiveToken'
  <2> SUFFICES ASSUME NEW y \in answers', NEW z \in answers',
                      y.via # "implicit", z.via # "implicit", RenewedBy(y) = RenewedBy(z),
                      access'[y.token] # Nil, access'[z.token] # Nil
               PROVE  y = z
    BY DEF OneLiveToken, RenewedBy
  <2>1. CASE y \in answers /\ z \in answers
    <3>1. access[y.token] # Nil /\ access[z.token] # Nil
      BY <2>1
    <3> QED BY <2>1, <3>1 DEF LiveInv, OneLiveToken
  <2>2. CASE y = x \/ z = x
    BY <2>2
  <2> QED BY <2>1, <2>2
<1> QED BY <1>1, <1>2 DEF LiveInv

LEMMA AccessTokenIssueLive ==
  ASSUME Inv, LiveInv, NEW t \in Thread, NEW a \in Token, NEW b \in Token,
         AccessTokenIssue(t, a, b)
  PROVE  LiveInv'
<1>1. PICK g, req : g = run[t].m.grant /\ req = run[t].req
  OBVIOUS
<1>2. PICK x : x = [via |-> "code", req |-> req, client |-> AccessTokenNew(req).client,
                    grant |-> g, token |-> a, refresh |-> b]
  OBVIOUS
<1>3. /\ a \in Unused /\ b \in Unused
      /\ access' = [access EXCEPT ![a] = g]
      /\ refresh' = [refresh EXCEPT ![b] = [access |-> a, grant |-> g]]
      /\ answers' = answers \cup {x}
  BY <1>1, <1>2 DEF AccessTokenIssue, NewPair, NewToken, First, Answer
<1>4. x.via = "code" /\ x.token = a /\ x.refresh = b
  BY <1>2
<1>5. RenewedBy(x) = b
  BY <1>4 DEF RenewedBy
<1>6. \A y \in answers : y.token \in Token \ {a} /\ y.refresh # b
  BY <1>3 DEF Unused, Inv, TokenInv, Backed
<1>7. \A y \in answers : access'[y.token] = access[y.token]
  BY <1>3, <1>6 DEF Inv, TypeInv
<1>8. \A y \in answers : y.via # "implicit" => RenewedBy(y) # b
  BY <1>6 DEF LiveInv, Renewable
<1>9. refresh'[b].access = a /\ \A c \in Token \ {b} : refresh'[c] = refresh[c]
  BY <1>3 DEF Inv, TypeInv
<1> QED BY <1>3, <1>4, <1>5, <1>7, <1>8, <1>9, NewLive

LEMMA ImplicitIssueLive ==
  ASSUME Inv, LiveInv, NEW t \in Thread, NEW a \in Token, NEW b \in Token,
         ImplicitIssue(t, a, b)
  PROVE  LiveInv'
<1>1. PICK g, req : g = run[t].m.grant /\ req = run[t].req
  OBVIOUS
<1>2. PICK x : x = [via |-> "implicit", req |-> req, client |-> g.client,
                    grant |-> g, token |-> a, refresh |-> Nil]
  OBVIOUS
<1>3. /\ a \in Unused /\ b \in Unused
      /\ access' = [access EXCEPT ![a] = g]
      /\ refresh' = [refresh EXCEPT ![b] = [access |-> a, grant |-> g]]
      /\ answers' = answers \/ answers' = answers \cup {x}
  BY <1>1, <1>2 DEF ImplicitIssue, NewPair, NewToken, First, Answer
<1>4. x.via = "implicit"
  BY <1>2
<1>5. \A y \in answers : y.token \in Token \ {a} /\ y.refresh # b
  BY <1>3 DEF Unused, Inv, TokenInv, Backed
<1>6. Spares
  BY <1>3, <1>5 DEF Inv, TypeInv, Spares
<1> QED BY <1>3, <1>4, <1>6, SparesKeep

\* The entry of the refresh token names the only live token behind it, and
\* that one is removed.
LEMMA RefreshIssueLive ==
  ASSUME Inv, LiveInv, NEW t \in Thread, NEW a \in Token, RefreshIssue(t, a)
  PROVE  LiveInv'
<1>1. PICK g, req, b, e : /\ g = run[t].m.grant /\ req = run[t].req
                          /\ b = run[t].m.token /\ e = refresh[b]
  OBVIOUS
<1>2. PICK x : x = [via |-> "refresh", req |-> req, client |-> g.client,
                    grant |-> g, token |-> a, refresh |-> Nil]
  OBVIOUS
<1>3. /\ In(t, "refresh", "Issuing") /\ a \in Unused /\ e # Nil
      /\ access' = [access EXCEPT ![e.access] = Nil, ![a] = g]
      /\ refresh' = [refresh EXCEPT ![b] = [access |-> a, grant |-> g]]
      /\ answers' = answers \cup {x}
  BY <1>1, <1>2 DEF RefreshIssue, NewToken, First, Answer
<1>4. b \in Token /\ req.token = b /\ \E z \in answers : z.refresh = b
  BY <1>1, <1>3 DEF Inv, RunInv, RefreshRun, In
<1>5. x.via = "refresh" /\ x.req = req /\ x.token = a
  BY <1>2
<1>6. RenewedBy(x) = b
  BY <1>4, <1>5 DEF RenewedBy
<1>7. e.access \in Token
  BY <1>1, <1>3, <1>4 DEF Inv, TypeInv, Entry
<1>8. \A y \in answers : y.token \in Token \ {a}
  BY <1>3 DEF Unused, Inv, TokenInv, Backed
<1>9. \A y \in answers : /\ access'[y.token] \in {access[y.token], Nil}
                         /\ y.token = e.access => access'[y.token] = Nil
  BY <1>3, <1>7, <1>8 DEF Inv, TypeInv
<1>10. \A y \in answers : y.via # "implicit" /\ RenewedBy(y) = b => access'[y.token] = Nil
  <2> SUFFICES ASSUME NEW y \in answers, y.via # "implicit", RenewedBy(y) = b,
                      access[y.token] # Nil
               PROVE  access'[y.token] = Nil
    BY <1>9
  <2>1. e.access = y.token
    BY <1>1, <1>3 DEF LiveInv, Renewable
  <2> QED BY <1>9, <2>1
<1>11. refresh'[b].access = a /\ \A c \in Token \ {b} : refresh'[c] = refresh[c]
  BY <1>3, <1>4 DEF Inv, TypeInv
<1> QED BY <1>3, <1>4, <1>5, <1>6, <1>9, <1>10, <1>11, NewLive

\* A refresh that fails removes the entry, and perhaps the access token.
LEMMA RefreshBreaksLive ==
  ASSUME Inv, LiveInv, NEW t \in Thread, RefreshBreaks(t)
  PROVE  LiveInv'
<1>1. PICK b, e : b = run[t].m.token /\ e = refresh[b]
  OBVIOUS
<1>2. /\ refresh' = [refresh EXCEPT ![b] = Nil]
      /\ access' = access \/ access' = [access EXCEPT ![e.access] = Nil]
      /\ answers' = answers
  BY <1>1 DEF RefreshBreaks, history
<1>3. \A y \in answers : y.token \in Token
  BY DEF Inv, TokenInv, Backed
<1>4. Spares
  BY <1>2, <1>3 DEF Inv, TypeInv, Spares
<1>5. PICK x : x = [via |-> "implicit"]
  OBVIOUS
<1> QED BY <1>2, <1>4, <1>5, SparesKeep

LEMMA InitLive == Init => LiveInv
BY DEF Init, LiveInv, OneLiveToken

LEMMA NextLive == Inv /\ LiveInv /\ [Next]_vars => LiveInv'
<1> SUFFICES ASSUME Inv, LiveInv, [Next]_vars
             PROVE  LiveInv'
  OBVIOUS
<1>1. ASSUME NEW t \in Thread, AuthorizationStep(t)
      PROVE  UNCHANGED <<access, refresh, answers>>
  BY <1>1 DEF AuthorizationStep, AuthorizationCall, Begin, AuthorizationBind,
     AuthorizationExtend, AuthorizationNegotiate, Solicit, Authorize, store, history
<1>2. ASSUME NEW t \in Thread, AccessTokenStep(t)
      PROVE  LiveInv'
  <2>1. ASSUME NEW a \in Token, NEW b \in Token, AccessTokenIssue(t, a, b)
        PROVE  LiveInv'
    BY <2>1, AccessTokenIssueLive
  <2>2. ASSUME \A a, b \in Token : ~AccessTokenIssue(t, a, b)
        PROVE  UNCHANGED <<access, refresh, answers>>
    BY <1>2, <2>2 DEF AccessTokenStep, AccessTokenCall, Begin, AccessTokenAuthenticate,
       AccessTokenRecover, AccessTokenExtend, ExtractBreaks, store, history
  <2> QED BY <2>1, <2>2, LiveStays
<1>3. ASSUME NEW t \in Thread, RefreshStep(t)
      PROVE  LiveInv'
  <2>1. ASSUME NEW a \in Token, RefreshIssue(t, a)
        PROVE  LiveInv'
    BY <2>1, RefreshIssueLive
  <2>2. CASE RefreshBreaks(t)
    BY <2>2, RefreshBreaksLive
  <2>3. ASSUME \A a \in Token : ~RefreshIssue(t, a), ~RefreshBreaks(t)
        PROVE  UNCHANGED <<access, refresh, answers>>
    BY <1>3, <2>3 DEF RefreshStep, RefreshCall, Begin, RefreshAuthenticate, RefreshRecover,
       store, history
  <2> QED BY <2>1, <2>2, <2>3, LiveStays
<1>4. ASSUME NEW t \in Thread, ImplicitStep(t)
      PROVE  LiveInv'
  <2>1. ASSUME NEW a \in Token, NEW b \in Token, ImplicitIssue(t, a, b)
        PROVE  LiveInv'
    BY <2>1, ImplicitIssueLive
  <2>2. ASSUME \A a, b \in Token : ~ImplicitIssue(t, a, b)
        PROVE  UNCHANGED <<access, refresh, answers>>
    BY <1>4, <2>2 DEF ImplicitStep, ImplicitCall, Begin, ImplicitBind, ImplicitNegotiate,
       store, history
  <2> QED BY <2>1, <2>2, LiveStays
<1>5. ASSUME NEW t \in Thread, ResourceStep(t) \/ Fail(t)
      PROVE  UNCHANGED <<access, refresh, answers>>
  BY <1>5 DEF ResourceStep, ResourceCall, Begin, ResourceRecover, Fail, store, history
<1>6. ASSUME NEW r \in Registrations, RegisterClient(r[1], r[2])
      PROVE  UNCHANGED <<access, refresh, answers>>
  BY <1>6 DEF RegisterClient, store
<1>7. CASE Tick \/ UNCHANGED vars
  BY <1>7, LiveStays DEF Tick, vars, store, history
<1> QED BY <1>1, <1>2, <1>3, <1>4, <1>5, <1>6, <1>7, LiveStays DEF Next

\* A refresh replaces the token it renews: at most one of the access tokens
\* that came of one code opens a resource, however many refreshes overlap or
\* fail.
THEOREM RefreshesReplace == Spec => []OneLiveToken
<1>1. LiveInv => OneLiveToken
  BY DEF LiveInv
<1> QED BY <1>1, ServerInvariant, InitLive, NextLive, PTL DEF Spec

=============================================================================
