--------------------------- MODULE EndpointsProof ---------------------------
(***************************************************************************)
(* Theorems about the flows, for every set of web requests and messages, of  *)
(* parts, clients, grants and tokens, and any number of flows and requests   *)
(* one after another.                                                        *)
(***************************************************************************)
EXTENDS Endpoints, FiniteSetTheorems, SequenceTheorems, WellFoundedInduction, TLAPS

Flows == {"authorization", "accesstoken", "refresh", "resource"}

\* The stages of the four executors.
Stages(f) ==
  IF f = "authorization"
  THEN {"Binding", "Extending", "Negotiating", "Pending", "Authorizing",
        "TokenBind", "TokenNegotiate", "TokenIssue"}
  ELSE IF f = "accesstoken" THEN {"Authenticate", "Recover", "Extend", "Issue"}
  ELSE IF f = "refresh" THEN {"Authenticating", "Recovering", "CoAuthenticating", "Issuing"}
  ELSE {"Internalized", "Recovering"}

ImplicitStages == {"TokenBind", "TokenNegotiate", "TokenIssue"}

\* The issuer was asked for a token, and every failure is to be reported.
Issued == called \cap {"Issue", "Issuing"} # {}

Excused == fault => called \cap ImplicitStages # {}

----------------------------------------------------------------------------
(* The inductive invariant *)

FlowInv ==
  /\ adapter \in Adapter \cup {"any"}
  /\ flow \in Flows \cup {"none"} /\ pc \in {"idle", "run", "respond", "dead"}
  /\ flow = "none" => pc = "idle" /\ called = {}
  /\ flow # "none" => Needs(flow) \subseteq parts
  /\ pc = "dead" => flow = "authorization"
  /\ pc # "idle" => result = Nil

\* The web request has what the adapter found in the message; the body of iron
\* and rouille only until it was read.
Linked ==
  /\ object.header = IF TheHeader(http).scheme = "nontext" THEN NoHeader ELSE TheHeader(http)
  /\ object.body # Bad =>
       http.ctype = "form" \/ (adapter = "rouille" /\ http.ctype = "none")
  /\ IF adapter \in {"iron", "rouille"} /\ reads # 0 THEN object.body \in {<<>>, Bad, Nil}
     ELSE object.body \in {http.body, Bad, Nil}

ObjectInv ==
  object # Nil =>
    /\ object = WebRequest(object.query, object.body, object.header)
    /\ object.header \in Header
    /\ adapter # "any" => http \in Messages /\ Linked

\* What a request that is served has shown.
Served ==
  /\ web.body # Bad /\ web.header.scheme \in {"none", "Basic"}
  /\ adapter # "any" =>
       /\ http.body # Bad
       /\ http.ctype = "form" \/ (adapter = "rouille" /\ http.ctype = "none")
       /\ TheHeader(http).scheme \in {"none", "Basic", "nontext"}
       /\ adapter \in {"iron", "rouille"} => reads = 1

ServedInv ==
  flow \in {"accesstoken", "refresh"} /\ (pc = "run" \/ called # {}) => Served

\* The executor is at a stage of its flow, no primitive has failed and none
\* has issued a token.
StageInv == pc = "run" => m.at \in Stages(flow) /\ ~fault /\ ~Issued

Status == {"Ok", "Redirect", "BadRequest", "Unauthorized"}

\* The response that is being built will have this status.
Fresh == \E template \in Status : resp = Response(template)

Settled(status) ==
  /\ resp.status = status
  /\ resp.location <=> status = "Redirect"
  /\ resp.challenge <=> status = "Unauthorized"

ClientErrorReply == <<Make("BadRequest"), <<"client_error">>, <<"body_json">>>>

Writes(status) ==
  \/ status = "Ok" /\ todo = BearerReply
  \/ status = "Redirect" /\ todo = RedirectReply
  \/ status = "BadRequest" /\ todo = ClientErrorReply
  \/ status = "BadRequest" /\ todo = <<Make("Redirect"), Make("BadRequest"), <<"client_error">>,
                                       <<"body_json">>>>
  \/ status = "Unauthorized"
       /\ todo = <<Make("Unauthorized"), <<"unauthorized">>, <<"body_json">>>>
  \/ status = "Unauthorized"
       /\ \E template \in Status : todo = <<Make(template), <<"unauthorized">>>>
  \/ status = "Redirect" /\ todo = << <<"redirect">> >> /\ Fresh
  \/ status = "BadRequest" /\ todo = << <<"client_error">>, <<"body_json">> >> /\ Fresh
  \/ status = "Unauthorized" /\ todo = << <<"unauthorized">>, <<"body_json">> >> /\ Fresh
  \/ status = "Unauthorized" /\ todo = << <<"unauthorized">> >> /\ Fresh
  \/ todo = << <<"body_json">> >> /\ Settled(status)

\* A token flow answers Ok exactly if a token was issued.
Deserved(status) == flow \in {"accesstoken", "refresh"} => (status = "Ok" <=> Issued)

RespondInv ==
  pc = "respond" =>
    \/ todo = Give("PrimitiveError") /\ fault
    \/ Excused /\ \E what \in {"DenySilently", "Page", "Web", "Grant"} : todo = Give(what)
    \/ Excused /\ \E status \in Status : Writes(status) /\ Deserved(status)

\* What was returned.
ResultInv ==
  pc = "idle" =>
    /\ result = "Response" => \E status \in Status : Settled(status) /\ Deserved(status)
    /\ fault /\ called \cap ImplicitStages = {} => result = "PrimitiveError"
    /\ result = "PrimitiveError" => fault

Inv ==
  /\ FlowInv /\ ObjectInv /\ ServedInv /\ StageInv /\ RespondInv /\ ResultInv
  /\ SecretNeedsPermission

----------------------------------------------------------------------------
(* Parts *)

\* What the functions of frontends/simple give a flow is what prepare asks for.
LEMMA AdHocHasNeeds ==
  ASSUME NEW f \in Flows
  PROVE  Needs(f) \subseteq AdHocParts(f)
<1>1. CASE f = "authorization"
  <2>1. Needs(f) = {"registrar", "authorizer"}
    BY <1>1 DEF Needs
  <2>2. AdHocParts(f) = GenericParts({"registrar", "authorizer"})
    BY <1>1 DEF AdHocParts
  <2> QED BY <2>1, <2>2 DEF GenericParts
<1>2. CASE f = "accesstoken"
  <2>1. Needs(f) = {"registrar", "authorizer", "issuer"}
    BY <1>2 DEF Needs
  <2>2. AdHocParts(f) = GenericParts({"registrar", "authorizer", "issuer"})
    BY <1>2 DEF AdHocParts
  <2> QED BY <2>1, <2>2 DEF GenericParts
<1>3. CASE f = "refresh"
  <2>1. Needs(f) = {"registrar", "issuer"}
    BY <1>3 DEF Needs
  <2>2. AdHocParts(f) = GenericParts({"registrar", "issuer"})
    BY <1>3 DEF AdHocParts
  <2> QED BY <2>1, <2>2 DEF GenericParts
<1>4. CASE f = "resource"
  <2>1. Needs(f) = {"issuer", "scopes"}
    BY <1>4 DEF Needs
  <2>2. AdHocParts(f) = GenericParts({"issuer"})
    BY <1>4 DEF AdHocParts
  <2> QED BY <2>1, <2>2 DEF GenericParts
<1> QED BY <1>1, <1>2, <1>3, <1>4 DEF Flows

\* What prepare asks for is what the stages of the other flows unwrap.
LEMMA NeedsAreUsed ==
  ASSUME NEW f \in Flows, f # "authorization", NEW at \in Stages(f)
  PROVE  PartOf(at) \in Needs(f) \cup {Nil}
<1>1. CASE f = "accesstoken"
  <2>1. Needs(f) = {"registrar", "authorizer", "issuer"}
    BY <1>1 DEF Needs
  <2> QED BY <1>1, <2>1 DEF Stages, PartOf
<1>2. CASE f = "refresh"
  <2>1. Needs(f) = {"registrar", "issuer"}
    BY <1>2 DEF Needs
  <2> QED BY <1>2, <2>1 DEF Stages, PartOf
<1>3. CASE f = "resource"
  <2>1. Needs(f) = {"issuer", "scopes"}
    BY <1>3 DEF Needs
  <2> QED BY <1>3, <2>1 DEF Stages, PartOf
<1> QED BY <1>1, <1>2, <1>3 DEF Flows

----------------------------------------------------------------------------
(* Replies *)

LEMMA ConcatOneThree ==
  ASSUME NEW a, NEW b, NEW c, NEW d
  PROVE  <<a>> \o <<b, c, d>> = <<a, b, c, d>>
<1>1. PICK S, s, t, u : S = {a, b, c, d} /\ s = <<a>> /\ t = <<b, c, d>> /\ u = <<a, b, c, d>>
  OBVIOUS
<1>2. /\ s \in Seq(S) /\ t \in Seq(S) /\ u \in Seq(S)
      /\ Len(s) = 1 /\ Len(t) = 3 /\ Len(u) = 4
      /\ s[1] = u[1] /\ t[1] = u[2] /\ t[2] = u[3] /\ t[3] = u[4]
  BY <1>1
<1>3. /\ s \o t \in Seq(S) /\ Len(s \o t) = Len(s) + Len(t)
      /\ \A i \in 1 .. Len(s) + Len(t) :
           (s \o t)[i] = IF i <= Len(s) THEN s[i] ELSE t[i - Len(s)]
  BY <1>2, ConcatProperties, Zenon
<1>4. PICK v : v = s \o t
  OBVIOUS
<1>5. v \in Seq(S) /\ Len(v) = 4 /\ \A i \in 1..4 : v[i] = u[i]
  BY <1>2, <1>3, <1>4
<1>6. v = u
  BY <1>2, <1>5, SeqEqual
<1> QED BY <1>1, <1>4, <1>6

\* The errors that stand for a failure of the server.
Broken == {"Primitive", "PrimitiveError"}

\* A reply that tells the client what was wrong.
Refuses(reply) ==
  \/ reply = Give("DenySilently") /\ flow = "authorization"
  \/ reply = RedirectReply /\ flow = "authorization"
  \/ reply = ClientErrorReply
  \/ reply = <<Make("Unauthorized"), <<"unauthorized">>, <<"body_json">>>>
  \/ \E template \in Status : reply = <<Make(template), <<"unauthorized">>>>

LEMMA ErrorIsRefusal ==
  ASSUME NEW error, error \notin Broken
  PROVE  Refuses(ErrorReply(error))
<1>1. CASE flow = "authorization" /\ error \in {"Ignore", "Redirect"}
  <2>1. ErrorReply(error) = AuthorizationErrorReply(error)
    BY <1>1 DEF ErrorReply
  <2>2. CASE error = "Ignore"
    <3>1. AuthorizationErrorReply(error) = Give("DenySilently")
      BY <2>2 DEF AuthorizationErrorReply
    <3> QED BY <1>1, <2>1, <3>1 DEF Refuses
  <2>3. CASE error = "Redirect"
    <3>1. AuthorizationErrorReply(error) = RedirectReply
      BY <2>3 DEF AuthorizationErrorReply
    <3> QED BY <1>1, <2>1, <3>1 DEF Refuses
  <2> QED BY <1>1, <2>2, <2>3
<1>2. CASE flow = "resource"
  <2>1. ErrorReply(error) = DeniedReply(error)
    BY <1>2 DEF ErrorReply
  <2>2. \/ DeniedReply(error) = <<Make("BadRequest"), <<"unauthorized">>>>
        \/ DeniedReply(error) = <<Make("Unauthorized"), <<"unauthorized">>>>
    BY DEF DeniedReply, Broken
  <2> QED BY <2>1, <2>2 DEF Refuses, Status
<1>3. CASE flow # "resource" /\ ~(flow = "authorization" /\ error \in {"Ignore", "Redirect"})
  <2>1. ErrorReply(error) = TokenErrorReply(error)
    BY <1>3 DEF ErrorReply, Broken
  <2>2. \/ TokenErrorReply(error) = <<Make("Unauthorized"), <<"unauthorized">>, <<"body_json">>>>
        \/ TokenErrorReply(error) = ClientErrorReply
    BY DEF TokenErrorReply, ClientErrorReply, Broken
  <2> QED BY <2>1, <2>2 DEF Refuses
<1> QED BY <1>1, <1>2, <1>3

\* A reply to a client that has made a mistake, and gets no token.
LEMMA RefusalResponds ==
  ASSUME NEW reply, Refuses(reply), Return(reply), Excused', flow' = flow,
         flow \in {"accesstoken", "refresh"} => ~Issued'
  PROVE  RespondInv'
<1>1. todo' = reply
  BY DEF Return
<1>2. CASE reply = Give("DenySilently") /\ flow = "authorization"
  BY <1>1, <1>2 DEF RespondInv
<1>3. CASE reply = RedirectReply /\ flow = "authorization"
  <2>1. Writes("Redirect")' /\ Deserved("Redirect")'
    BY <1>1, <1>3 DEF Writes, Deserved
  <2> QED BY <2>1 DEF RespondInv, Status
<1>4. CASE reply = ClientErrorReply
  <2>1. Writes("BadRequest")' /\ Deserved("BadRequest")'
    BY <1>1, <1>4 DEF Writes, Deserved
  <2> QED BY <2>1 DEF RespondInv, Status
<1>5. CASE \/ reply = <<Make("Unauthorized"), <<"unauthorized">>, <<"body_json">>>>
           \/ \E template \in Status : reply = <<Make(template), <<"unauthorized">>>>
  <2>1. Writes("Unauthorized")' /\ Deserved("Unauthorized")'
    BY <1>1, <1>5 DEF Writes, Deserved
  <2> QED BY <2>1 DEF RespondInv, Status
<1> QED BY <1>2, <1>3, <1>4, <1>5 DEF Refuses

----------------------------------------------------------------------------
(* The start of the four executors *)

LEMMA PairHasTwo ==
  ASSUME NEW a, NEW b, a # b
  PROVE  Cardinality({a} \cup {b}) = 2
<1>1. IsFiniteSet({a}) /\ Cardinality({a}) = 1
  BY FS_Singleton
<1>2. Cardinality({a} \cup {b}) = Cardinality({a}) + 1
  BY <1>1, FS_AddElement
<1> QED BY <1>1, <1>2

LEMMA ChooseOfOne ==
  ASSUME NEW S, NEW a, S = {a}
  PROVE  (CHOOSE x \in S : TRUE) = a
OBVIOUS

\* The one set of credentials is that of the header or that of the body.
LEMMA CredentialShown ==
  ASSUME NEW r, Cardinality(Credentials(r)) = 1
  PROVE  LET cred == CHOOSE cred \in Credentials(r) : TRUE
         IN  \/ r.header # Nil /\ cred[2] = r.header[1] /\ cred[3] = r.header[2]
             \/ cred[3] = IF r.body THEN r.secret ELSE Nil
<1> DEFINE h == <<"header", r.header[1], r.header[2]>>
           b == <<"body", r.client, IF r.body THEN r.secret ELSE Nil>>
<1>1. h # b
  OBVIOUS
<1>2. CASE r.header = Nil /\ r.client = Nil
  <2>1. Credentials(r) = {}
    BY <1>2 DEF Credentials
  <2> QED BY <2>1, FS_EmptySet
<1>3. CASE r.header # Nil /\ r.client # Nil
  <2>1. Credentials(r) = {h} \cup {b}
    BY <1>3 DEF Credentials
  <2>2. Cardinality({h} \cup {b}) = 2
    BY <1>1, PairHasTwo
  <2> QED BY <2>1, <2>2
<1>4. CASE r.header = Nil /\ r.client # Nil
  <2>1. Credentials(r) = {b}
    BY <1>4 DEF Credentials
  <2>2. (CHOOSE cred \in Credentials(r) : TRUE) = b
    BY <2>1, ChooseOfOne
  <2>3. b[3] = IF r.body THEN r.secret ELSE Nil
    OBVIOUS
  <2> HIDE DEF b
  <2> QED BY <2>2, <2>3
<1>5. CASE r.header # Nil /\ r.client = Nil
  <2>1. Credentials(r) = {h}
    BY <1>5 DEF Credentials
  <2>2. (CHOOSE cred \in Credentials(r) : TRUE) = h
    BY <2>1, ChooseOfOne
  <2>3. h[2] = r.header[1] /\ h[3] = r.header[2]
    OBVIOUS
  <2> HIDE DEF h
  <2> QED BY <1>5, <2>2, <2>3
<1> QED BY <1>2, <1>3, <1>4, <1>5

\* Where a token request begins that is not refused at once.
Accepted(w) == Readable(w) /\ UniqueValue(w.body, "grant_type") # Nil

\* The passphrase in the machine came with the header, or was allowed.
Permitted(w, n) ==
  n.pass = Nil \/ allow \/ w.header = [scheme |-> "Basic", client |-> n.client, pass |-> n.pass]

Begins(w, n) ==
  \/ n.at = "Err" /\ n.error \notin Broken
  \/ /\ n.at \in Stages(flow)
     /\ flow \in {"accesstoken", "refresh"} => Accepted(w)
     /\ n.at = "Authenticate" => Permitted(w, n)

LEMMA AuthorizationBegins ==
  ASSUME flow = "authorization", NEW w
  PROVE  Begins(w, Start(Wrap(w)))
<1>1. PICK r : r = Wrap(w)
  OBVIOUS
<1>2. Start(r) = IF build = "sync" THEN StartByType(r) ELSE AuthorizationNew(r)
  BY DEF Start
<1>3. PICK n : n = Start(r)
  OBVIOUS
<1>4. \/ n.at = "Err" /\ n.error \notin Broken
      \/ n.at \in {"Binding", "TokenBind"}
  BY <1>2, <1>3 DEF StartByType, AuthorizationNew, Err, Broken
<1>5. Begins(w, n)
  BY <1>4 DEF Begins, Stages
<1> QED BY <1>1, <1>3, <1>5

LEMMA AccessTokenBegins ==
  ASSUME flow = "accesstoken", NEW w, w.header \in Header
  PROVE  Begins(w, Start(Wrap(w)))
<1>1. Wrap(w) = WrapAccessToken(w)
  BY DEF Wrap
<1>2. PICK r : r = WrapAccessToken(w)
  OBVIOUS
<1>3. /\ r.valid = Readable(w)
      /\ r.header = IF Readable(w) THEN Authorization(w) ELSE Nil
      /\ r.body = (Readable(w) /\ allow)
      /\ r.type = IF Readable(w) THEN UniqueValue(w.body, "grant_type") ELSE Nil
  BY <1>2 DEF WrapAccessToken
<1>4. Start(r) = AccessTokenNew(r)
  BY DEF Start
<1>5. PICK n : n = AccessTokenNew(r)
  OBVIOUS
<1>6. CASE n.at = "Err"
  <2>1. n.error \in {"Invalid", "UnsupportedGrantType"}
    BY <1>5, <1>6 DEF AccessTokenNew, Err
  <2> QED BY <1>1, <1>2, <1>4, <1>5, <1>6, <2>1 DEF Begins, Broken
<1>7. CASE n.at # "Err"
  <2> DEFINE cred == CHOOSE cred \in Credentials(r) : TRUE
  <2>1. /\ r.valid /\ r.type # Nil /\ Cardinality(Credentials(r)) = 1
        /\ n = [at |-> "Authenticate", client |-> cred[2], pass |-> cred[3],
                code |-> r.code, uri |-> ToUrl(r.uri)]
    BY <1>5, <1>7 DEF AccessTokenNew, Err
  <2>2. \/ r.header # Nil /\ cred[2] = r.header[1] /\ cred[3] = r.header[2]
        \/ cred[3] = IF r.body THEN r.secret ELSE Nil
    BY <2>1, CredentialShown
  <2> HIDE DEF cred
  <2>3. n.at = "Authenticate" /\ n.client = cred[2] /\ n.pass = cred[3]
    BY <2>1
  <2>4. Accepted(w)
    BY <1>3, <2>1 DEF Accepted
  <2>5. Permitted(w, n)
    <3>1. CASE r.header # Nil /\ cred[2] = r.header[1] /\ cred[3] = r.header[2]
      <4>1. w.header.scheme = "Basic" /\ r.header = <<w.header.client, w.header.pass>>
        BY <1>3, <3>1 DEF Authorization
      <4>2. w.header = [scheme |-> "Basic", client |-> w.header.client, pass |-> w.header.pass]
        BY <4>1 DEF Header
      <4> QED BY <2>3, <3>1, <4>1, <4>2 DEF Permitted
    <3>2. CASE cred[3] = IF r.body THEN r.secret ELSE Nil
      BY <1>3, <2>3, <3>2 DEF Permitted
    <3> QED BY <2>2, <3>1, <3>2
  <2>6. Begins(w, n)
    BY <2>3, <2>4, <2>5 DEF Begins, Stages
  <2> QED BY <1>1, <1>2, <1>4, <1>5, <2>6
<1> QED BY <1>6, <1>7

LEMMA RefreshBegins ==
  ASSUME flow = "refresh", NEW w
  PROVE  Begins(w, Start(Wrap(w)))
<1>1. Wrap(w) = WrapRefresh(w)
  BY DEF Wrap
<1>2. PICK r : r = WrapRefresh(w)
  OBVIOUS
<1>3. /\ r.valid = Readable(w)
      /\ r.type = IF Readable(w) THEN UniqueValue(w.body, "grant_type") ELSE Nil
  BY <1>2 DEF WrapRefresh
<1>4. Start(r) = RefreshNew(r)
  BY DEF Start
<1>5. PICK n : n = RefreshNew(r)
  OBVIOUS
<1>6. \/ n.at = "Err" /\ n.error \notin Broken
      \/ n.at \in {"Recovering", "Authenticating"} /\ r.valid /\ r.type # Nil
  BY <1>5 DEF RefreshNew, Err, Broken
<1>7. Begins(w, n)
  BY <1>3, <1>6 DEF Begins, Stages, Accepted
<1> QED BY <1>1, <1>2, <1>4, <1>5, <1>7

LEMMA ResourceBegins ==
  ASSUME flow = "resource", NEW w
  PROVE  Begins(w, Start(Wrap(w)))
<1>1. PICK r, in : r = Wrap(w) /\ in = [kind |-> "Request", request |-> r]
  OBVIOUS
<1>2. Start(r) = ResourceAdvance(ResourceNew, in, 0).m
  BY <1>1 DEF Start
<1>3. ResourceAdvance(ResourceNew, in, 0).m = ResourceValidate(r)
  BY <1>1 DEF ResourceAdvance, ResourceNew
<1>4. PICK n : n = ResourceValidate(r)
  OBVIOUS
<1>5. \/ n.at = "Err" /\ n.error \notin Broken
      \/ n.at = "Internalized"
  BY <1>4 DEF ResourceValidate, Err, Broken
<1>6. Begins(w, n)
  BY <1>5 DEF Begins, Stages
<1> QED BY <1>1, <1>2, <1>3, <1>4, <1>6

LEMMA FlowBegins ==
  ASSUME flow \in Flows, NEW w, w.header \in Header
  PROVE  Begins(w, Start(Wrap(w)))
BY AuthorizationBegins, AccessTokenBegins, RefreshBegins, ResourceBegins DEF Flows

----------------------------------------------------------------------------
(* Repeated parameters.  What the two loops compute is shown by looking for  *)
(* the first round after which it would be wrong.                            *)

\* A nonempty set of naturals has a least element.
LEMMA LeastOf ==
  ASSUME NEW T, T \subseteq Nat, T # {}
  PROVE  \E n \in T : \A k \in T : n <= k
<1> DEFINE R == {ss \in Nat \X Nat : ss[1] < ss[2]}
<1>1. IsWellFoundedOn(R, Nat)
  BY NatLessThanWellFounded DEF OpToRel
<1>2. PICK n \in T : \A k \in T : <<k, n>> \notin R
  BY <1>1, WFMin
<1>3. ASSUME NEW k \in T PROVE n <= k
  <2>1. k \in Nat /\ n \in Nat /\ <<k, n>> \notin R
    BY <1>2
  <2>2. ~(k < n)
    BY <2>1
  <2> QED BY <2>1, <2>2
<1> QED BY <1>3

\* What holds at 0 and is passed on holds up to N: the rounds in which it
\* fails have no first one.
LEMMA RoundByRound ==
  ASSUME NEW N \in Nat, NEW T, T \subseteq 0 .. N, 0 \notin T,
         \A n \in 1 .. N : n \in T => n - 1 \in T
  PROVE  T = {}
<1>1. SUFFICES ASSUME T # {} PROVE FALSE
  OBVIOUS
<1>2. T \subseteq Nat
  OBVIOUS
<1>3. PICK n \in T : \A k \in T : n <= k
  BY <1>1, <1>2, LeastOf
<1>4. n \in 1 .. N
  BY <1>3
<1>5. n - 1 \in T
  BY <1>4
<1> QED BY <1>3, <1>4, <1>5

\* The maps after each of the first N rounds of the loop of insert_or_poison.
Inserted(after, pairs, N) ==
  after = [n \in 0 .. N |-> IF n = 0 THEN <<>> ELSE InsertOrPoison(after[n - 1], pairs[n])]

LEMMA InsertedExists ==
  ASSUME NEW pairs, NEW N \in Nat
  PROVE  \E after : Inserted(after, pairs, N)
<1> DEFINE T == {n \in 0 .. N : ~\E after : Inserted(after, pairs, n)}
<1>1. 0 \notin T
  <2>1. PICK f : f = [n \in 0 .. 0 |-> <<>>]
    OBVIOUS
  <2>2. Inserted(f, pairs, 0)
    BY <2>1 DEF Inserted
  <2> QED BY <2>2
<1>2. ASSUME NEW n \in 1 .. N, n - 1 \notin T PROVE n \notin T
  <2>1. PICK f : Inserted(f, pairs, n - 1)
    BY <1>2
  <2>2. PICK v : v = InsertOrPoison(f[n - 1], pairs[n])
    OBVIOUS
  <2>3. PICK g : g = [k \in 0 .. n |-> IF k = n THEN v ELSE f[k]]
    OBVIOUS
  <2>4. \A k \in 0 .. n - 1 : g[k] = f[k]
    BY <2>3
  <2>5. \A k \in 0 .. n - 1 : f[k] = IF k = 0 THEN <<>> ELSE InsertOrPoison(f[k - 1], pairs[k])
    BY <2>1 DEF Inserted
  <2>6. ASSUME NEW k \in 0 .. n
        PROVE  g[k] = IF k = 0 THEN <<>> ELSE InsertOrPoison(g[k - 1], pairs[k])
    <3>1. CASE k = n
      BY <2>2, <2>3, <2>4, <3>1
    <3>2. CASE k # n
      <4>1. k \in 0 .. n - 1 /\ (k # 0 => k - 1 \in 0 .. n - 1)
        BY <3>2
      <4> QED BY <2>4, <2>5, <4>1
    <3> QED BY <3>1, <3>2
  <2>7. Inserted(g, pairs, n)
    BY <2>3, <2>6 DEF Inserted
  <2> QED BY <2>7
<1> HIDE DEF T
<1>3. T = {}
  <2>1. T \subseteq 0 .. N
    BY DEF T
  <2> QED BY <1>1, <1>2, <2>1, RoundByRound
<1> QED BY <1>3 DEF T

\* The loop's own: its last map is the result.
LEMMA NormalizeIsInserted ==
  ASSUME NEW pairs, Len(pairs) \in Nat
  PROVE  \E after : Inserted(after, pairs, Len(pairs)) /\ Normalize(pairs) = after[Len(pairs)]
<1>1. \E after : Inserted(after, pairs, Len(pairs))
  BY InsertedExists
<1>2. PICK f : f = CHOOSE after : Inserted(after, pairs, Len(pairs))
  OBVIOUS
<1>3. Inserted(f, pairs, Len(pairs))
  BY <1>1, <1>2
<1>4. Normalize(pairs) = f[Len(pairs)]
  BY <1>2 DEF Normalize, Inserted
<1> QED BY <1>3, <1>4

\* The only one of the first N pairs with its key.
Only(pairs, N, i) == i \in 1 .. N /\ \A j \in 1 .. N : pairs[j][1] = pairs[i][1] => j = i

\* v is what the first N pairs say of the key: the value of the only one with
\* it, and nothing if there is none or more than one.
Says(pairs, N, key, v) ==
  IF \E i \in 1 .. N : pairs[i][1] = key /\ Only(pairs, N, i)
  THEN \E i \in 1 .. N : pairs[i][1] = key /\ Only(pairs, N, i) /\ v = pairs[i][2]
  ELSE v = Nil

LEMMA SaysOneValue ==
  ASSUME NEW pairs, NEW N, NEW key, NEW v, NEW u, Says(pairs, N, key, v), Says(pairs, N, key, u)
  PROVE  v = u
BY DEF Says, Only

\* The map after N rounds has the keys of the first N pairs, with what they say.
Collects(params, pairs, N) ==
  \A key : /\ key \in DOMAIN params <=> \E i \in 1 .. N : pairs[i][1] = key
           /\ key \in DOMAIN params => Says(pairs, N, key, params[key])

LEMMA InsertCollects ==
  ASSUME NEW pairs, NEW n \in Nat \ {0}, NEW params, Collects(params, pairs, n - 1)
  PROVE  Collects(InsertOrPoison(params, pairs[n]), pairs, n)
<1>1. PICK name, val, next :
        name = pairs[n][1] /\ val = pairs[n][2] /\ next = InsertOrPoison(params, pairs[n])
  OBVIOUS
<1>2. /\ DOMAIN next = DOMAIN params \cup {name}
      /\ \A key \in DOMAIN next :
           next[key] = IF key # name THEN params[key] ELSE IF name \in DOMAIN params THEN Nil ELSE val
  BY <1>1 DEF InsertOrPoison
<1>3. 1 .. n = (1 .. n - 1) \cup {n} /\ n \notin 1 .. n - 1
  OBVIOUS
<1>4. SUFFICES ASSUME NEW key
               PROVE  /\ key \in DOMAIN next <=> \E i \in 1 .. n : pairs[i][1] = key
                      /\ key \in DOMAIN next => Says(pairs, n, key, next[key])
  BY <1>1 DEF Collects
<1>5. /\ key \in DOMAIN params <=> \E i \in 1 .. n - 1 : pairs[i][1] = key
      /\ key \in DOMAIN params => Says(pairs, n - 1, key, params[key])
  BY DEF Collects
<1>6. key \in DOMAIN next <=> \E i \in 1 .. n : pairs[i][1] = key
  BY <1>1, <1>2, <1>3, <1>5
<1>7. ASSUME key \in DOMAIN next PROVE Says(pairs, n, key, next[key])
  <2>1. CASE key # name
    <3>1. \A i \in 1 .. n : pairs[i][1] = key => (Only(pairs, n, i) <=> Only(pairs, n - 1, i))
      BY <1>1, <1>3, <2>1 DEF Only
    <3>2. next[key] = params[key] /\ key \in DOMAIN params
      BY <1>2, <1>7, <2>1
    <3> QED BY <1>1, <1>3, <1>5, <2>1, <3>1, <3>2 DEF Says
  <2>2. CASE key = name /\ name \in DOMAIN params
    <3>1. PICK j \in 1 .. n - 1 : pairs[j][1] = name
      BY <1>5, <2>2
    <3>2. \A i \in 1 .. n : pairs[i][1] = key => ~Only(pairs, n, i)
      BY <1>1, <1>3, <2>2, <3>1 DEF Only
    <3>3. next[key] = Nil
      BY <1>2, <1>7, <2>2
    <3> QED BY <3>2, <3>3 DEF Says
  <2>3. CASE key = name /\ name \notin DOMAIN params
    <3>1. Only(pairs, n, n) /\ pairs[n][1] = key /\ n \in 1 .. n
      BY <1>1, <1>3, <1>5, <2>3 DEF Only
    <3>2. next[key] = pairs[n][2]
      BY <1>1, <1>2, <1>7, <2>3
    <3> QED BY <3>1, <3>2 DEF Says
  <2> QED BY <2>1, <2>2, <2>3
<1> QED BY <1>6, <1>7

\* What NormalizedParameter answers is what the pairs say.
LEMMA NormalizedSays ==
  ASSUME NEW pairs, Len(pairs) \in Nat, NEW key
  PROVE  Says(pairs, Len(pairs), key, UniqueInNormalized(Normalize(pairs), key))
<1>1. PICK N \in Nat : N = Len(pairs)
  OBVIOUS
<1>2. PICK after : Inserted(after, pairs, N) /\ Normalize(pairs) = after[N]
  BY <1>1, NormalizeIsInserted
<1>3. \A n \in 0 .. N : after[n] = IF n = 0 THEN <<>> ELSE InsertOrPoison(after[n - 1], pairs[n])
  BY <1>2 DEF Inserted
<1> DEFINE T == {n \in 0 .. N : ~Collects(after[n], pairs, n)}
<1>4. 0 \notin T
  <2>1. after[0] = <<>> /\ DOMAIN <<>> = {} /\ 1 .. 0 = {}
    BY <1>3
  <2> QED BY <2>1 DEF Collects
<1>5. ASSUME NEW n \in 1 .. N, n - 1 \notin T PROVE n \notin T
  <2>1. Collects(after[n - 1], pairs, n - 1)
    BY <1>5
  <2>2. after[n] = InsertOrPoison(after[n - 1], pairs[n])
    BY <1>3
  <2>3. Collects(InsertOrPoison(after[n - 1], pairs[n]), pairs, n)
    BY <2>1, InsertCollects
  <2> QED BY <2>2, <2>3
<1>6. T \subseteq 0 .. N
  OBVIOUS
<1>7. N \notin T
  <2> HIDE DEF T
  <2>1. T = {}
    BY <1>4, <1>5, <1>6, RoundByRound
  <2> QED BY <2>1
<1>8. Collects(Normalize(pairs), pairs, N)
  BY <1>2, <1>7
<1> QED BY <1>1, <1>8 DEF Collects, UniqueInNormalized, Says

\* There is one pair with the key if one of them is the only one.
LEMMA OneIsOnly ==
  ASSUME NEW pairs, Len(pairs) \in Nat, DOMAIN pairs = 1 .. Len(pairs), NEW key
  PROVE  Cardinality(At(pairs, key)) = 1
           <=> \E i \in 1 .. Len(pairs) : At(pairs, key) = {i} /\ Only(pairs, Len(pairs), i)
<1>1. IsFiniteSet(1 .. Len(pairs))
  BY FS_Interval
<1>2. At(pairs, key) \subseteq 1 .. Len(pairs)
  BY DEF At
<1>3. IsFiniteSet(At(pairs, key))
  BY <1>1, <1>2, FS_Subset
<1>4. Cardinality(At(pairs, key)) = 1 <=> \E i : At(pairs, key) = {i}
  BY <1>3, FS_Singleton
<1>5. ASSUME NEW i, At(pairs, key) = {i} PROVE i \in 1 .. Len(pairs) /\ Only(pairs, Len(pairs), i)
  BY <1>2, <1>5 DEF At, Only
<1> QED BY <1>4, <1>5

\* The only one of its key.
LEMMA OnlyIsOne ==
  ASSUME NEW pairs, Len(pairs) \in Nat, DOMAIN pairs = 1 .. Len(pairs), NEW i \in 1 .. Len(pairs)
  PROVE  Cardinality(At(pairs, pairs[i][1])) = 1 <=> Only(pairs, Len(pairs), i)
<1>1. i \in At(pairs, pairs[i][1])
  BY DEF At
<1>2. Only(pairs, Len(pairs), i) => At(pairs, pairs[i][1]) = {i}
  BY <1>1 DEF At, Only
<1> QED BY <1>1, <1>2, OneIsOnly

\* What the vector of pairs answers is what they say.
LEMMA PairsSay ==
  ASSUME NEW pairs, Len(pairs) \in Nat, DOMAIN pairs = 1 .. Len(pairs), NEW key
  PROVE  Says(pairs, Len(pairs), key, UniqueInPairs(pairs, key))
<1>1. CASE Cardinality(At(pairs, key)) = 1
  <2>1. PICK i \in 1 .. Len(pairs) : At(pairs, key) = {i} /\ Only(pairs, Len(pairs), i)
    BY <1>1, OneIsOnly
  <2>2. (CHOOSE j \in At(pairs, key) : TRUE) = i
    BY <2>1, ChooseOfOne
  <2>3. UniqueInPairs(pairs, key) = pairs[i][2]
    BY <1>1, <2>2 DEF UniqueInPairs
  <2>4. pairs[i][1] = key
    BY <2>1 DEF At
  <2> QED BY <2>1, <2>3, <2>4 DEF Says
<1>2. CASE Cardinality(At(pairs, key)) # 1
  <2>1. UniqueInPairs(pairs, key) = Nil
    BY <1>2 DEF UniqueInPairs
  <2>2. \A i \in 1 .. Len(pairs) : pairs[i][1] = key => ~Only(pairs, Len(pairs), i)
    BY <1>2, OnlyIsOne
  <2> QED BY <2>1, <2>2 DEF Says
<1> QED BY <1>1, <1>2

\* The two representations of the parameters agree: what unique_value of a
\* vector of pairs, which the sync flows ask, answers is what a
\* NormalizedParameter made of the same pairs answers, which the async flows
\* and the adapters use.
THEOREM RepresentationsAgree ==
  ASSUME NEW pairs \in Seq(Pair), NEW key
  PROVE  UniqueInNormalized(Normalize(pairs), key) = UniqueInPairs(pairs, key)
<1>1. Len(pairs) \in Nat /\ DOMAIN pairs = 1 .. Len(pairs)
  OBVIOUS
<1>2. /\ Says(pairs, Len(pairs), key, UniqueInNormalized(Normalize(pairs), key))
      /\ Says(pairs, Len(pairs), key, UniqueInPairs(pairs, key))
  BY <1>1, NormalizedSays, PairsSay
<1> QED BY <1>2, SaysOneValue

\* What Once keeps of the first n pairs.
Kept(kept, pairs, N) ==
  kept = [n \in 0 .. N |->
            IF n = 0 THEN <<>>
            ELSE IF Cardinality(At(pairs, pairs[n][1])) = 1 THEN Append(kept[n - 1], pairs[n])
            ELSE kept[n - 1]]

LEMMA KeptExists ==
  ASSUME NEW pairs, NEW N \in Nat
  PROVE  \E kept : Kept(kept, pairs, N)
<1> DEFINE step(last, n) == IF Cardinality(At(pairs, pairs[n][1])) = 1
                            THEN Append(last, pairs[n]) ELSE last
           T == {n \in 0 .. N : ~\E kept : Kept(kept, pairs, n)}
<1>1. \A f, n : Kept(f, pairs, n) <=>
                  f = [k \in 0 .. n |-> IF k = 0 THEN <<>> ELSE step(f[k - 1], k)]
  BY DEF Kept
<1> HIDE DEF step
<1>2. 0 \notin T
  <2>1. PICK f : f = [n \in 0 .. 0 |-> <<>>]
    OBVIOUS
  <2>2. f = [k \in 0 .. 0 |-> IF k = 0 THEN <<>> ELSE step(f[k - 1], k)]
    BY <2>1
  <2>3. Kept(f, pairs, 0)
    BY <1>1, <2>2, Zenon
  <2> QED BY <2>3
<1>3. ASSUME NEW n \in 1 .. N, n - 1 \notin T PROVE n \notin T
  <2>1. PICK f : Kept(f, pairs, n - 1)
    BY <1>3
  <2>2. PICK v : v = step(f[n - 1], n)
    OBVIOUS
  <2>3. PICK g : g = [k \in 0 .. n |-> IF k = n THEN v ELSE f[k]]
    OBVIOUS
  <2>4. \A k \in 0 .. n - 1 : g[k] = f[k]
    BY <2>3
  <2>5. \A k \in 0 .. n - 1 : f[k] = IF k = 0 THEN <<>> ELSE step(f[k - 1], k)
    BY <1>1, <2>1
  <2>6. ASSUME NEW k \in 0 .. n
        PROVE  g[k] = IF k = 0 THEN <<>> ELSE step(g[k - 1], k)
    <3>1. CASE k = n
      BY <2>2, <2>3, <2>4, <3>1
    <3>2. CASE k # n
      <4>1. k \in 0 .. n - 1 /\ (k # 0 => k - 1 \in 0 .. n - 1)
        BY <3>2
      <4> QED BY <2>4, <2>5, <4>1
    <3> QED BY <3>1, <3>2
  <2>7. Kept(g, pairs, n)
    BY <1>1, <2>3, <2>6
  <2> QED BY <2>7
<1> HIDE DEF T
<1>4. T = {}
  <2>1. T \subseteq 0 .. N
    BY DEF T
  <2> QED BY <1>2, <1>3, <2>1, RoundByRound
<1> QED BY <1>4 DEF T

LEMMA OnceIsKept ==
  ASSUME NEW pairs, pairs # Bad, Len(pairs) \in Nat
  PROVE  \E kept : Kept(kept, pairs, Len(pairs)) /\ Once(pairs) = kept[Len(pairs)]
<1>1. \E kept : Kept(kept, pairs, Len(pairs))
  BY KeptExists
<1>2. PICK f : f = CHOOSE kept : Kept(kept, pairs, Len(pairs))
  OBVIOUS
<1>3. Kept(f, pairs, Len(pairs))
  BY <1>1, <1>2
<1>4. Once(pairs) = f[Len(pairs)]
  BY <1>2 DEF Once, Kept
<1> QED BY <1>3, <1>4

\* rest has, of the first n pairs, those that are the only ones of their key
\* among all, and no key twice.
Keeps(rest, pairs, n) ==
  /\ rest \in Seq(Pair)
  /\ \A a \in 1 .. Len(rest) :
       \E i \in 1 .. n : Only(pairs, Len(pairs), i) /\ rest[a] = pairs[i]
  /\ \A i \in 1 .. n : Only(pairs, Len(pairs), i) => \E a \in 1 .. Len(rest) : rest[a] = pairs[i]
  /\ \A a, b \in 1 .. Len(rest) : rest[a][1] = rest[b][1] => a = b

LEMMA AppendKeeps ==
  ASSUME NEW pairs \in Seq(Pair), NEW n \in 1 .. Len(pairs), NEW rest, Keeps(rest, pairs, n - 1)
  PROVE  Keeps(IF Only(pairs, Len(pairs), n) THEN Append(rest, pairs[n]) ELSE rest, pairs, n)
<1>1. rest \in Seq(Pair) /\ Len(rest) \in Nat /\ Len(pairs) \in Nat /\ pairs[n] \in Pair
  BY DEF Keeps
<1>2. 1 .. n = (1 .. n - 1) \cup {n}
  BY <1>1
<1>3. CASE ~Only(pairs, Len(pairs), n)
  BY <1>2, <1>3 DEF Keeps
<1>4. CASE Only(pairs, Len(pairs), n)
  <2>1. PICK L, more : L = Len(rest) + 1 /\ more = Append(rest, pairs[n])
    OBVIOUS
  <2>2. /\ more \in Seq(Pair) /\ Len(more) = L /\ more[L] = pairs[n]
        /\ \A a \in 1 .. Len(rest) : more[a] = rest[a]
    BY <1>1, <2>1
  <2>3. 1 .. L = (1 .. Len(rest)) \cup {L} /\ L \notin 1 .. Len(rest)
    BY <1>1, <2>1
  <2>4. \A a \in 1 .. Len(rest) : rest[a][1] # pairs[n][1]
    <3>1. SUFFICES ASSUME NEW a \in 1 .. Len(rest), rest[a][1] = pairs[n][1] PROVE FALSE
      OBVIOUS
    <3>2. PICK i \in 1 .. n - 1 : rest[a] = pairs[i]
      BY DEF Keeps
    <3> QED BY <1>1, <1>4, <3>1, <3>2 DEF Only
  <2>5. ASSUME NEW a \in 1 .. L
        PROVE  \E i \in 1 .. n : Only(pairs, Len(pairs), i) /\ more[a] = pairs[i]
    <3>1. CASE a = L
      BY <1>2, <1>4, <2>2, <3>1
    <3>2. CASE a \in 1 .. Len(rest)
      BY <1>2, <2>2, <3>2 DEF Keeps
    <3> QED BY <2>3, <3>1, <3>2
  <2>6. ASSUME NEW i \in 1 .. n, Only(pairs, Len(pairs), i)
        PROVE  \E a \in 1 .. L : more[a] = pairs[i]
    <3>1. CASE i = n
      BY <2>2, <2>3, <3>1
    <3>2. CASE i \in 1 .. n - 1
      <4>1. PICK a \in 1 .. Len(rest) : rest[a] = pairs[i]
        BY <2>6, <3>2 DEF Keeps
      <4> QED BY <2>2, <2>3, <4>1
    <3> QED BY <1>2, <3>1, <3>2
  <2>7. ASSUME NEW a \in 1 .. L, NEW b \in 1 .. L, more[a][1] = more[b][1] PROVE a = b
    <3>1. CASE a \in 1 .. Len(rest) /\ b \in 1 .. Len(rest)
      BY <2>2, <2>7, <3>1 DEF Keeps
    <3>2. CASE a \in 1 .. Len(rest) /\ b = L
      BY <2>2, <2>4, <2>7, <3>2
    <3>3. CASE b \in 1 .. Len(rest) /\ a = L
      BY <2>2, <2>4, <2>7, <3>3
    <3> QED BY <2>3, <3>1, <3>2, <3>3
  <2>8. Keeps(more, pairs, n)
    BY <2>2, <2>5, <2>6, <2>7 DEF Keeps
  <2> QED BY <1>4, <2>1, <2>8
<1> QED BY <1>3, <1>4

LEMMA OnceKeeps ==
  ASSUME NEW pairs \in Seq(Pair), pairs # Bad
  PROVE  Keeps(Once(pairs), pairs, Len(pairs))
<1>1. PICK N \in Nat : N = Len(pairs)
  OBVIOUS
<1>2. PICK kept : Kept(kept, pairs, N) /\ Once(pairs) = kept[N]
  BY <1>1, OnceIsKept
<1>3. DOMAIN pairs = 1 .. Len(pairs) /\ Len(pairs) \in Nat
  OBVIOUS
<1>4. /\ kept[0] = <<>>
      /\ \A n \in 1 .. N :
           kept[n] = IF Only(pairs, N, n) THEN Append(kept[n - 1], pairs[n]) ELSE kept[n - 1]
  <2>1. \A n \in 1 .. N : Cardinality(At(pairs, pairs[n][1])) = 1 <=> Only(pairs, N, n)
    BY <1>1, <1>3, OnlyIsOne
  <2>2. kept[0] = <<>>
    BY <1>2 DEF Kept
  <2>3. ASSUME NEW n \in 1 .. N
        PROVE  kept[n] = IF Cardinality(At(pairs, pairs[n][1])) = 1
                         THEN Append(kept[n - 1], pairs[n]) ELSE kept[n - 1]
    <3>1. n \in 0 .. N /\ n # 0
      OBVIOUS
    <3> QED BY <1>2, <3>1, Zenon DEF Kept
  <2> QED BY <2>1, <2>2, <2>3
<1> DEFINE T == {n \in 0 .. N : ~Keeps(kept[n], pairs, n)}
<1>5. 0 \notin T
  <2>1. kept[0] = <<>> /\ <<>> \in Seq(Pair) /\ Len(<<>>) = 0 /\ 1 .. 0 = {}
    BY <1>4
  <2> QED BY <2>1 DEF Keeps
<1>6. ASSUME NEW n \in 1 .. N, n - 1 \notin T PROVE n \notin T
  <2>1. Keeps(kept[n - 1], pairs, n - 1)
    BY <1>6
  <2>2. Keeps(IF Only(pairs, N, n) THEN Append(kept[n - 1], pairs[n]) ELSE kept[n - 1], pairs, n)
    BY <1>1, <2>1, AppendKeeps
  <2>3. Keeps(kept[n], pairs, n)
    BY <1>4, <2>2
  <2> QED BY <2>3
<1>7. T \subseteq 0 .. N
  OBVIOUS
<1>8. N \notin T
  <2> HIDE DEF T
  <2>1. T = {}
    BY <1>5, <1>6, <1>7, RoundByRound
  <2> QED BY <2>1
<1> QED BY <1>1, <1>2, <1>8

\* Leaving out the repeated ones changes nothing of what the pairs say.
LEMMA OnceSaysTheSame ==
  ASSUME NEW pairs \in Seq(Pair), pairs # Bad, NEW key, NEW v
  PROVE  Says(Once(pairs), Len(Once(pairs)), key, v) => Says(pairs, Len(pairs), key, v)
<1>1. PICK rest : rest = Once(pairs)
  OBVIOUS
<1>2. Keeps(rest, pairs, Len(pairs))
  BY <1>1, OnceKeeps
<1>3. SUFFICES ASSUME Says(rest, Len(rest), key, v) PROVE Says(pairs, Len(pairs), key, v)
  BY <1>1
<1>4. CASE \E a \in 1 .. Len(rest) : rest[a][1] = key /\ Only(rest, Len(rest), a)
  <2>1. PICK a \in 1 .. Len(rest) : rest[a][1] = key /\ v = rest[a][2]
    BY <1>3, <1>4 DEF Says
  <2>2. PICK i \in 1 .. Len(pairs) : Only(pairs, Len(pairs), i) /\ rest[a] = pairs[i]
    BY <1>2 DEF Keeps
  <2> QED BY <2>1, <2>2 DEF Says
<1>5. CASE ~\E a \in 1 .. Len(rest) : rest[a][1] = key /\ Only(rest, Len(rest), a)
  <2>1. v = Nil
    BY <1>3, <1>5 DEF Says
  <2>2. ASSUME NEW i \in 1 .. Len(pairs), pairs[i][1] = key, Only(pairs, Len(pairs), i)
        PROVE  FALSE
    <3>1. PICK a \in 1 .. Len(rest) : rest[a] = pairs[i]
      BY <1>2, <2>2 DEF Keeps
    <3>2. Only(rest, Len(rest), a)
      BY <1>2 DEF Keeps, Only
    <3> QED BY <1>5, <2>2, <3>1, <3>2
  <2> QED BY <2>1, <2>2 DEF Says
<1> QED BY <1>4, <1>5

\* A body that has been read is empty and says no grant_type.
LEMMA EmptyBodyIsRefused ==
  ASSUME NEW w, w.body = <<>>, adapter # "any"
  PROVE  ~Accepted(w)
<1>1. Len(<<>>) = 0 /\ 1 .. 0 = {}
  OBVIOUS
<1>2. Says(<<>>, 0, "grant_type", UniqueInNormalized(Normalize(<<>>), "grant_type"))
  BY <1>1, NormalizedSays
<1>3. UniqueInNormalized(Normalize(<<>>), "grant_type") = Nil
  BY <1>1, <1>2 DEF Says
<1> QED BY <1>3 DEF Accepted, UniqueValue

----------------------------------------------------------------------------
(* The executors: what an answer of a primitive leads to *)

TokenFlow == flow \in {"accesstoken", "refresh"}

\* The executor refuses the request, is done, or goes on.
Moves(step) ==
  \/ /\ step.out.kind = "Err" /\ step.out.error \notin Broken
     /\ m.at \notin {"Issue", "Issuing"}
  \/ /\ step.out.kind = "Ok" /\ step.m.at # "Pending"
     /\ flow = "authorization" => m.at \in {"TokenIssue", "Authorizing"}
     /\ TokenFlow => m.at \in {"Issue", "Issuing"}
  \/ /\ step.out.kind \notin {"Err", "Ok"} \/ (step.out.kind = "Ok" /\ step.m.at = "Pending")
     /\ step.m.at \in Stages(flow) \ {"Authenticate"}
     /\ m.at \notin {"Issue", "Issuing"}

LEMMA AuthorizationOutputs ==
  ASSUME NEW n
  PROVE  /\ n.at = "Err" =>
              AuthorizationOutput(n).kind = "Err" /\ AuthorizationOutput(n).error = n.error
         /\ n.at \in {"Extending", "Negotiating"} =>
              AuthorizationOutput(n).kind \notin {"Err", "Ok"}
         /\ n.at = "Pending" => AuthorizationOutput(n).kind = "Ok"
<1>1. n.at = "Err" => AuthorizationOutput(n) = OutErr(n.error)
  BY DEF AuthorizationOutput
<1>2. n.at = "Extending" => AuthorizationOutput(n) = [kind |-> "Extend"]
  BY DEF AuthorizationOutput
<1>3. n.at = "Negotiating" =>
        AuthorizationOutput(n)
          = [kind |-> "Negotiate", client |-> n.client, uri |-> n.uri, scope |-> n.scope]
  BY DEF AuthorizationOutput
<1>4. n.at = "Pending" => AuthorizationOutput(n) = [kind |-> "Ok", pre |-> n.pre, ext |-> n.ext]
  BY DEF AuthorizationOutput
<1> QED BY <1>1, <1>2, <1>3, <1>4 DEF OutErr

LEMMA DirectMoves ==
  ASSUME flow = "authorization", NEW in, NEW now, in = None,
         m.at \in ImplicitStages \cup {"Authorizing"}
  PROVE  Moves(Advance(in, now))
<1>1. Advance(in, now) = DirectAdvance
  BY DEF Advance
<1>2. PICK step : step = DirectAdvance
  OBVIOUS
<1>3. CASE m.at = "TokenBind"
  <2> DEFINE n == IF req.scope = Bad THEN Err("InvalidScope") ELSE [at |-> "TokenNegotiate"]
  <2>1. step = [m |-> n, out |-> IF n.at = "Err" THEN OutErr(n.error) ELSE None]
    BY <1>2, <1>3 DEF DirectAdvance
  <2>2. Moves(step)
    BY <1>3, <2>1 DEF Moves, Err, OutErr, None, Broken, Stages
  <2> QED BY <1>1, <1>2, <2>2
<1>4. CASE m.at = "TokenNegotiate"
  <2>1. step = [m |-> [at |-> "TokenIssue"], out |-> None]
    BY <1>2, <1>4 DEF DirectAdvance
  <2>2. Moves(step)
    BY <1>4, <2>1 DEF Moves, None, Stages
  <2> QED BY <1>1, <1>2, <2>2
<1>5. CASE m.at \in {"TokenIssue", "Authorizing"}
  <2>1. step = [m |-> m, out |-> [kind |-> "Ok"]]
    BY <1>2, <1>5 DEF DirectAdvance
  <2>2. Moves(step)
    BY <1>5, <2>1 DEF Moves, TokenFlow
  <2> QED BY <1>1, <1>2, <2>2
<1> QED BY <1>3, <1>4, <1>5 DEF ImplicitStages

LEMMA AuthorizationMoves ==
  ASSUME flow = "authorization", m.at \in Stages(flow), NEW now, NEW in \in Answers
  PROVE  Moves(Advance(in, now))
<1>1. CASE m.at \in ImplicitStages \cup {"Authorizing"}
  <2>1. in = None
    BY <1>1 DEF Answers, ImplicitStages
  <2> QED BY <1>1, <2>1, DirectMoves
<1>2. CASE m.at \in {"Binding", "Extending", "Negotiating"}
  <2>1. PICK n : n = AuthorizationState(m, in)
    OBVIOUS
  <2>2. /\ m.at = "Binding" => in.kind = "Bound"
        /\ m.at = "Extending" => in.kind = "Extended"
        /\ m.at = "Negotiating" => in.kind = "Negotiated"
    BY DEF Answers
  <2>3. in # None
    BY <1>2, <2>2 DEF None
  <2>4. Advance(in, now) = AuthorizationAdvance(m, in)
    BY <2>3 DEF Advance
  <2>5. AuthorizationAdvance(m, in) = [m |-> n, out |-> AuthorizationOutput(n)]
    BY <2>1 DEF AuthorizationAdvance
  <2>6. \/ n.at = "Err" /\ n.error = "Redirect"
        \/ n.at \in {"Extending", "Negotiating", "Pending"}
    BY <1>2, <2>1, <2>2 DEF AuthorizationState, Bound, Err
  <2>7. PICK step : step = Advance(in, now)
    OBVIOUS
  <2>8. step.m = n /\ step.out = AuthorizationOutput(n)
    BY <2>4, <2>5, <2>7
  <2>9. \/ step.out.kind = "Err" /\ step.out.error = "Redirect"
        \/ step.out.kind \notin {"Err", "Ok"} /\ n.at \in {"Extending", "Negotiating"}
        \/ step.out.kind = "Ok" /\ n.at = "Pending"
    BY <2>6, <2>8, AuthorizationOutputs
  <2>10. Moves(step)
    BY <1>2, <2>8, <2>9 DEF Moves, Broken, Stages
  <2> QED BY <2>7, <2>10
<1>3. CASE m.at = "Pending"
  BY <1>3 DEF Answers
<1> QED BY <1>1, <1>2, <1>3 DEF Stages, ImplicitStages

LEMMA AccessTokenMoves ==
  ASSUME flow = "accesstoken", m.at \in Stages(flow), NEW now, NEW in \in Answers
  PROVE  Moves(Advance(in, now))
<1>1. /\ m.at = "Authenticate" => in.kind = "Authenticated"
      /\ m.at = "Recover" => in.kind = "Recovered"
      /\ m.at = "Extend" => in.kind = "Extended"
      /\ m.at = "Issue" => in.kind = "Issued"
  BY DEF Answers
<1>2. m.at \in {"Authenticate", "Recover", "Extend", "Issue"}
  BY DEF Stages
<1>3. in # None
  BY <1>1, <1>2 DEF None
<1>4. Advance(in, now) = AccessTokenAdvance(m, in, now)
  BY <1>3 DEF Advance
<1>5. PICK step, n : step = AccessTokenAdvance(m, in, now) /\ n = AccessTokenState(m, in, now)
  OBVIOUS
<1>6. CASE m.at = "Issue"
  <2>1. step.m.at = "Err" /\ step.out.kind = "Ok"
    BY <1>1, <1>5, <1>6 DEF AccessTokenAdvance, Err
  <2>2. Moves(step)
    BY <1>6, <2>1 DEF Moves
  <2> QED BY <1>4, <1>5, <2>2
<1>7. CASE m.at \in {"Authenticate", "Recover", "Extend"}
  <2>1. step.m = n /\ step.out = AccessTokenOutput(n)
    BY <1>5, <1>7 DEF AccessTokenAdvance
  <2>2. \/ n.at = "Err" /\ n.error \notin Broken
        \/ n.at \in {"Recover", "Extend", "Issue"}
    BY <1>1, <1>5, <1>7 DEF AccessTokenState, Recovered, Err, Broken
  <2>3. /\ n.at = "Err" => AccessTokenOutput(n) = OutErr(n.error)
        /\ n.at = "Recover" => AccessTokenOutput(n) = [kind |-> "Recover", code |-> n.code]
        /\ n.at = "Extend" => AccessTokenOutput(n) = [kind |-> "Extend", ext |-> n.ext]
        /\ n.at = "Issue" => AccessTokenOutput(n) = [kind |-> "Issue", grant |-> n.grant]
    BY DEF AccessTokenOutput
  <2>4. \/ step.out.kind = "Err" /\ step.out.error \notin Broken
        \/ step.out.kind \notin {"Err", "Ok"} /\ n.at \in {"Recover", "Extend", "Issue"}
    BY <2>1, <2>2, <2>3 DEF OutErr
  <2>5. Moves(step)
    BY <1>7, <2>1, <2>4 DEF Moves, Stages
  <2> QED BY <1>4, <1>5, <2>5
<1> QED BY <1>2, <1>6, <1>7

LEMMA RefreshMoves ==
  ASSUME flow = "refresh", m.at \in Stages(flow), NEW now, NEW in \in Answers
  PROVE  Moves(Advance(in, now))
<1>1. /\ m.at \in {"Authenticating", "CoAuthenticating"} => in.kind = "Authenticated"
      /\ m.at = "Recovering" => in.kind = "Recovered"
      /\ m.at = "Issuing" => in.kind = "Refreshed"
  BY DEF Answers
<1>2. m.at \in {"Authenticating", "Recovering", "CoAuthenticating", "Issuing"}
  BY DEF Stages
<1>3. in # None
  BY <1>1, <1>2 DEF None
<1>4. Advance(in, now) = RefreshAdvance(m, in, now)
  BY <1>3 DEF Advance
<1>5. PICK step, n : step = RefreshAdvance(m, in, now) /\ n = RefreshState(m, in, now)
  OBVIOUS
<1>6. CASE m.at = "Issuing"
  <2>1. step.m.at = "Err" /\ step.out.kind = "Ok"
    BY <1>1, <1>5, <1>6 DEF RefreshAdvance, Err
  <2>2. Moves(step)
    BY <1>6, <2>1 DEF Moves
  <2> QED BY <1>4, <1>5, <2>2
<1>7. CASE m.at \in {"Authenticating", "Recovering", "CoAuthenticating"}
  <2>1. step.m = n /\ step.out = RefreshOutput(n)
    BY <1>5, <1>7 DEF RefreshAdvance
  <2>2. \/ n.at = "Err" /\ n.error \notin Broken
        \/ n.at \in {"Recovering", "CoAuthenticating", "Issuing"}
    BY <1>1, <1>5, <1>7
    DEF RefreshState, RecoveredRefresh, RefreshValidate, Err, Broken
  <2>3. /\ n.at = "Err" => RefreshOutput(n) = OutErr(n.error)
        /\ n.at = "CoAuthenticating" =>
             RefreshOutput(n) = [kind |-> "Unauthenticated", client |-> n.grant.client, pass |-> Nil]
        /\ n.at = "Recovering" => RefreshOutput(n) = [kind |-> "RecoverRefresh", token |-> n.token]
        /\ n.at = "Issuing" =>
             RefreshOutput(n) = [kind |-> "Refresh", token |-> n.token, grant |-> n.grant]
    BY DEF RefreshOutput
  <2>4. \/ step.out.kind = "Err" /\ step.out.error \notin Broken
        \/ /\ step.out.kind \notin {"Err", "Ok"}
           /\ n.at \in {"Recovering", "CoAuthenticating", "Issuing"}
    BY <2>1, <2>2, <2>3 DEF OutErr
  <2>5. Moves(step)
    BY <1>7, <2>1, <2>4 DEF Moves, Stages
  <2> QED BY <1>4, <1>5, <2>5
<1> QED BY <1>2, <1>6, <1>7

LEMMA ResourceMoves ==
  ASSUME flow = "resource", m.at \in Stages(flow), NEW now, NEW in \in Answers
  PROVE  Moves(Advance(in, now))
<1>1. /\ m.at = "Internalized" => in.kind = "Scopes"
      /\ m.at = "Recovering" => in.kind = "Recovered"
  BY DEF Answers
<1>2. m.at \in {"Internalized", "Recovering"}
  BY DEF Stages
<1>3. in # None
  BY <1>1, <1>2 DEF None
<1>4. Advance(in, now) = ResourceAdvance(m, in, now)
  BY <1>3 DEF Advance
<1>5. PICK step : step = ResourceAdvance(m, in, now)
  OBVIOUS
<1>6. CASE m.at = "Internalized"
  <2>1. PICK n : n = [at |-> "Recovering", token |-> m.token, scopes |-> in.scopes]
    OBVIOUS
  <2>2. step = [m |-> n, out |-> ResourceOutput(n)]
    BY <1>1, <1>5, <1>6, <2>1 DEF ResourceAdvance
  <2>3. ResourceOutput(n) = [kind |-> "Recover", token |-> n.token]
    BY <2>1 DEF ResourceOutput
  <2>4. Moves(step)
    BY <1>6, <2>1, <2>2, <2>3 DEF Moves, Stages
  <2> QED BY <1>4, <1>5, <2>4
<1>7. CASE m.at = "Recovering"
  <2>1. PICK res : res = ResourceRecovered(in.grant, m.scopes, now)
    OBVIOUS
  <2>2. \/ step = [m |-> Err("PrimitiveError"), out |-> [kind |-> "Ok", grant |-> in.grant]]
        \/ step = [m |-> Err(res), out |-> ResourceOutput(Err(res))] /\ res # "Ok"
    BY <1>1, <1>5, <1>7, <2>1 DEF ResourceAdvance
  <2>3. res \in {"invalid_request", "invalid_token", "insufficient_scope", "Ok"}
    BY <2>1 DEF ResourceRecovered
  <2>4. ResourceOutput(Err(res)) = OutErr(res)
    BY DEF ResourceOutput, Err
  <2>5. Moves(step)
    BY <1>7, <2>2, <2>3, <2>4 DEF Moves, Err, OutErr, Broken, TokenFlow
  <2> QED BY <1>4, <1>5, <2>5
<1> QED BY <1>2, <1>6, <1>7

LEMMA FlowMoves ==
  ASSUME flow \in Flows, m.at \in Stages(flow), NEW now, NEW in \in Answers
  PROVE  Moves(Advance(in, now))
BY AuthorizationMoves, AccessTokenMoves, RefreshMoves, ResourceMoves DEF Flows

\* An Err of a primitive is reported as what it is: a failure as the server's
\* (not so in the implicit grant), anything else as the client's.
LEMMA FailureIsReported ==
  ASSUME flow \in Flows, m.at \in Stages(flow), NEW failure \in Failures
  PROVE  \/ failure[2] = FALSE /\ failure[1] \notin Broken /\ m.at \notin {"Issue", "Issuing"}
         \/ m.at \in ImplicitStages /\ failure[1] \notin Broken
         \/ failure[2] = TRUE /\ ErrorReply(failure[1]) = Give("PrimitiveError")
<1>1. PICK error, mine : error = failure[1] /\ mine = failure[2]
  OBVIOUS
<1>2. \/ /\ mine = FALSE /\ error \in {"Ignore", "Redirect", "Unauthorized", "Invalid"}
         /\ m.at \notin {"Issue", "Issuing"}
      \/ error = "Invalid" /\ m.at \in ImplicitStages
      \/ mine = TRUE /\ error = "PrimitiveError" /\ flow \in {"authorization", "resource"}
      \/ mine = TRUE /\ error = "Primitive" /\ flow \in {"accesstoken", "refresh"}
  <2>1. PICK yes, no : yes = TRUE /\ no = FALSE
    OBVIOUS
  <2>2. \/ /\ failure \in {<<"Ignore", no>>, <<"Redirect", no>>, <<"Unauthorized", no>>,
                           <<"Invalid", no>>}
           /\ m.at \notin {"Issue", "Issuing"}
        \/ failure = <<"Invalid", yes>> /\ m.at \in ImplicitStages
        \/ failure = <<"PrimitiveError", yes>> /\ flow \in {"authorization", "resource"}
        \/ failure = <<"Primitive", yes>> /\ flow \in {"accesstoken", "refresh"}
    <3>1. CASE flow = "authorization"
      BY <2>1, <3>1 DEF Failures, Stages, ImplicitStages
    <3>2. CASE flow = "accesstoken"
      BY <2>1, <3>2 DEF Failures, Stages
    <3>3. CASE flow = "refresh"
      BY <2>1, <3>3 DEF Failures, Stages
    <3>4. CASE flow = "resource"
      BY <2>1, <3>4 DEF Failures, Stages
    <3> QED BY <3>1, <3>2, <3>3, <3>4 DEF Flows
  <2>3. \/ /\ mine = no /\ error \in {"Ignore", "Redirect", "Unauthorized", "Invalid"}
           /\ m.at \notin {"Issue", "Issuing"}
        \/ error = "Invalid" /\ m.at \in ImplicitStages
        \/ mine = yes /\ error = "PrimitiveError" /\ flow \in {"authorization", "resource"}
        \/ mine = yes /\ error = "Primitive" /\ flow \in {"accesstoken", "refresh"}
    BY <1>1, <2>2
  <2> QED BY <2>1, <2>3
<1>3. CASE error = "PrimitiveError" /\ flow = "authorization"
  <2>1. ErrorReply(error) = AuthorizationErrorReply(error)
    BY <1>3 DEF ErrorReply
  <2>2. AuthorizationErrorReply(error) = Give("PrimitiveError")
    BY <1>3 DEF AuthorizationErrorReply
  <2> QED BY <1>1, <1>2, <1>3, <2>1, <2>2
<1>4. CASE error = "PrimitiveError" /\ flow = "resource"
  <2>1. ErrorReply(error) = DeniedReply(error)
    BY <1>4 DEF ErrorReply
  <2>2. DeniedReply(error) = Give("PrimitiveError")
    BY <1>4 DEF DeniedReply
  <2> QED BY <1>1, <1>2, <1>4, <2>1, <2>2
<1>5. CASE error = "Primitive" /\ flow \in {"accesstoken", "refresh"}
  <2>1. ErrorReply(error) = TokenErrorReply(error)
    BY <1>5 DEF ErrorReply
  <2>2. TokenErrorReply(error) = Give("PrimitiveError")
    BY <1>5 DEF TokenErrorReply
  <2> QED BY <1>1, <1>2, <1>5, <2>1, <2>2
<1> QED BY <1>1, <1>2, <1>3, <1>4, <1>5 DEF Broken

\* The reply of a flow that is done.
LEMMA DoneReply ==
  ASSUME flow \in Flows, m.at \in Stages(flow),
         flow = "authorization" => m.at \in {"TokenIssue", "Authorizing"}
  PROVE  \/ TokenFlow /\ OkReply = BearerReply
         \/ flow = "resource" /\ OkReply = Give("Grant")
         \/ flow = "authorization" /\ OkReply = RedirectReply
         \/ /\ flow = "authorization"
            /\ OkReply = <<Make("Redirect"), Make("BadRequest"), <<"client_error">>, <<"body_json">>>>
<1>1. CASE flow = "authorization" /\ m.at = "Authorizing"
  <2>1. OkReply = RedirectReply
    BY <1>1 DEF OkReply
  <2> QED BY <1>1, <2>1
<1>2. CASE flow = "authorization" /\ m.at = "TokenIssue"
  <2>1. OkReply = ImplicitReply
    BY <1>2 DEF OkReply
  <2>2. TokenErrorReply("ServerError") = <<Make("BadRequest"), <<"client_error">>, <<"body_json">>>>
    BY DEF TokenErrorReply
  <2>3. <<Make("Redirect")>> \o TokenErrorReply("ServerError")
          = <<Make("Redirect"), Make("BadRequest"), <<"client_error">>, <<"body_json">>>>
    BY <2>2, ConcatOneThree, Zenon
  <2>4. \/ ImplicitReply = RedirectReply
        \/ ImplicitReply = <<Make("Redirect"), Make("BadRequest"), <<"client_error">>, <<"body_json">>>>
    BY <2>3, Zenon DEF ImplicitReply
  <2> QED BY <1>2, <2>1, <2>4
<1>3. CASE flow = "resource"
  <2>1. OkReply = Give("Grant")
    BY <1>3 DEF OkReply, Stages
  <2> QED BY <1>3, <2>1
<1>4. CASE flow \in {"accesstoken", "refresh"}
  <2>1. OkReply = BearerReply
    BY <1>4 DEF OkReply, Stages
  <2> QED BY <1>4, <2>1 DEF TokenFlow
<1> QED BY <1>1, <1>2, <1>3, <1>4 DEF Flows

----------------------------------------------------------------------------
(* The response *)

LEMMA WrittenIs ==
  /\ \A template : Written(Make(template)) = Response(template)
  /\ Written(<<"redirect">>) = SetStatus(adapter, resp, "Redirect")
  /\ Written(<<"client_error">>) = SetStatus(adapter, resp, "BadRequest")
  /\ Written(<<"unauthorized">>) = SetStatus(adapter, resp, "Unauthorized")
  /\ Written(<<"body_json">>) = resp
<1>1. /\ \A template : Make(template)[1] = "response" /\ Make(template)[2] = template
      /\ <<"redirect">>[1] = "redirect" /\ <<"client_error">>[1] = "client_error"
      /\ <<"unauthorized">>[1] = "unauthorized" /\ <<"body_json">>[1] = "body_json"
  BY DEF Make
<1>2. ASSUME NEW call PROVE call[1] = "response" => Written(call) = Response(call[2])
  BY DEF Written
<1>3. ASSUME NEW call
      PROVE  call[1] = "redirect" => Written(call) = SetStatus(adapter, resp, "Redirect")
  BY DEF Written
<1>4. ASSUME NEW call
      PROVE  call[1] = "client_error" => Written(call) = SetStatus(adapter, resp, "BadRequest")
  BY DEF Written
<1>5. ASSUME NEW call
      PROVE  call[1] = "unauthorized" => Written(call) = SetStatus(adapter, resp, "Unauthorized")
  BY DEF Written
<1>6. ASSUME NEW call PROVE call[1] = "body_json" => Written(call) = resp
  BY DEF Written
<1>7. \A template : Written(Make(template)) = Response(template)
  BY <1>1, <1>2
<1> QED BY <1>1, <1>3, <1>4, <1>5, <1>6, <1>7

\* On a response without headers, a status goes with the right one.
LEMMA FreshIsSettled ==
  ASSUME Fresh, NEW status \in Status, resp' = SetStatus(adapter, resp, status)
  PROVE  Settled(status)'
<1>1. PICK template \in Status : resp = Response(template)
  BY DEF Fresh
<1>2. resp.location = FALSE /\ resp.challenge = FALSE
  BY <1>1 DEF Response
<1>3. /\ resp'.status = status
      /\ resp'.location = (status = "Redirect" \/ (adapter # "any" /\ resp.location))
      /\ resp'.challenge = (status = "Unauthorized" \/ (adapter # "any" /\ resp.challenge))
  BY <1>1 DEF SetStatus, Response
<1> QED BY <1>2, <1>3 DEF Settled

\* One call after the other leads to a response with that status, and its
\* header.
LEMMA RespondWrites ==
  ASSUME NEW status \in Status, Writes(status), resp' = Written(Head(todo)), todo' = Tail(todo)
  PROVE  IF Len(todo) = 1 THEN Settled(status)' ELSE Writes(status)'
<1>1. ASSUME NEW template \in Status, resp' = Response(template)
      PROVE  Fresh'
  BY <1>1 DEF Fresh
<1>2. CASE status = "Ok" /\ todo = BearerReply
  <2>1. Len(todo) = 2 /\ Head(todo) = Make("Ok") /\ todo' = << <<"body_json">> >>
    BY <1>2 DEF BearerReply
  <2>2. resp' = Response("Ok")
    BY <2>1, WrittenIs
  <2>3. Settled("Ok")'
    BY <2>2 DEF Settled, Response
  <2> QED BY <1>2, <2>1, <2>3 DEF Writes
<1>3. CASE status = "Redirect" /\ todo = RedirectReply
  <2>1. Len(todo) = 2 /\ Head(todo) = Make("Redirect") /\ todo' = << <<"redirect">> >>
    BY <1>3 DEF RedirectReply
  <2>2. Fresh'
    BY <1>1, <2>1, WrittenIs DEF Status
  <2>3. Writes(status)'
    BY <1>3, <2>1, <2>2, Zenon DEF Writes
  <2> QED BY <2>1, <2>3
<1>4. CASE status = "BadRequest" /\ todo = ClientErrorReply
  <2>1. /\ Len(todo) = 3 /\ Head(todo) = Make("BadRequest")
        /\ todo' = << <<"client_error">>, <<"body_json">> >>
    BY <1>4 DEF ClientErrorReply
  <2>2. Fresh'
    BY <1>1, <2>1, WrittenIs DEF Status
  <2>3. Writes(status)'
    BY <1>4, <2>1, <2>2, Zenon DEF Writes
  <2> QED BY <2>1, <2>3
<1>5. CASE /\ status = "BadRequest"
           /\ todo = <<Make("Redirect"), Make("BadRequest"), <<"client_error">>, <<"body_json">>>>
  <2>1. Len(todo) = 4 /\ todo' = ClientErrorReply
    BY <1>5 DEF ClientErrorReply
  <2> QED BY <1>5, <2>1 DEF Writes
<1>6. CASE /\ status = "Unauthorized"
           /\ todo = <<Make("Unauthorized"), <<"unauthorized">>, <<"body_json">>>>
  <2>1. /\ Len(todo) = 3 /\ Head(todo) = Make("Unauthorized")
        /\ todo' = << <<"unauthorized">>, <<"body_json">> >>
    BY <1>6
  <2>2. Fresh'
    BY <1>1, <2>1, WrittenIs DEF Status
  <2> QED BY <1>6, <2>1, <2>2 DEF Writes
<1>7. CASE /\ status = "Unauthorized"
           /\ \E template \in Status : todo = <<Make(template), <<"unauthorized">>>>
  <2>1. PICK template \in Status : todo = <<Make(template), <<"unauthorized">>>>
    BY <1>7
  <2>2. Len(todo) = 2 /\ Head(todo) = Make(template) /\ todo' = << <<"unauthorized">> >>
    BY <2>1
  <2>3. Fresh'
    BY <1>1, <2>2, WrittenIs
  <2> QED BY <1>7, <2>2, <2>3 DEF Writes
<1>8. CASE status = "Redirect" /\ todo = << <<"redirect">> >> /\ Fresh
  <2>1. Len(todo) = 1 /\ Head(todo) = <<"redirect">>
    BY <1>8
  <2>2. Settled(status)'
    BY <1>8, <2>1, WrittenIs, FreshIsSettled
  <2> QED BY <2>1, <2>2
<1>9. CASE status = "BadRequest" /\ todo = << <<"client_error">>, <<"body_json">> >> /\ Fresh
  <2>1. Len(todo) = 2 /\ Head(todo) = <<"client_error">> /\ todo' = << <<"body_json">> >>
    BY <1>9
  <2>2. Settled(status)'
    BY <1>9, <2>1, WrittenIs, FreshIsSettled
  <2> QED BY <2>1, <2>2 DEF Writes
<1>10. CASE status = "Unauthorized" /\ todo = << <<"unauthorized">>, <<"body_json">> >> /\ Fresh
  <2>1. Len(todo) = 2 /\ Head(todo) = <<"unauthorized">> /\ todo' = << <<"body_json">> >>
    BY <1>10
  <2>2. Settled(status)'
    BY <1>10, <2>1, WrittenIs, FreshIsSettled
  <2> QED BY <2>1, <2>2 DEF Writes
<1>11. CASE status = "Unauthorized" /\ todo = << <<"unauthorized">> >> /\ Fresh
  <2>1. Len(todo) = 1 /\ Head(todo) = <<"unauthorized">>
    BY <1>11
  <2>2. Settled(status)'
    BY <1>11, <2>1, WrittenIs, FreshIsSettled
  <2> QED BY <2>1, <2>2
<1>12. CASE todo = << <<"body_json">> >> /\ Settled(status)
  <2>1. Len(todo) = 1 /\ Head(todo) = <<"body_json">>
    BY <1>12
  <2>2. resp' = resp
    BY <2>1, WrittenIs
  <2> QED BY <1>12, <2>1, <2>2 DEF Settled
<1> QED
  BY <1>2, <1>3, <1>4, <1>5, <1>6, <1>7, <1>8, <1>9, <1>10, <1>11, <1>12 DEF Writes

----------------------------------------------------------------------------
(* The web request *)

LEMMA SameObject ==
  ASSUME ObjectInv, object' = object, UNCHANGED <<adapter, http, reads>>
  PROVE  ObjectInv'
BY DEF ObjectInv, Linked, TheHeader

\* Whatever the adapter, several headers count as none (rouille: as the first).
LEMMA HeaderIsTheHeader ==
  ASSUME NEW msg \in Messages
  PROVE  LET only == OnlyAuthorization(msg.auth)
             the == IF Len(msg.auth) = 1 THEN msg.auth[1] ELSE NoHeader
         IN  /\ only = IF the.scheme = "nontext" THEN NoHeader ELSE the
             /\ only \in Header
             /\ msg.auth # <<>> => msg.auth[1] \in Header
<1>1. msg.auth \in Seq(Header)
  BY EndpointsAssumption
<1>2. PICK auth : auth = msg.auth
  OBVIOUS
<1>3. NoHeader.scheme = "none" /\ NoHeader \in Header
  BY DEF NoHeader, Header
<1>4. auth # <<>> => auth[1] \in Header
  BY <1>1, <1>2
<1>5. Len(auth) = 1 => auth # <<>>
  BY <1>1, <1>2
<1> QED BY <1>2, <1>3, <1>4, <1>5 DEF OnlyAuthorization

\* What the four adapters make of a message.
LEMMA ReceivedIsLinked ==
  ASSUME NEW msg \in Messages, NEW resource, adapter \in Adapter,
         (\E i \in DOMAIN msg.auth : msg.auth[i].scheme = "nontext")
            => adapter \in {"actix", "iron"},
         http' = msg, object' = NewRequest(adapter, msg, resource), reads' = 0,
         adapter' = adapter
  PROVE  ObjectInv'
<1> DEFINE only == OnlyAuthorization(msg.auth)
           the == IF Len(msg.auth) = 1 THEN msg.auth[1] ELSE NoHeader
<1>1. /\ only = IF the.scheme = "nontext" THEN NoHeader ELSE the
      /\ only \in Header
      /\ msg.auth # <<>> => msg.auth[1] \in Header
  BY HeaderIsTheHeader
<1>2. msg.auth \in Seq(Header)
  BY EndpointsAssumption
<1>3. adapter # "rouille" => TheHeader(http)' = the
  BY DEF TheHeader
<1> HIDE DEF only, the
<1>4. SUFFICES ASSUME object' # Nil
               PROVE  /\ object' = WebRequest(object'.query, object'.body, object'.header)
                      /\ object'.header \in Header
                      /\ Linked'
  BY DEF ObjectInv
<1>5. CASE adapter = "actix"
  <2>1. object' = ActixRequest(msg, resource)
    BY <1>5 DEF NewRequest
  <2>2. PICK q, b : /\ object' = WebRequest(q, b, only)
                    /\ b = IF resource \/ msg.ctype # "form" THEN Bad ELSE msg.body
    BY <1>4, <2>1 DEF ActixRequest, only
  <2>3. object'.query = q /\ object'.body = b /\ object'.header = only
    BY <2>2 DEF WebRequest
  <2>4. Linked'
    BY <1>1, <1>3, <1>5, <2>2, <2>3 DEF Linked
  <2> QED BY <1>1, <2>2, <2>3, <2>4
<1>6. CASE adapter = "iron"
  <2>1. object' = IronRequest(msg)
    BY <1>6 DEF NewRequest
  <2>2. PICK q, b : object' = WebRequest(q, b, only) /\ b = IF msg.ctype = "form" THEN msg.body ELSE Bad
    BY <2>1 DEF IronRequest, only
  <2>3. object'.query = q /\ object'.body = b /\ object'.header = only
    BY <2>2 DEF WebRequest
  <2>4. Linked'
    BY <1>1, <1>3, <1>6, <2>2, <2>3 DEF Linked
  <2> QED BY <1>1, <2>2, <2>3, <2>4
<1>7. CASE adapter = "rocket"
  <2>1. object' = RocketRequest(msg)
    BY <1>7 DEF NewRequest
  <2>2. PICK q, b : object' = WebRequest(q, b, only) /\ b = IF msg.ctype = "form" THEN Nil ELSE Bad
    BY <2>1 DEF RocketRequest, only
  <2>3. object'.query = q /\ object'.body = b /\ object'.header = only
    BY <2>2 DEF WebRequest
  <2>4. Linked'
    BY <1>1, <1>3, <1>7, <2>2, <2>3 DEF Linked
  <2> QED BY <1>1, <2>2, <2>3, <2>4
<1>8. CASE adapter = "rouille"
  <2>1. object' = RouilleRequest(msg)
    BY <1>8 DEF NewRequest
  <2>2. PICK q, b, h : /\ object' = WebRequest(q, b, h)
                       /\ b = IF msg.ctype \in {"form", "none"} THEN msg.body ELSE Bad
                       /\ h = IF msg.auth = <<>> THEN NoHeader ELSE msg.auth[1]
    BY <2>1 DEF RouilleRequest
  <2>3. object'.query = q /\ object'.body = b /\ object'.header = h
    BY <2>2 DEF WebRequest
  <2>4. TheHeader(http)' = h
    BY <1>2, <1>8, <2>2 DEF TheHeader
  <2>5. h \in Header /\ h.scheme # "nontext"
    <3>1. CASE msg.auth = <<>>
      BY <2>2, <3>1 DEF NoHeader, Header
    <3>2. CASE msg.auth # <<>>
      <4>1. 1 \in DOMAIN msg.auth
        BY <1>2, <3>2
      <4> QED BY <1>1, <1>8, <2>2, <3>2, <4>1
    <3> QED BY <3>1, <3>2
  <2>6. Linked'
    BY <1>8, <2>2, <2>3, <2>4, <2>5 DEF Linked
  <2> QED BY <2>2, <2>3, <2>5, <2>6
<1> QED BY <1>5, <1>6, <1>7, <1>8 DEF Adapter

\* The body that rocket's application adds is that of the message.
LEMMA BodyGivenIsLinked ==
  ASSUME ObjectInv, object # Nil, adapter = "rocket", object' = AddBody(object, http),
         UNCHANGED <<adapter, http, reads>>
  PROVE  ObjectInv'
<1>1. CASE object.body # Nil
  <2>1. object' = object
    BY <1>1 DEF AddBody
  <2> QED BY <2>1, SameObject
<1>2. CASE object.body = Nil
  <2>1. object = WebRequest(object.query, object.body, object.header) /\ object.header \in Header
        /\ http \in Messages /\ Linked
    BY DEF ObjectInv
  <2>2. object' = WebRequest(object.query, http.body, object.header)
    BY <1>2, <2>1 DEF AddBody, WebRequest
  <2>3. /\ object'.query = object.query /\ object'.body = http.body
        /\ object'.header = object.header
    BY <2>2 DEF WebRequest
  <2>4. Linked'
    BY <1>2, <2>1, <2>3, ParamsAssumption DEF Linked, TheHeader
  <2> QED BY <2>1, <2>2, <2>3, <2>4 DEF ObjectInv
<1> QED BY <1>1, <1>2

\* After urlbody() the body of iron and rouille is gone.
LEMMA BodyReadIsLinked ==
  ASSUME ObjectInv, object # Nil, adapter \in Adapter,
         object' = AfterRead(adapter, object, http), reads' \in {1, 2},
         UNCHANGED <<adapter, http>>
  PROVE  ObjectInv'
<1>1. object = WebRequest(object.query, object.body, object.header) /\ object.header \in Header
      /\ http \in Messages /\ Linked
  BY DEF ObjectInv, Adapter
<1>2. PICK b : /\ object' = WebRequest(object.query, b, object.header)
               /\ \/ b = object.body /\ ~(adapter = "iron" /\ http.ctype = "form")
                       /\ ~(adapter = "rouille" /\ http.ctype \in {"form", "none"})
                  \/ b = <<>> /\ adapter = "iron" /\ http.ctype = "form"
                  \/ b = Bad /\ adapter = "rouille"
  BY <1>1 DEF AfterRead, WebRequest
<1>3. object'.query = object.query /\ object'.body = b /\ object'.header = object.header
  BY <1>2 DEF WebRequest
<1>4. Linked'
  BY <1>1, <1>2, <1>3 DEF Linked, TheHeader
<1> QED BY <1>1, <1>2, <1>3, <1>4 DEF ObjectInv

----------------------------------------------------------------------------
(* Outside of execute *)

\* Nothing is asked of a state without a request in it.
LEMMA NothingServed ==
  ASSUME pc' = "idle", called' = {}, fault' = FALSE, result' \in {Nil, "Web"}
  PROVE  ServedInv' /\ StageInv' /\ RespondInv' /\ ResultInv' /\ SecretNeedsPermission'
<1>1. result' # "Response" /\ result' # "PrimitiveError"
  BY EndpointsAssumption DEF Result
<1> QED BY <1>1 DEF ServedInv, StageInv, RespondInv, ResultInv, SecretNeedsPermission

LEMMA PrepareKeeps ==
  ASSUME Inv, NEW f \in Flows, Prepare(f)
  PROVE  Inv'
<1>1. FlowInv /\ ObjectInv /\ flow = "none" /\ pc = "idle" /\ called = {}
  BY DEF Inv, FlowInv, Prepare
<1>2. ObjectInv'
  BY <1>1, SameObject DEF Prepare, setup, request
<1>3. CASE Needs(f) \subseteq parts
  <2>1. ServedInv' /\ StageInv' /\ RespondInv' /\ ResultInv' /\ SecretNeedsPermission'
    BY <1>1, <1>3, NothingServed DEF Prepare
  <2>2. FlowInv'
    BY <1>1, <1>3 DEF Prepare, FlowInv, Flows, setup
  <2> QED BY <1>2, <2>1, <2>2 DEF Inv
<1>4. CASE ~(Needs(f) \subseteq parts)
  <2>1. pc' = "idle" /\ called' = {} /\ flow' = "none" /\ result' = "PrimitiveError" /\ fault'
    BY <1>1, <1>4 DEF Prepare
  <2>2. ServedInv' /\ StageInv' /\ RespondInv' /\ ResultInv' /\ SecretNeedsPermission'
    BY <2>1 DEF ServedInv, StageInv, RespondInv, ResultInv, SecretNeedsPermission
  <2>3. FlowInv'
    BY <1>1, <2>1 DEF Prepare, FlowInv, setup
  <2> QED BY <1>2, <2>2, <2>3 DEF Inv
<1> QED BY <1>3, <1>4

LEMMA AdHocKeeps ==
  ASSUME Inv, NEW f \in Flows, AdHoc(f)
  PROVE  Inv'
<1>1. FlowInv /\ ObjectInv /\ flow = "none" /\ pc = "idle" /\ called = {}
  BY DEF Inv, FlowInv, AdHoc
<1>2. Needs(f) \subseteq AdHocParts(f)
  BY AdHocHasNeeds
<1>3. pc' = "idle" /\ called' = {} /\ flow' = f /\ parts' = AdHocParts(f) /\ adapter' = adapter
  BY <1>1, <1>2 DEF AdHoc
<1>4. ObjectInv'
  BY <1>1, SameObject DEF AdHoc, request
<1>5. ServedInv' /\ StageInv' /\ RespondInv' /\ ResultInv' /\ SecretNeedsPermission'
  BY <1>3, NothingServed DEF AdHoc
<1>6. FlowInv'
  BY <1>1, <1>2, <1>3 DEF FlowInv, Flows
<1> QED BY <1>4, <1>5, <1>6 DEF Inv

LEMMA GenericFlowKeeps ==
  ASSUME Inv, NEW f \in Flows, GenericFlow(f)
  PROVE  Inv'
<1>1. FlowInv /\ ObjectInv /\ flow = "none" /\ pc = "idle" /\ called = {}
  BY DEF Inv, FlowInv, GenericFlow
<1>2. Needs(f) \subseteq parts
  BY AdHocHasNeeds DEF GenericFlow
<1>3. pc' = "idle" /\ called' = {} /\ flow' = f /\ parts' = parts /\ adapter' = adapter
  BY <1>1, <1>2 DEF GenericFlow, setup
<1>4. ObjectInv'
  BY <1>1, SameObject DEF GenericFlow, setup, request
<1>5. ServedInv' /\ StageInv' /\ RespondInv' /\ ResultInv' /\ SecretNeedsPermission'
  BY <1>3, NothingServed DEF GenericFlow
<1>6. FlowInv'
  BY <1>1, <1>2, <1>3 DEF FlowInv, Flows
<1> QED BY <1>4, <1>5, <1>6 DEF Inv

LEMMA DropKeeps ==
  ASSUME Inv, Drop
  PROVE  Inv'
<1>1. pc' = "idle" /\ called' = {} /\ fault' = FALSE /\ result' = Nil /\ flow' = "none"
  BY DEF Drop, Reset
<1>2. ObjectInv'
  BY SameObject DEF Inv, Drop, setup
<1>3. ServedInv' /\ StageInv' /\ RespondInv' /\ ResultInv' /\ SecretNeedsPermission'
  BY <1>1, NothingServed
<1>4. FlowInv'
  BY <1>1 DEF Inv, FlowInv, Drop, setup
<1> QED BY <1>2, <1>3, <1>4 DEF Inv

LEMMA AllowCredentialsInBodyKeeps ==
  ASSUME Inv, NEW b \in BOOLEAN, AllowCredentialsInBody(b)
  PROVE  Inv'
<1>1. /\ pc = "idle"
      /\ UNCHANGED <<adapter, parts, flow, http, object, web, m, pc, todo, resp, result,
                     called, fault, reads>>
  BY DEF AllowCredentialsInBody, setup, request, history
<1>2. ObjectInv'
  BY <1>1, SameObject DEF Inv
<1>3. FlowInv' /\ ServedInv'
  BY <1>1 DEF Inv, FlowInv, ServedInv, Served, TheHeader
<1>4. StageInv' /\ RespondInv' /\ SecretNeedsPermission'
  BY <1>1 DEF StageInv, RespondInv, SecretNeedsPermission
<1>5. ResultInv'
  BY <1>1 DEF Inv, ResultInv, Settled, Deserved, Issued
<1> QED BY <1>2, <1>3, <1>4, <1>5 DEF Inv

LEMMA ReceiveKeeps ==
  ASSUME Inv, NEW w \in WebRequests, Receive(w)
  PROVE  Inv'
<1>1. /\ pc' = "idle" /\ called' = {} /\ fault' = FALSE /\ result' = Nil
      /\ object' = w /\ adapter' = "any" /\ adapter = "any" /\ flow' = flow /\ parts' = parts
      /\ pc = "idle"
  BY DEF Receive, Reset, setup
<1>2. w = WebRequest(w.query, w.body, w.header) /\ w.header \in Header
  BY EndpointsAssumption
<1>3. ObjectInv'
  BY <1>1, <1>2 DEF ObjectInv
<1>4. ServedInv' /\ StageInv' /\ RespondInv' /\ ResultInv' /\ SecretNeedsPermission'
  BY <1>1, NothingServed
<1>5. FlowInv'
  BY <1>1 DEF Inv, FlowInv
<1> QED BY <1>3, <1>4, <1>5 DEF Inv

LEMMA ReceiveHttpKeeps ==
  ASSUME Inv, NEW msg \in Messages, NEW resource \in BOOLEAN, ReceiveHttp(msg, resource)
  PROVE  Inv'
<1>1. /\ pc' = "idle" /\ called' = {} /\ fault' = FALSE /\ result' \in {Nil, "Web"}
      /\ object' = NewRequest(adapter, msg, resource) /\ http' = msg /\ reads' = 0
      /\ adapter' = adapter /\ flow' = flow /\ parts' = parts /\ pc = "idle"
      /\ adapter # "any"
      /\ (\E i \in DOMAIN msg.auth : msg.auth[i].scheme = "nontext")
           => adapter \in {"actix", "iron"}
  BY DEF ReceiveHttp, setup
<1>2. FlowInv
  BY DEF Inv
<1>3. adapter \in Adapter
  BY <1>1, <1>2 DEF FlowInv
<1>4. ObjectInv'
  BY <1>1, <1>3, ReceivedIsLinked
<1>5. ServedInv' /\ StageInv' /\ RespondInv' /\ ResultInv' /\ SecretNeedsPermission'
  BY <1>1, NothingServed
<1>6. FlowInv'
  BY <1>1, <1>2 DEF FlowInv
<1> QED BY <1>4, <1>5, <1>6 DEF Inv

LEMMA GiveBodyKeeps ==
  ASSUME Inv, GiveBody
  PROVE  Inv'
<1>1. /\ pc' = "idle" /\ called' = {} /\ fault' = FALSE /\ result' = Nil /\ pc = "idle"
      /\ object # Nil /\ object' = AddBody(object, http) /\ adapter = "rocket"
      /\ UNCHANGED <<adapter, http, reads, flow, parts>>
  BY DEF GiveBody, Reset, setup
<1>2. ObjectInv'
  BY <1>1, BodyGivenIsLinked DEF Inv
<1>3. ServedInv' /\ StageInv' /\ RespondInv' /\ ResultInv' /\ SecretNeedsPermission'
  BY <1>1, NothingServed
<1>4. FlowInv'
  BY <1>1 DEF Inv, FlowInv
<1> QED BY <1>2, <1>3, <1>4 DEF Inv

----------------------------------------------------------------------------
(* execute *)

\* What a flow finds in the web request.
LEMMA FoundIs ==
  ASSUME ObjectInv, object # Nil
  PROVE  /\ Found(object).header = object.header
         /\ Found(object).body = IF object.body = Nil THEN Bad ELSE object.body
<1>1. object = WebRequest(object.query, object.body, object.header)
  BY DEF ObjectInv
<1> QED BY <1>1 DEF Found, WebRequest

\* A token request that is accepted has a header that can be used and a body
\* that nobody has read before.
LEMMA AcceptedIsServed ==
  ASSUME ObjectInv, object # Nil, adapter \in Adapter \cup {"any"},
         Accepted(Found(object)), web' = Found(object),
         reads' = IF adapter # "any" THEN (IF reads = 0 THEN 1 ELSE 2) ELSE reads,
         UNCHANGED <<adapter, http>>
  PROVE  Served'
<1>1. PICK w : w = Found(object)
  OBVIOUS
<1>2. w.header = object.header /\ w.body = IF object.body = Nil THEN Bad ELSE object.body
  BY <1>1, FoundIs
<1>3. w.header.scheme \in {"none", "Basic"} /\ w.body # Bad
  BY <1>1 DEF Accepted, Readable
<1>4. CASE adapter = "any"
  BY <1>1, <1>3, <1>4 DEF Served
<1>5. CASE adapter # "any"
  <2>1. Linked
    BY <1>5 DEF ObjectInv
  <2>2. w.body # <<>>
    BY <1>1, <1>5, EmptyBodyIsRefused
  <2>3. object.body \notin {<<>>, Bad, Nil}
    BY <1>2, <1>3, <2>2
  <2>4. /\ adapter \in {"iron", "rouille"} => reads = 0
        /\ object.body = http.body
        /\ http.ctype = "form" \/ (adapter = "rouille" /\ http.ctype = "none")
    BY <2>1, <2>3 DEF Linked
  <2>5. TheHeader(http).scheme \in {"none", "Basic", "nontext"}
    BY <1>2, <1>3, <2>1 DEF Linked
  <2>6. TheHeader(http)' = TheHeader(http)
    BY DEF TheHeader
  <2> QED BY <1>1, <1>3, <1>5, <2>3, <2>4, <2>5, <2>6 DEF Served
<1> QED BY <1>4, <1>5

LEMMA ExecuteKeeps ==
  ASSUME Inv, Execute
  PROVE  Inv'
<1>1. PICK w, r, n : w = Found(object) /\ r = Wrap(w) /\ n = Start(r)
  OBVIOUS
<1>2. /\ flow # "none" /\ object # Nil /\ pc = "idle"
      /\ web' = w /\ req' = r /\ m' = n
      /\ IF adapter # "any" /\ ReadsBody(w)
         THEN object' = AfterRead(adapter, object, http) /\ reads' = IF reads = 0 THEN 1 ELSE 2
         ELSE object' = object /\ reads' = reads
      /\ IF n.at = "Err" THEN Return(ErrorReply(n.error)) ELSE pc' = "run" /\ todo' = todo
      /\ resp' = Nil /\ result' = Nil /\ called' = {} /\ fault' = FALSE
      /\ UNCHANGED <<adapter, parts, flow, allow, http>>
  BY <1>1 DEF Execute, setup
<1>3. FlowInv /\ ObjectInv
  BY DEF Inv
<1>4. flow \in Flows /\ adapter \in Adapter \cup {"any"}
  BY <1>2, <1>3 DEF FlowInv
<1>5. w.header = object.header /\ w.header \in Header
  BY <1>1, <1>2, <1>3, FoundIs DEF ObjectInv
<1>6. Begins(w, n)
  BY <1>1, <1>4, <1>5, FlowBegins
<1>7. ObjectInv'
  <2>1. CASE adapter # "any" /\ ReadsBody(w)
    <3>1. object' = AfterRead(adapter, object, http) /\ reads' \in {1, 2} /\ adapter \in Adapter
      BY <1>2, <1>4, <2>1
    <3> QED BY <1>2, <1>3, <3>1, BodyReadIsLinked
  <2>2. CASE ~(adapter # "any" /\ ReadsBody(w))
    BY <1>2, <1>3, <2>2, SameObject
  <2> QED BY <2>1, <2>2
<1>8. CASE n.at = "Err"
  <2>1. n.error \notin Broken
    <3>1. "Err" \notin Stages(flow)
      BY <1>4 DEF Flows, Stages
    <3> QED BY <1>6, <1>8, <3>1 DEF Begins
  <2>2. Return(ErrorReply(n.error))
    BY <1>2, <1>8
  <2>3. pc' = "respond"
    BY <2>2 DEF Return
  <2>4. RespondInv'
    BY <1>2, <2>1, <2>2, ErrorIsRefusal, RefusalResponds DEF Excused, Issued
  <2>5. FlowInv'
    BY <1>2, <1>3, <2>3 DEF FlowInv
  <2>6. ServedInv' /\ StageInv' /\ ResultInv' /\ SecretNeedsPermission'
    BY <1>2, <2>3 DEF ServedInv, StageInv, ResultInv, SecretNeedsPermission
  <2> QED BY <1>7, <2>4, <2>5, <2>6 DEF Inv
<1>9. CASE n.at # "Err"
  <2>1. /\ pc' = "run" /\ n.at \in Stages(flow)
        /\ flow \in {"accesstoken", "refresh"} => Accepted(w)
        /\ n.at = "Authenticate" => Permitted(w, n)
    BY <1>2, <1>6, <1>9 DEF Begins
  <2>2. FlowInv'
    BY <1>2, <1>3, <2>1 DEF FlowInv
  <2>3. StageInv'
    BY <1>2, <2>1 DEF StageInv, Issued
  <2>4. RespondInv' /\ ResultInv'
    BY <2>1 DEF RespondInv, ResultInv
  <2>5. ServedInv'
    <3>1. SUFFICES ASSUME flow \in {"accesstoken", "refresh"}
                   PROVE  Served'
      BY <1>2 DEF ServedInv
    <3>2. ReadsBody(w)
      BY <2>1, <3>1 DEF ReadsBody, Accepted, Readable
    <3>3. reads' = IF adapter # "any" THEN (IF reads = 0 THEN 1 ELSE 2) ELSE reads
      BY <1>2, <3>2
    <3> QED BY <1>1, <1>2, <1>3, <1>4, <2>1, <3>1, <3>3, AcceptedIsServed
  <2>6. SecretNeedsPermission'
    <3>1. SUFFICES ASSUME n.at = "Authenticate", n.pass # Nil, ~allow
                   PROVE  (IF adapter = "any" THEN w.header ELSE TheHeader(http))
                            = [scheme |-> "Basic", client |-> n.client, pass |-> n.pass]
      BY <1>2 DEF SecretNeedsPermission, TheHeader
    <3>2. w.header = [scheme |-> "Basic", client |-> n.client, pass |-> n.pass]
      BY <2>1, <3>1 DEF Permitted
    <3>3. CASE adapter # "any"
      <4>1. object.header = IF TheHeader(http).scheme = "nontext" THEN NoHeader ELSE TheHeader(http)
        BY <1>2, <1>3, <3>3 DEF ObjectInv, Linked
      <4>2. w.header # NoHeader
        BY <3>2 DEF NoHeader
      <4> QED BY <1>5, <3>2, <3>3, <4>1, <4>2
    <3> QED BY <3>2, <3>3
  <2> QED BY <1>7, <2>2, <2>3, <2>4, <2>5, <2>6 DEF Inv
<1> QED BY <1>8, <1>9

----------------------------------------------------------------------------
(* The executor's steps *)

\* What holds before one.
Running ==
  /\ flow \in Flows /\ flow # "none" /\ Needs(flow) \subseteq parts /\ result = Nil
  /\ m.at \in Stages(flow) /\ ~fault /\ ~Issued
  /\ flow \in {"accesstoken", "refresh"} => Served

LEMMA RunIsRunning ==
  ASSUME Inv, pc = "run"
  PROVE  Running
BY DEF Inv, FlowInv, StageInv, ServedInv, Running

\* What a step of the executor leaves alone.
LEMMA RunStepKeeps ==
  ASSUME Inv, pc = "run", pc' \in {"run", "respond"},
         UNCHANGED <<adapter, parts, flow, http, object, web, result, reads>>
  PROVE  FlowInv' /\ ObjectInv' /\ ServedInv' /\ ResultInv'
<1>1. Running
  BY RunIsRunning
<1>2. FlowInv'
  BY <1>1 DEF Inv, FlowInv, Running
<1>3. ObjectInv'
  BY SameObject DEF Inv
<1>4. ServedInv'
  BY <1>1 DEF Running, ServedInv, Served, TheHeader
<1>5. ResultInv'
  BY DEF ResultInv
<1> QED BY <1>2, <1>3, <1>4, <1>5

\* A flow that is done sends a token, a redirect, or hands out a grant.
LEMMA DoneResponds ==
  ASSUME Running, Return(OkReply), ~fault', flow' = flow,
         called' = called \cup {m.at},
         flow = "authorization" => m.at \in {"TokenIssue", "Authorizing"},
         TokenFlow => m.at \in {"Issue", "Issuing"}
  PROVE  RespondInv'
<1>1. todo' = OkReply /\ Excused'
  BY DEF Return, Excused
<1>2. flow \in Flows /\ m.at \in Stages(flow)
  BY DEF Running
<1>3. CASE TokenFlow /\ OkReply = BearerReply
  <2>1. Issued'
    BY <1>3 DEF Issued
  <2>2. Writes("Ok")' /\ Deserved("Ok")'
    BY <1>1, <1>3, <2>1 DEF Writes, Deserved
  <2> QED BY <1>1, <2>2 DEF RespondInv, Status
<1>4. CASE flow = "resource" /\ OkReply = Give("Grant")
  BY <1>1, <1>4 DEF RespondInv
<1>5. CASE flow = "authorization" /\ OkReply = RedirectReply
  <2>1. Writes("Redirect")' /\ Deserved("Redirect")'
    BY <1>1, <1>5 DEF Writes, Deserved
  <2> QED BY <1>1, <2>1 DEF RespondInv, Status
<1>6. CASE /\ flow = "authorization"
           /\ OkReply = <<Make("Redirect"), Make("BadRequest"), <<"client_error">>, <<"body_json">>>>
  <2>1. Writes("BadRequest")' /\ Deserved("BadRequest")'
    BY <1>1, <1>6 DEF Writes, Deserved
  <2> QED BY <1>1, <2>1 DEF RespondInv, Status
<1> QED BY <1>2, <1>3, <1>4, <1>5, <1>6, DoneReply

LEMMA AnswerKeeps ==
  ASSUME Inv, Answer
  PROVE  Inv'
<1>1. pc = "run"
  BY DEF Answer, Ready
<1>2. Running
  BY <1>1, RunIsRunning
<1>3. PICK in \in Answers, now \in 0..1 : Answered(in, now)
  BY DEF Answer
<1>4. PICK step : step = Advance(in, now)
  OBVIOUS
<1>5. /\ m' = step.m
      /\ CASE step.out.kind = "Err" -> Return(ErrorReply(step.out.error))
           [] step.out.kind = "Ok" /\ step.m.at # "Pending" -> Return(OkReply)
           [] OTHER -> UNCHANGED <<pc, todo>>
      /\ called' = called \cup {m.at}
      /\ UNCHANGED <<adapter, parts, flow, http, object, web, result, reads, fault>>
  BY <1>3, <1>4 DEF Answered, setup, request
<1>6. Moves(step)
  BY <1>2, <1>4, FlowMoves DEF Running
<1>7. CASE /\ step.out.kind = "Err" /\ step.out.error \notin Broken
           /\ m.at \notin {"Issue", "Issuing"}
  <2>1. Return(ErrorReply(step.out.error))
    BY <1>5, <1>7
  <2>2. pc' = "respond"
    BY <2>1 DEF Return
  <2>3. ~Issued' /\ ~fault'
    BY <1>2, <1>5, <1>7 DEF Running, Issued
  <2>4. RespondInv'
    BY <1>5, <1>7, <2>1, <2>3, ErrorIsRefusal, RefusalResponds DEF Excused
  <2>5. StageInv' /\ SecretNeedsPermission'
    BY <2>2 DEF StageInv, SecretNeedsPermission
  <2> QED BY <1>1, <1>5, <2>2, <2>4, <2>5, RunStepKeeps DEF Inv
<1>8. CASE /\ step.out.kind = "Ok" /\ step.m.at # "Pending"
           /\ flow = "authorization" => m.at \in {"TokenIssue", "Authorizing"}
           /\ TokenFlow => m.at \in {"Issue", "Issuing"}
  <2>1. Return(OkReply)
    BY <1>5, <1>8
  <2>2. pc' = "respond"
    BY <2>1 DEF Return
  <2>3. ~fault'
    BY <1>2, <1>5 DEF Running
  <2>4. RespondInv'
    BY <1>2, <1>5, <1>8, <2>1, <2>3, DoneResponds
  <2>5. StageInv' /\ SecretNeedsPermission'
    BY <2>2 DEF StageInv, SecretNeedsPermission
  <2> QED BY <1>1, <1>5, <2>2, <2>4, <2>5, RunStepKeeps DEF Inv
<1>9. CASE /\ step.out.kind \notin {"Err", "Ok"} \/ (step.out.kind = "Ok" /\ step.m.at = "Pending")
           /\ step.m.at \in Stages(flow) \ {"Authenticate"}
           /\ m.at \notin {"Issue", "Issuing"}
  <2>1. pc' = "run"
    BY <1>1, <1>5, <1>9
  <2>2. ~Issued' /\ ~fault'
    BY <1>2, <1>5, <1>9 DEF Running, Issued
  <2>3. StageInv' /\ SecretNeedsPermission'
    BY <1>5, <1>9, <2>2 DEF StageInv, SecretNeedsPermission
  <2>4. RespondInv'
    BY <2>1 DEF RespondInv
  <2> QED BY <1>1, <1>5, <2>1, <2>3, <2>4, RunStepKeeps DEF Inv
<1> QED BY <1>6, <1>7, <1>8, <1>9 DEF Moves

LEMMA FailKeeps ==
  ASSUME Inv, Fail
  PROVE  Inv'
<1>1. pc = "run"
  BY DEF Fail, Ready
<1>2. Running
  BY <1>1, RunIsRunning
<1>3. PICK failure \in Failures : Failed(failure)
  BY DEF Fail
<1>4. PICK error, mine : error = failure[1] /\ mine = failure[2]
  OBVIOUS
<1>5. /\ Return(ErrorReply(error)) /\ fault' = mine
      /\ called' = called \cup {m.at}
      /\ UNCHANGED <<adapter, parts, flow, http, object, web, result, reads>>
  BY <1>3, <1>4 DEF Failed, setup, request
<1>6. pc' = "respond" /\ todo' = ErrorReply(error)
  BY <1>5 DEF Return
<1>7. StageInv' /\ SecretNeedsPermission'
  BY <1>6 DEF StageInv, SecretNeedsPermission
<1>8. RespondInv'
  <2>1. CASE mine = FALSE /\ error \notin Broken /\ m.at \notin {"Issue", "Issuing"}
    <3>1. Excused' /\ ~Issued'
      BY <1>2, <1>5, <2>1 DEF Excused, Running, Issued
    <3> QED BY <1>5, <2>1, <3>1, ErrorIsRefusal, RefusalResponds
  <2>2. CASE m.at \in ImplicitStages /\ error \notin Broken
    <3>1. Excused' /\ ~Issued'
      BY <1>2, <1>5, <2>2 DEF Excused, Running, Issued, ImplicitStages
    <3> QED BY <1>5, <2>2, <3>1, ErrorIsRefusal, RefusalResponds
  <2>3. CASE mine = TRUE /\ ErrorReply(error) = Give("PrimitiveError")
    BY <1>5, <1>6, <2>3 DEF RespondInv
  <2> QED BY <1>2, <1>3, <1>4, <2>1, <2>2, <2>3, FailureIsReported DEF Running
<1> QED BY <1>1, <1>5, <1>6, <1>7, <1>8, RunStepKeeps DEF Inv

\* A token flow never unwraps what the endpoint lacks.
LEMMA PanicKeeps ==
  ASSUME Inv, Panic
  PROVE  Inv'
<1>1. /\ pc = "run" /\ ~Ready /\ pc' = "dead"
      /\ UNCHANGED <<adapter, parts, flow, http, object, web, result, reads, called, fault, m>>
  BY DEF Panic, setup, request, history
<1>2. Running
  BY <1>1, RunIsRunning
<1>3. flow = "authorization"
  <2>1. SUFFICES ASSUME flow # "authorization" PROVE FALSE
    OBVIOUS
  <2>2. PartOf(m.at) \in Needs(flow) \cup {Nil}
    BY <1>2, <2>1, NeedsAreUsed DEF Running
  <2> QED BY <1>1, <1>2, <2>2 DEF Running, Ready
<1>4. FlowInv'
  BY <1>1, <1>3 DEF Inv, FlowInv
<1>5. ObjectInv'
  BY <1>1, SameObject DEF Inv
<1>6. ServedInv'
  BY <1>1, <1>3 DEF ServedInv
<1>7. StageInv' /\ RespondInv' /\ ResultInv' /\ SecretNeedsPermission'
  BY <1>1 DEF StageInv, RespondInv, ResultInv, SecretNeedsPermission
<1> QED BY <1>4, <1>5, <1>6, <1>7 DEF Inv

LEMMA ConsentKeeps ==
  ASSUME Inv, NEW answer \in {"Authorized", "Denied", "InProgress", "Error"}, Consent(answer)
  PROVE  Inv'
<1>1. /\ pc = "run" /\ m.at = "Pending" /\ called' = called \cup {"Pending"}
      /\ UNCHANGED <<adapter, parts, flow, http, object, web, result, reads, fault>>
  BY DEF Consent, Ready, setup, request
<1>2. Running
  BY <1>1, RunIsRunning
<1>3. flow = "authorization"
  BY <1>1, <1>2 DEF Running, Flows, Stages
<1>4. ~fault' /\ Excused' /\ ~Issued'
  BY <1>1, <1>2 DEF Running, Excused, Issued
<1>5. CASE answer = "Authorized"
  <2>1. m' = [at |-> "Authorizing"] /\ pc' = pc
    BY <1>5 DEF Consent
  <2>2. m'.at = "Authorizing" /\ pc' = "run"
    BY <1>1, <2>1
  <2>3. StageInv' /\ SecretNeedsPermission' /\ RespondInv'
    BY <1>1, <1>3, <1>4, <2>2 DEF StageInv, Stages, SecretNeedsPermission, RespondInv
  <2> QED BY <1>1, <2>2, <2>3, RunStepKeeps DEF Inv
<1>6. CASE answer # "Authorized"
  <2>1. /\ answer = "Denied" => Return(AuthorizationErrorReply("Redirect"))
        /\ answer = "InProgress" => Return(Give("Page"))
        /\ answer = "Error" => Return(Give("Web"))
    BY DEF Consent
  <2>2. AuthorizationErrorReply("Redirect") = RedirectReply
    BY DEF AuthorizationErrorReply
  <2>3. pc' = "respond" /\ todo' \in {RedirectReply, Give("Page"), Give("Web")}
    BY <1>6, <2>1, <2>2 DEF Return
  <2>4. RespondInv'
    <3>1. CASE todo' = RedirectReply
      <4>1. Writes("Redirect")' /\ Deserved("Redirect")'
        BY <1>1, <1>3, <3>1 DEF Writes, Deserved
      <4> QED BY <1>4, <4>1 DEF RespondInv, Status
    <3>2. CASE todo' \in {Give("Page"), Give("Web")}
      BY <1>4, <3>2 DEF RespondInv
    <3> QED BY <2>3, <3>1, <3>2
  <2>5. StageInv' /\ SecretNeedsPermission'
    BY <2>3 DEF StageInv, SecretNeedsPermission
  <2> QED BY <1>1, <2>3, <2>4, <2>5, RunStepKeeps DEF Inv
<1> QED BY <1>5, <1>6

----------------------------------------------------------------------------
(* The response *)

\* What the calls on the response leave alone.
LEMMA ResponseStepKeeps ==
  ASSUME Inv, pc = "respond", pc' \in {"idle", "respond"}, pc' # "idle" => result' = result,
         UNCHANGED <<adapter, parts, flow, http, object, web, reads, called>>
  PROVE  FlowInv' /\ ObjectInv' /\ ServedInv' /\ StageInv' /\ SecretNeedsPermission'
<1>1. FlowInv'
  BY DEF Inv, FlowInv
<1>2. ObjectInv'
  BY SameObject DEF Inv
<1>3. ServedInv'
  BY DEF Inv, ServedInv, Served, TheHeader
<1>4. StageInv' /\ SecretNeedsPermission'
  BY DEF StageInv, SecretNeedsPermission
<1> QED BY <1>1, <1>2, <1>3, <1>4

\* The calls that are left either return something or write a response.
LEMMA ReturnsOrWrites ==
  ASSUME Inv, pc = "respond"
  PROVE  \/ Head(todo)[1] = "return" /\ Head(todo)[2] = "PrimitiveError" /\ fault
         \/ /\ Head(todo)[1] = "return" /\ Excused
            /\ Head(todo)[2] \in {"DenySilently", "Page", "Web", "Grant"}
         \/ Excused /\ \E status \in Status : Writes(status) /\ Deserved(status)
<1>1. \A what : Head(Give(what))[1] = "return" /\ Head(Give(what))[2] = what
  BY DEF Give
<1>2. RespondInv
  BY DEF Inv
<1> QED BY <1>1, <1>2 DEF RespondInv

LEMMA RespondKeeps ==
  ASSUME Inv, Respond
  PROVE  Inv'
<1>1. /\ pc = "respond" /\ Head(todo)[1] # "return"
      /\ resp' = Written(Head(todo)) /\ todo' = Tail(todo)
      /\ IF Len(todo) = 1 THEN pc' = "idle" /\ result' = "Response"
         ELSE pc' = pc /\ result' = result
      /\ UNCHANGED <<adapter, parts, flow, http, object, web, reads, called, fault>>
  BY DEF Respond, setup, request, history
<1>2. Excused
  BY <1>1, ReturnsOrWrites
<1>3. PICK status \in Status : Writes(status) /\ Deserved(status)
  BY <1>1, ReturnsOrWrites
<1>4. IF Len(todo) = 1 THEN Settled(status)' ELSE Writes(status)'
  BY <1>1, <1>3, RespondWrites
<1>5. Deserved(status)' /\ Excused'
  BY <1>1, <1>2, <1>3 DEF Deserved, Issued, Excused
<1>6. FlowInv' /\ ObjectInv' /\ ServedInv' /\ StageInv' /\ SecretNeedsPermission'
  BY <1>1, ResponseStepKeeps
<1>7. CASE Len(todo) = 1
  <2>1. pc' = "idle" /\ result' = "Response" /\ Settled(status)'
    BY <1>1, <1>4, <1>7
  <2>2. RespondInv'
    BY <2>1 DEF RespondInv
  <2>3. ResultInv'
    BY <1>5, <2>1 DEF ResultInv, Excused
  <2> QED BY <1>6, <2>2, <2>3 DEF Inv
<1>8. CASE Len(todo) # 1
  <2>1. pc' = "respond" /\ Writes(status)'
    BY <1>1, <1>4, <1>8
  <2>2. RespondInv'
    BY <1>5, <2>1 DEF RespondInv
  <2>3. ResultInv'
    BY <2>1 DEF ResultInv
  <2> QED BY <1>6, <2>2, <2>3 DEF Inv
<1> QED BY <1>7, <1>8

LEMMA RespondFailsKeeps ==
  ASSUME Inv, RespondFails
  PROVE  Inv'
<1>1. /\ pc = "respond" /\ Head(todo)[1] # "return" /\ pc' = "idle" /\ result' = "Web"
      /\ UNCHANGED <<adapter, parts, flow, http, object, web, reads, called, fault>>
  BY DEF RespondFails, setup, request, history
<1>2. Excused
  BY <1>1, ReturnsOrWrites
<1>3. FlowInv' /\ ObjectInv' /\ ServedInv' /\ StageInv' /\ SecretNeedsPermission'
  BY <1>1, ResponseStepKeeps
<1>4. RespondInv' /\ ResultInv'
  BY <1>1, <1>2 DEF RespondInv, ResultInv, Excused
<1> QED BY <1>3, <1>4 DEF Inv

LEMMA ReturnOtherKeeps ==
  ASSUME Inv, ReturnOther
  PROVE  Inv'
<1>1. /\ pc = "respond" /\ Head(todo)[1] = "return" /\ pc' = "idle" /\ result' = Head(todo)[2]
      /\ UNCHANGED <<adapter, parts, flow, http, object, web, reads, called, fault>>
  BY DEF ReturnOther, setup, request, history
<1>2. \A status : ~Writes(status)
  <2>1. ASSUME NEW status, Writes(status) PROVE Head(todo)[1] # "return"
    BY <2>1 DEF Writes, BearerReply, RedirectReply, ClientErrorReply, Make
  <2> QED BY <1>1, <2>1
<1>3. \/ result' = "PrimitiveError" /\ fault
      \/ Excused /\ result' \in {"DenySilently", "Page", "Web", "Grant"}
  BY <1>1, <1>2, ReturnsOrWrites
<1>4. FlowInv' /\ ObjectInv' /\ ServedInv' /\ StageInv' /\ SecretNeedsPermission'
  BY <1>1, ResponseStepKeeps
<1>5. RespondInv' /\ ResultInv'
  BY <1>1, <1>3 DEF RespondInv, ResultInv, Excused
<1> QED BY <1>4, <1>5 DEF Inv

----------------------------------------------------------------------------
(* The theorems *)

LEMMA InitInv == Init => Inv
<1>1. SUFFICES ASSUME Init PROVE Inv
  OBVIOUS
<1>2. /\ flow = "none" /\ pc = "idle" /\ called = {} /\ fault = FALSE /\ result = Nil
      /\ object = Nil /\ adapter \in Adapter \cup {"any"}
  BY <1>1 DEF Init
<1>3. result # "Response" /\ result # "PrimitiveError"
  BY <1>2, EndpointsAssumption DEF Result
<1>4. FlowInv /\ ObjectInv
  BY <1>2 DEF FlowInv, ObjectInv
<1>5. ServedInv /\ StageInv /\ RespondInv /\ ResultInv /\ SecretNeedsPermission
  BY <1>2, <1>3 DEF ServedInv, StageInv, RespondInv, ResultInv, SecretNeedsPermission
<1> QED BY <1>4, <1>5 DEF Inv

LEMMA StutterKeeps ==
  ASSUME Inv, UNCHANGED vars
  PROVE  Inv'
<1>1. UNCHANGED <<adapter, parts, flow, allow, http, object, web, m, pc, todo, resp, result,
                  called, fault, reads>>
  BY DEF vars, setup, request, history
<1>2. ObjectInv'
  BY <1>1, SameObject DEF Inv
<1>3. FlowInv' /\ ServedInv' /\ StageInv' /\ SecretNeedsPermission'
  BY <1>1 DEF Inv, FlowInv, ServedInv, Served, StageInv, Issued, SecretNeedsPermission, TheHeader
<1>4. RespondInv'
  BY <1>1 DEF Inv, RespondInv, Writes, Fresh, Settled, Deserved, Excused, Issued
<1>5. ResultInv'
  BY <1>1 DEF Inv, ResultInv, Settled, Deserved, Issued
<1> QED BY <1>2, <1>3, <1>4, <1>5 DEF Inv

LEMMA NextKeeps == Inv /\ [Next]_vars => Inv'
<1>1. SUFFICES ASSUME Inv, [Next]_vars PROVE Inv'
  OBVIOUS
<1>2. ASSUME NEW f \in Flows, Prepare(f) \/ AdHoc(f) \/ GenericFlow(f) PROVE Inv'
  BY <1>1, <1>2, PrepareKeeps, AdHocKeeps, GenericFlowKeeps
<1>3. CASE Drop \/ \E b \in BOOLEAN : AllowCredentialsInBody(b)
  BY <1>1, <1>3, DropKeeps, AllowCredentialsInBodyKeeps
<1>4. CASE \E w \in WebRequests : Receive(w)
  BY <1>1, <1>4, ReceiveKeeps
<1>5. CASE \E msg \in Messages, resource \in BOOLEAN : ReceiveHttp(msg, resource)
  BY <1>1, <1>5, ReceiveHttpKeeps
<1>6. CASE GiveBody \/ Execute
  BY <1>1, <1>6, GiveBodyKeeps, ExecuteKeeps
<1>7. CASE Answer \/ Fail \/ Panic
  BY <1>1, <1>7, AnswerKeeps, FailKeeps, PanicKeeps
<1>8. CASE \E answer \in {"Authorized", "Denied", "InProgress", "Error"} : Consent(answer)
  BY <1>1, <1>8, ConsentKeeps
<1>9. CASE Respond \/ RespondFails \/ ReturnOther
  BY <1>1, <1>9, RespondKeeps, RespondFailsKeeps, ReturnOtherKeeps
<1>10. CASE UNCHANGED vars
  BY <1>1, <1>10, StutterKeeps
<1> QED
  BY <1>1, <1>2, <1>3, <1>4, <1>5, <1>6, <1>7, <1>8, <1>9, <1>10 DEF Next, Flows

\* The invariant of the flows: where the executor is, what is left of the
\* message, and what the calls that remain make of the response.
THEOREM EndpointsInvariant == Spec => []Inv
<1>1. Init => Inv
  BY InitInv
<1>2. Inv /\ [Next]_vars => Inv'
  BY NextKeeps
<1> QED BY <1>1, <1>2, PTL DEF Spec

\* prepare of the token and resource flows asks for every part that execute
\* unwraps, and the functions of frontends/simple give what it asks for.
THEOREM PreparedFlowsNeverPanic == Spec => []PreparedHasItsParts
<1>1. Inv => PreparedHasItsParts
  BY DEF Inv, FlowInv, PreparedHasItsParts
<1> QED BY <1>1, EndpointsInvariant, PTL

\* A registrar is asked about a passphrase of the body only by a flow that was
\* told to allow it, whatever the request has and however often its keys are
\* repeated.
THEOREM SecretsNeedPermission == Spec => []SecretNeedsPermission
<1>1. Inv => SecretNeedsPermission
  BY DEF Inv
<1> QED BY <1>1, EndpointsInvariant, PTL

\* No reply is built on top of another one: a response that is sent has the
\* header that belongs to its status, and no other.
THEOREM AnswersAreCoherent == Spec => []CoherentAnswer
<1>1. Inv => CoherentAnswer
  <2>1. SUFFICES ASSUME Inv, result = "Response"
                 PROVE  /\ resp.location <=> resp.status = "Redirect"
                        /\ resp.challenge <=> resp.status = "Unauthorized"
    BY DEF CoherentAnswer
  <2>2. pc = "idle"
    BY <2>1, EndpointsAssumption DEF Inv, FlowInv, Result
  <2>3. PICK status \in Status : Settled(status)
    BY <2>1, <2>2 DEF Inv, ResultInv
  <2> QED BY <2>3 DEF Settled
<1> QED BY <1>1, EndpointsInvariant, PTL

\* A token flow answers 200 exactly if the issuer has made a token.
THEOREM OkMeansIssued == Spec => []OkIffIssued
<1>1. Inv => OkIffIssued
  <2>1. SUFFICES ASSUME Inv, result = "Response", flow \in {"accesstoken", "refresh"}
                 PROVE  resp.status = "Ok" <=> called \cap {"Issue", "Issuing"} # {}
    BY DEF OkIffIssued
  <2>2. pc = "idle"
    BY <2>1, EndpointsAssumption DEF Inv, FlowInv, Result
  <2>3. PICK status \in Status : Settled(status) /\ Deserved(status)
    BY <2>1, <2>2 DEF Inv, ResultInv
  <2> QED BY <2>1, <2>3 DEF Settled, Deserved, Issued
<1> QED BY <1>1, EndpointsInvariant, PTL

\* What fails for a reason of the server's is answered 500, and with iron and
\* rocket nothing else is.
THEOREM FailuresAreTheServers == Spec => []FailureIsNotTheClients
<1>1. Inv => FailureIsNotTheClients
  <2>1. SUFFICES ASSUME Inv, pc = "idle" PROVE FailureIsNotTheClients
    BY DEF FailureIsNotTheClients
  <2>2. /\ fault /\ called \cap ImplicitStages = {} => result = "PrimitiveError"
        /\ result = "PrimitiveError" => fault
    BY <2>1 DEF Inv, ResultInv
  <2>3. adapter \in {"actix", "iron", "rocket"} /\ result = "PrimitiveError" => Answer500
    BY DEF Answer500, ErrorStatus
  <2>4. adapter \in {"iron", "rocket"} /\ Answer500 => result = "PrimitiveError"
    BY DEF Answer500, ErrorStatus
  <2> QED BY <2>2, <2>3, <2>4 DEF FailureIsNotTheClients, ImplicitStages
<1> QED BY <1>1, EndpointsInvariant, PTL

\* A token request that reaches a primitive came as a form with a usable
\* header; with iron and rouille no other flow has read it before.
THEOREM OnlyFreshFormsAreServed == Spec => []OnlyAFreshFormIsServed
<1>1. Inv => OnlyAFreshFormIsServed
  BY DEF Inv, ServedInv, Served, OnlyAFreshFormIsServed
<1> QED BY <1>1, EndpointsInvariant, PTL

----------------------------------------------------------------------------
(* Repeated parameters in the four flows *)

\* Both representations answer the same with and without the repeated ones.
LEMMA OnceHasTheSameValues ==
  ASSUME NEW pairs \in Form, pairs # Bad, NEW key
  PROVE  Once(pairs) # Bad /\ UniqueValue(Once(pairs), key) = UniqueValue(pairs, key)
<1>1. pairs \in Seq(Pair)
  BY DEF Form
<1>2. PICK rest : rest = Once(pairs)
  OBVIOUS
<1>3. rest \in Seq(Pair)
  BY <1>1, <1>2, OnceKeeps DEF Keeps
<1>4. rest # Bad
  BY <1>3, EndpointsAssumption
<1>5. /\ Len(pairs) \in Nat /\ DOMAIN pairs = 1 .. Len(pairs)
      /\ Len(rest) \in Nat /\ DOMAIN rest = 1 .. Len(rest)
  BY <1>1, <1>3
<1>6. PICK v, u : v = UniqueValue(rest, key) /\ u = UniqueValue(pairs, key)
  OBVIOUS
<1>7. Says(rest, Len(rest), key, v) /\ Says(pairs, Len(pairs), key, u)
  BY <1>5, <1>6, PairsSay, NormalizedSays DEF UniqueValue
<1>8. Says(pairs, Len(pairs), key, v)
  BY <1>1, <1>2, <1>7, OnceSaysTheSame
<1>9. v = u
  BY <1>7, <1>8, SaysOneValue
<1> QED BY <1>2, <1>4, <1>6, <1>9

LEMMA OnceWrapsTheSame ==
  ASSUME flow \in Flows, NEW w, w = WebRequest(w.query, w.body, w.header),
         w.query \in Form, w.body \in Form
  PROVE  Wrap([w EXCEPT !.query = Once(@), !.body = Once(@)]) = Wrap(w)
<1>1. PICK o : o = [w EXCEPT !.query = Once(@), !.body = Once(@)]
  OBVIOUS
<1>2. o.query = Once(w.query) /\ o.body = Once(w.body) /\ o.header = w.header
  BY <1>1 DEF WebRequest
<1>3. Once(Bad) = Bad
  BY DEF Once
<1>4. /\ o.query = Bad <=> w.query = Bad
      /\ o.body = Bad <=> w.body = Bad
      /\ \A key : w.query # Bad => UniqueValue(o.query, key) = UniqueValue(w.query, key)
      /\ \A key : w.body # Bad => UniqueValue(o.body, key) = UniqueValue(w.body, key)
  BY <1>2, <1>3, OnceHasTheSameValues
<1>5. Readable(o) = Readable(w)
  <2>1. (o.body # Bad) = (w.body # Bad)
    BY <1>4
  <2> QED BY <1>2, <2>1 DEF Readable
<1>6. \A key : (IF Readable(o) THEN UniqueValue(o.body, key) ELSE Nil)
               = (IF Readable(w) THEN UniqueValue(w.body, key) ELSE Nil)
  BY <1>4, <1>5 DEF Readable
<1>7. Authorization(o) = Authorization(w)
  BY <1>2 DEF Authorization
<1>8. WrapAuthorization(o) = WrapAuthorization(w)
  <2>1. \A key : (IF o.query = Bad THEN Nil ELSE UniqueValue(o.query, key))
                 = (IF w.query = Bad THEN Nil ELSE UniqueValue(w.query, key))
    BY <1>4
  <2>2. (o.query # Bad) = (w.query # Bad)
    BY <1>4
  <2> QED BY <2>1, <2>2, Zenon DEF WrapAuthorization
<1>9. WrapAccessToken(o) = WrapAccessToken(w)
  <2>1. (Readable(o) /\ allow) = (Readable(w) /\ allow)
    <3>1. Readable(o) <=> Readable(w)
      BY <1>5
    <3> QED BY <3>1
  <2>2. (IF Readable(o) THEN Authorization(o) ELSE Nil)
          = (IF Readable(w) THEN Authorization(w) ELSE Nil)
    BY <1>5, <1>7
  <2> QED BY <1>5, <1>6, <2>1, <2>2, Zenon DEF WrapAccessToken
<1>10. WrapRefresh(o) = WrapRefresh(w)
  <2>1. (IF Readable(o) THEN Authorization(o) ELSE Nil)
          = (IF Readable(w) THEN Authorization(w) ELSE Nil)
    BY <1>5, <1>7
  <2> QED BY <1>5, <1>6, <2>1, Zenon DEF WrapRefresh
<1>11. WrapResource(o) = WrapResource(w)
  BY <1>2 DEF WrapResource
<1>12. /\ flow = "authorization" => Wrap(o) = WrapAuthorization(o) /\ Wrap(w) = WrapAuthorization(w)
       /\ flow = "accesstoken" => Wrap(o) = WrapAccessToken(o) /\ Wrap(w) = WrapAccessToken(w)
       /\ flow = "refresh" => Wrap(o) = WrapRefresh(o) /\ Wrap(w) = WrapRefresh(w)
       /\ flow = "resource" => Wrap(o) = WrapResource(o) /\ Wrap(w) = WrapResource(w)
  BY DEF Wrap
<1>13. Wrap(o) = Wrap(w)
  BY <1>8, <1>9, <1>10, <1>11, <1>12 DEF Flows
<1> QED BY <1>1, <1>13

\* The request of the executor is still the one that was made of the web
\* request, whose query and body are sequences of pairs or cannot be read.
FormInv ==
  /\ object # Nil => object.query \in Form /\ object.body \in Form \cup {Nil}
  /\ pc = "run" =>
       /\ web = WebRequest(web.query, web.body, web.header)
       /\ web.query \in Form /\ web.body \in Form
       /\ req = Wrap(web)

LEMMA FormStays ==
  ASSUME FormInv, object' = object,
         pc' = "run" => pc = "run" /\ UNCHANGED <<web, req, flow, allow, build, adapter>>
  PROVE  FormInv'
<1>1. CASE pc' # "run"
  BY <1>1 DEF FormInv
<1>2. CASE pc' = "run"
  <2>1. pc = "run" /\ UNCHANGED <<web, req, flow, allow, build, adapter>>
    BY <1>2
  <2>2. Wrap(web)' = Wrap(web)
    BY <2>1 DEF Wrap, WrapAuthorization, WrapAccessToken, WrapRefresh, WrapResource,
                Readable, Authorization, UniqueValue
  <2> QED BY <2>1, <2>2 DEF FormInv
<1> QED BY <1>1, <1>2

LEMMA ReceiveHasForm ==
  ASSUME Inv, FormInv, \E w \in WebRequests : Receive(w)
  PROVE  FormInv'
<1>1. PICK w \in WebRequests : Receive(w)
  OBVIOUS
<1>2. object' = w /\ pc' = "idle" /\ w.query \in Form /\ w.body \in Form
  BY <1>1, EndpointsAssumption DEF Receive
<1> QED BY <1>2 DEF FormInv

LEMMA ReceiveHttpHasForm ==
  ASSUME Inv, FormInv, NEW msg \in Messages, NEW resource \in BOOLEAN, ReceiveHttp(msg, resource)
  PROVE  FormInv'
<1>1. adapter \in Adapter /\ object' = NewRequest(adapter, msg, resource) /\ pc' = "idle"
  BY DEF Inv, FlowInv, ReceiveHttp
<1>2. msg.query \in Form /\ msg.body \in Form /\ Bad \in Form
  BY EndpointsAssumption DEF Form
<1>3. \/ object' = Nil
      \/ \E q, b, h : /\ object' = WebRequest(q, b, h)
                      /\ q \in {msg.query, Bad} /\ b \in {msg.body, Bad, Nil}
  <2>1. CASE adapter = "actix"
    <3>1. object' = ActixRequest(msg, resource)
      BY <1>1, <2>1 DEF NewRequest
    <3> QED BY <3>1 DEF ActixRequest
  <2>2. CASE adapter = "iron"
    <3>1. object' = IronRequest(msg)
      BY <1>1, <2>2 DEF NewRequest
    <3> QED BY <3>1 DEF IronRequest
  <2>3. CASE adapter = "rouille"
    <3>1. object' = RouilleRequest(msg)
      BY <1>1, <2>3 DEF NewRequest
    <3> QED BY <3>1 DEF RouilleRequest
  <2>4. CASE adapter = "rocket"
    <3>1. object' = RocketRequest(msg)
      BY <1>1, <2>4 DEF NewRequest
    <3> QED BY <3>1 DEF RocketRequest
  <2> QED BY <1>1, <2>1, <2>2, <2>3, <2>4 DEF Adapter
<1>4. object' # Nil => object'.query \in {msg.query, Bad} /\ object'.body \in {msg.body, Bad, Nil}
  BY <1>3 DEF WebRequest
<1> QED BY <1>1, <1>2, <1>4 DEF FormInv

LEMMA GiveBodyHasForm ==
  ASSUME Inv, FormInv, GiveBody
  PROVE  FormInv'
<1>1. /\ pc' = "idle" /\ object # Nil /\ object' = AddBody(object, http) /\ http \in Messages
      /\ object = WebRequest(object.query, object.body, object.header)
  BY DEF GiveBody, Inv, ObjectInv
<1>2. http.body \in Form
  BY <1>1, EndpointsAssumption
<1>3. object'.query = object.query /\ object'.body \in {object.body, http.body}
  BY <1>1 DEF AddBody, WebRequest
<1> QED BY <1>1, <1>2, <1>3 DEF FormInv

LEMMA ExecuteHasForm ==
  ASSUME Inv, FormInv, Execute
  PROVE  FormInv'
<1>1. PICK w : w = Found(object)
  OBVIOUS
<1>2. /\ object # Nil /\ web' = w /\ req' = Wrap(w)
      /\ object' = object \/ object' = AfterRead(adapter, object, http)
      /\ UNCHANGED <<flow, allow, build, adapter>>
  BY <1>1 DEF Execute, setup
<1>3. /\ object = WebRequest(object.query, object.body, object.header)
      /\ object.query \in Form /\ object.body \in Form \cup {Nil}
  BY <1>2 DEF Inv, ObjectInv, FormInv
<1>4. Bad \in Form /\ <<>> \in Form
  BY DEF Form
<1>5. /\ w = WebRequest(w.query, w.body, w.header)
      /\ w.query = object.query /\ w.body = IF object.body = Nil THEN Bad ELSE object.body
  BY <1>1, <1>3 DEF Found, WebRequest
<1>6. \E b : object' = WebRequest(object.query, b, object.header) /\ b \in {object.body, <<>>, Bad}
  <2>1. CASE object' = object
    BY <1>3, <2>1
  <2>2. CASE object' = AfterRead(adapter, object, http)
    BY <1>3, <2>2 DEF AfterRead, WebRequest
  <2> QED BY <1>2, <2>1, <2>2
<1>7. object'.query = object.query /\ object'.body \in {object.body, <<>>, Bad}
  BY <1>6 DEF WebRequest
<1>8. Wrap(web)' = Wrap(w)
  BY <1>2 DEF Wrap, WrapAuthorization, WrapAccessToken, WrapRefresh, WrapResource,
              Readable, Authorization, UniqueValue
<1> QED BY <1>2, <1>3, <1>4, <1>5, <1>7, <1>8 DEF FormInv

LEMMA NextHasForm == Inv /\ FormInv /\ [Next]_vars => FormInv'
<1>1. SUFFICES ASSUME Inv, FormInv, [Next]_vars PROVE FormInv'
  OBVIOUS
<1>2. ASSUME NEW f \in Flows, Prepare(f) \/ AdHoc(f) \/ GenericFlow(f) PROVE FormInv'
  <2>1. object' = object /\ pc' # "run"
    <3>1. pc = "idle"
      BY <1>1, <1>2 DEF Inv, FlowInv, Prepare, AdHoc, GenericFlow
    <3> QED BY <1>2, <3>1 DEF Prepare, AdHoc, GenericFlow, request
  <2> QED BY <1>1, <2>1, FormStays
<1>3. CASE Drop \/ \E b \in BOOLEAN : AllowCredentialsInBody(b)
  <2>1. object' = object /\ pc' # "run"
    BY <1>3 DEF Drop, AllowCredentialsInBody, request
  <2> QED BY <1>1, <2>1, FormStays
<1>4. CASE \E w \in WebRequests : Receive(w)
  BY <1>1, <1>4, ReceiveHasForm
<1>5. CASE \E msg \in Messages, resource \in BOOLEAN : ReceiveHttp(msg, resource)
  BY <1>1, <1>5, ReceiveHttpHasForm
<1>6. CASE GiveBody \/ Execute
  BY <1>1, <1>6, GiveBodyHasForm, ExecuteHasForm
<1>7. CASE Answer \/ Fail \/ Panic \/ \E answer \in {"Authorized", "Denied", "InProgress", "Error"} :
                                        Consent(answer)
  <2>1. object' = object /\ pc = "run" /\ UNCHANGED <<web, req, flow, allow, build, adapter>>
    <3>1. CASE Answer
      BY <3>1 DEF Answer, Answered, Ready, setup, request
    <3>2. CASE Fail
      BY <3>2 DEF Fail, Failed, Ready, setup, request
    <3>3. CASE Panic
      BY <3>3 DEF Panic, setup, request
    <3>4. CASE \E answer \in {"Authorized", "Denied", "InProgress", "Error"} : Consent(answer)
      BY <3>4 DEF Consent, Ready, setup, request
    <3> QED BY <1>7, <3>1, <3>2, <3>3, <3>4
  <2> QED BY <1>1, <2>1, FormStays
<1>8. CASE Respond \/ RespondFails \/ ReturnOther
  <2>1. object' = object /\ pc' # "run"
    BY <1>8 DEF Respond, RespondFails, ReturnOther, request
  <2> QED BY <1>1, <2>1, FormStays
<1>9. CASE UNCHANGED vars
  <2>1. UNCHANGED <<object, pc, web, req, flow, allow, build, adapter>>
    BY <1>9 DEF vars, setup, request
  <2> QED BY <1>1, <2>1, FormStays
<1> QED
  BY <1>1, <1>2, <1>3, <1>4, <1>5, <1>6, <1>7, <1>8, <1>9 DEF Next, Flows

\* However a query or body repeats its keys, and whether it is searched pair
\* by pair or normalized first, the executor is given the request it would be
\* given had the client left the repeated parameters out.
THEOREM RepeatedParametersAreAbsent == Spec => []RepeatedIsAbsent
<1>1. Init => FormInv
  BY DEF Init, FormInv
<1>2. Inv /\ FormInv /\ [Next]_vars => FormInv'
  BY NextHasForm
<1>3. Inv /\ FormInv => RepeatedIsAbsent
  <2>1. SUFFICES ASSUME Inv, FormInv, pc = "run"
                 PROVE  req = Wrap([web EXCEPT !.query = Once(@), !.body = Once(@)])
    BY DEF RepeatedIsAbsent
  <2>2. flow \in Flows
    BY <2>1 DEF Inv, FlowInv
  <2>3. /\ web = WebRequest(web.query, web.body, web.header)
        /\ web.query \in Form /\ web.body \in Form
        /\ req = Wrap(web)
    BY <2>1 DEF FormInv
  <2> QED BY <2>2, <2>3, OnceWrapsTheSame
<1> QED BY <1>1, <1>2, <1>3, EndpointsInvariant, PTL DEF Spec
=============================================================================
