---------------------------- MODULE MachinesProof ----------------------------
(***************************************************************************)
(* Theorems about the state machines, for every request, every set of grants *)
(* and every sequence of inputs.                                             *)
(***************************************************************************)
EXTENDS Machines, FiniteSetTheorems, SequenceTheorems, TLAPS

\* The client an access token request names.
Named == IF req.header = Nil THEN req.client ELSE req.header[1]

\* The part of OkRestsOnFittingGrant that is about the grant, per flow.
FitsCode(g) == g.client = Named /\ g.uri = ToUrl(req.uri) /\ g.until >= given.now

FitsRefresh(g) == /\ req.header # Nil => g.client = req.header[1]
                  /\ g.until > given.now

\* How far the inputs have come when a machine is in state m.
AuthorizationInv ==
  /\ req \in AuthorizationRequest
  /\ m.at \in {"Err", "Binding", "Extending", "Negotiating", "Pending"}
  /\ m.at = "Binding" => trail = <<>>
  /\ m.at = "Extending" => trail = <<"Bound">>
  /\ m.at = "Negotiating" => trail = <<"Bound", "Extended">>
  /\ m.at = "Pending" => trail = <<"Bound", "Extended", "Negotiated">>
  /\ out.kind = "Ok" => m.at = "Pending"

\* The grant in the machine is the one given, and fits.
AccessTokenInv ==
  /\ req \in AccessTokenRequest
  /\ m.at \in {"Err", "Authenticate", "Recover", "Extend", "Issue"}
  /\ m.at \in {"Authenticate", "Recover"} => m.client = Named /\ m.uri = ToUrl(req.uri)
  /\ m.at \in {"Extend", "Issue"} => m.grant.scope = given.grant.scope /\ FitsCode(given.grant)
  /\ m.at = "Extend" => m.grant \in Grant
  /\ m.at = "Authenticate" => trail = <<>>
  /\ m.at = "Recover" => trail = <<"Authenticated">>
  /\ m.at = "Extend" => trail = <<"Authenticated", "Recovered">>
  /\ m.at = "Issue" => trail = <<"Authenticated", "Recovered", "Extended">>
  /\ out.kind = "Ok" => /\ m.at = "Err" /\ FitsCode(given.grant)
                        /\ out.scope = given.grant.scope
                        /\ trail = <<"Authenticated", "Recovered", "Extended", "Issued">>

RefreshInv ==
  LET first == IF req.header = Nil THEN "Recovered" ELSE "Authenticated"
      second == IF req.header = Nil THEN "Authenticated" ELSE "Recovered"
  IN
  /\ req \in RefreshRequest
  /\ m.at \in {"Err", "Authenticating", "Recovering", "CoAuthenticating", "Issuing"}
  /\ m.at = "Authenticating" => req.header # Nil /\ m.client = req.header[1] /\ trail = <<>>
  /\ m.at = "Recovering" =>
       IF req.header = Nil THEN m.authenticated = Nil /\ trail = <<>>
       ELSE m.authenticated = req.header[1] /\ trail = <<first>>
  /\ m.at = "CoAuthenticating" => /\ req.header = Nil /\ trail = <<first>>
                                  /\ m.grant \in Grant /\ m.grant = given.grant
  /\ m.at = "Issuing" => /\ trail = <<first, second>>
                         /\ FitsRefresh(given.grant)
                         /\ m.grant.scope \subseteq given.grant.scope
  /\ out.kind = "Ok" => /\ m.at = "Err" /\ trail = <<first, second, "Refreshed">>
                        /\ FitsRefresh(given.grant)
                        /\ out.scope \subseteq given.grant.scope

ResourceInv ==
  /\ m.at \in {"Err", "New", "Internalized", "Recovering"}
  /\ m.at = "New" => trail = <<>>
  /\ m.at = "Internalized" => trail = <<"Request">>
  /\ m.at = "Recovering" => trail = <<"Request", "Scopes">>
  /\ out.kind = "Ok" => /\ m.at = "Err" /\ trail = <<"Request", "Scopes", "Recovered">>
                        /\ given.grant.until >= given.now

\* An Ok is the last thing a machine says before its errors, and these repeat.
OutInv ==
  /\ flow # "authorization" => oks = 0 \/ (oks = 1 /\ m.at = "Err")
  /\ out.kind = "Err" => m.at = "Err" /\ out = OutErr(m.error)

Inv ==
  /\ flow \in {"authorization", "accesstoken", "refresh", "resource"}
  /\ now \in Nat /\ given.now \in Nat /\ given.now <= now
  /\ given = [scopes |-> given.scopes, grant |-> given.grant, now |-> given.now]
  /\ flow = "authorization" => AuthorizationInv
  /\ flow = "accesstoken" => AccessTokenInv
  /\ flow = "refresh" => RefreshInv
  /\ flow = "resource" => ResourceInv
  /\ OutInv

----------------------------------------------------------------------------
(* Operators *)

\* The order of scopes, defined by counting, implies inclusion.
LEMMA PriviledgedToIsInclusion ==
  ASSUME NEW self \in Scope, NEW rhs \in Scope
  PROVE  PriviledgedTo(self, rhs) <=> rhs \subseteq self
<1>1. IsFiniteSet(rhs) /\ IsFiniteSet(self)
  BY ScopesAssumption, FS_Subset DEF Scope
<1>2. /\ Cardinality(rhs \cap self) = Cardinality(rhs) => rhs \cap self = rhs
      /\ Cardinality(rhs) \in Nat
  BY <1>1, FS_Subset, FS_CardinalityType
<1>3. PriviledgedTo(self, rhs) <=> Cardinality(rhs \cap self) = Cardinality(rhs)
  BY DEF PriviledgedTo, PartialCmp
<1>4. rhs \cap self = rhs <=> rhs \subseteq self
  OBVIOUS
<1> QED BY <1>2, <1>3, <1>4

\* Two elements make a set of two, and one can be chosen from one only.
LEMMA PairHasTwo ==
  ASSUME NEW a, NEW b, a # b
  PROVE  Cardinality({a} \cup {b}) = 2
<1>1. IsFiniteSet({a}) /\ Cardinality({a}) = 1
  BY FS_Singleton
<1>2. Cardinality({a} \cup {b}) = Cardinality({a}) + 1
  BY <1>1, FS_AddElement
<1> QED BY <1>1, <1>2

LEMMA ChooseOfOne ==
  ASSUME NEW S, NEW a, S = {a}
  PROVE  (CHOOSE x \in S : TRUE) = a
OBVIOUS

\* A request with exactly one set of credentials names one client.
LEMMA OneCredential ==
  ASSUME NEW r \in AccessTokenRequest, Cardinality(Credentials(r)) = 1
  PROVE  LET cred == CHOOSE cred \in Credentials(r) : TRUE
         IN  cred[2] = IF r.header = Nil THEN r.client ELSE r.header[1]
<1> DEFINE h == <<"header", r.header[1], r.header[2]>>
           b == <<"body", r.client, IF r.body THEN r.secret ELSE Nil>>
<1>1. h # b
  OBVIOUS
<1>2. CASE r.header = Nil /\ r.client = Nil
  <2>1. Credentials(r) = {}
    BY <1>2 DEF Credentials
  <2> QED BY <2>1, FS_EmptySet
<1>3. CASE r.header # Nil /\ r.client # Nil
  <2>1. Credentials(r) = {h} \cup {b}
    BY <1>3 DEF Credentials
  <2>2. Cardinality({h} \cup {b}) = 2
    BY <1>1, PairHasTwo
  <2> QED BY <2>1, <2>2
<1>4. CASE r.header = Nil /\ r.client # Nil
  <2>1. Credentials(r) = {b}
    BY <1>4 DEF Credentials
  <2>2. (CHOOSE cred \in Credentials(r) : TRUE) = b
    BY <2>1, ChooseOfOne
  <2>3. b[2] = r.client
    OBVIOUS
  <2> HIDE DEF b
  <2> QED BY <1>4, <2>2, <2>3
<1>5. CASE r.header # Nil /\ r.client = Nil
  <2>1. Credentials(r) = {h}
    BY <1>5 DEF Credentials
  <2>2. (CHOOSE cred \in Credentials(r) : TRUE) = h
    BY <2>1, ChooseOfOne
  <2>3. h[2] = r.header[1]
    OBVIOUS
  <2> HIDE DEF h
  <2> QED BY <1>5, <2>2, <2>3
<1> QED BY <1>2, <1>3, <1>4, <1>5

----------------------------------------------------------------------------
(* Inputs *)

\* Appending to a sequence gives the one that is longer by that element.
LEMMA AppendEquals ==
  ASSUME NEW S, NEW s \in Seq(S), NEW e \in S, NEW t \in Seq(S), Len(t) = Len(s) + 1,
         \A i \in 1 .. Len(s) : t[i] = s[i], t[Len(s) + 1] = e
  PROVE  Append(s, e) = t
<1> DEFINE u == Append(s, e)
<1>1. u \in Seq(S) /\ Len(u) = Len(t) /\ \A i \in 1 .. Len(u) : u[i] = t[i]
  OBVIOUS
<1> HIDE DEF u
<1>2. u = t
  BY <1>1, SeqEqual
<1> QED BY <1>2 DEF u

\* A history grows by one kind.
Grown(s, e) == Append(s, e)

LEMMA Appended ==
  ASSUME NEW a, NEW b, NEW c, NEW d
  PROVE  /\ Grown(<<>>, a) = <<a>> /\ Grown(<<a>>, b) = <<a, b>>
         /\ Grown(<<a, b>>, c) = <<a, b, c>> /\ Grown(<<a, b, c>>, d) = <<a, b, c, d>>
<1> DEFINE S == {a, b, c, d}
           s0 == <<>>
           s1 == <<a>>
           s2 == <<a, b>>
           s3 == <<a, b, c>>
           s4 == <<a, b, c, d>>
<1>1. s0 \in Seq(S) /\ s1 \in Seq(S) /\ s2 \in Seq(S) /\ s3 \in Seq(S) /\ s4 \in Seq(S)
  OBVIOUS
<1>2. Len(s0) = 0 /\ Len(s1) = 1 /\ Len(s2) = 2 /\ Len(s3) = 3 /\ Len(s4) = 4
  OBVIOUS
<1>3. /\ s1[1] = a /\ s2[1] = a /\ s2[2] = b /\ s3[1] = a /\ s3[2] = b /\ s3[3] = c
      /\ s4[1] = a /\ s4[2] = b /\ s4[3] = c /\ s4[4] = d
  OBVIOUS
<1>4. a \in S /\ b \in S /\ c \in S /\ d \in S
  OBVIOUS
<1> HIDE DEF S, s0, s1, s2, s3, s4
<1>5. Append(s0, a) = s1
  <2>1. \A i \in 1 .. Len(s0) : s1[i] = s0[i]
    BY <1>2, <1>3
  <2>2. Len(s1) = Len(s0) + 1 /\ s1[Len(s0) + 1] = a
    BY <1>2, <1>3
  <2> QED BY <1>1, <1>4, <2>1, <2>2, AppendEquals
<1>6. Append(s1, b) = s2
  <2>1. \A i \in 1 .. Len(s1) : s2[i] = s1[i]
    BY <1>2, <1>3
  <2>2. Len(s2) = Len(s1) + 1 /\ s2[Len(s1) + 1] = b
    BY <1>2, <1>3
  <2> QED BY <1>1, <1>4, <2>1, <2>2, AppendEquals
<1>7. Append(s2, c) = s3
  <2>1. \A i \in 1 .. Len(s2) : s3[i] = s2[i]
    BY <1>2, <1>3
  <2>2. Len(s3) = Len(s2) + 1 /\ s3[Len(s2) + 1] = c
    BY <1>2, <1>3
  <2> QED BY <1>1, <1>4, <2>1, <2>2, AppendEquals
<1>8. Append(s3, d) = s4
  <2>1. \A i \in 1 .. Len(s3) : s4[i] = s3[i]
    BY <1>2, <1>3
  <2>2. Len(s4) = Len(s3) + 1 /\ s4[Len(s3) + 1] = d
    BY <1>2, <1>3
  <2> QED BY <1>1, <1>4, <2>1, <2>2, AppendEquals
<1> QED BY <1>5, <1>6, <1>7, <1>8 DEF s0, s1, s2, s3, s4, Grown

\* What an input adds to the history.
LEMMA Taken ==
  ASSUME NEW in, NEW res, Take(in, res)
  PROVE  /\ m' = res.m /\ out' = res.out
         /\ flow' = flow /\ req' = req /\ now' = now
         /\ in.kind = "None" \/ m.at = "Err" => trail' = trail /\ given' = given
         /\ in.kind # "None" /\ m.at # "Err" => trail' = Grown(trail, in.kind)
         /\ in.kind \notin {"Scopes", "Recovered"} => given' = given
         /\ res.out.kind # "Ok" => oks' = oks
         /\ oks' \in {oks, oks + 1}
BY DEF Take, Grown

\* The grant of a Recovered that a machine still listens to, and its time.
LEMMA Given ==
  ASSUME Inv, NEW in, NEW res, Take(in, res)
  PROVE  /\ given'.now \in Nat /\ given'.now <= now'
         /\ given' = [scopes |-> given'.scopes, grant |-> given'.grant, now |-> given'.now]
         /\ in.kind = "Recovered" /\ m.at # "Err" => given'.grant = in.grant /\ given'.now = now
         /\ in.kind # "Recovered" => given'.grant = given.grant /\ given'.now = given.now
<1>1. /\ now \in Nat /\ given.now \in Nat /\ given.now <= now /\ now' = now
      /\ given = [scopes |-> given.scopes, grant |-> given.grant, now |-> given.now]
  BY DEF Inv, Take
<1>2. CASE m.at = "Err" \/ in.kind \notin {"Scopes", "Recovered"}
  BY <1>1, <1>2 DEF Take
<1>3. CASE m.at # "Err" /\ in.kind = "Scopes"
  <2>1. given' = [scopes |-> in.scopes, grant |-> given.grant, now |-> given.now]
    BY <1>1, <1>3 DEF Take
  <2> QED BY <1>1, <1>3, <2>1
<1>4. CASE m.at # "Err" /\ in.kind = "Recovered"
  <2>1. given' = [scopes |-> given.scopes, grant |-> in.grant, now |-> now]
    BY <1>1, <1>4 DEF Take
  <2> QED BY <1>1, <1>4, <2>1
<1> QED BY <1>2, <1>3, <1>4

\* Authorization::advance.
LEMMA AuthorizationKeepsInv ==
  ASSUME Inv, AdvanceAuthorization
  PROVE  Inv'
<1>1. PICK in \in AuthorizationInput : Take(in, AuthorizationAdvance(m, in))
  BY DEF AdvanceAuthorization
<1> DEFINE n == AuthorizationState(m, in)
<1>2. flow = "authorization" /\ AuthorizationInv /\ OutInv
  BY DEF Inv, AdvanceAuthorization
<1>3. m' = n /\ out' = AuthorizationOutput(n)
  BY <1>1, Taken DEF AuthorizationAdvance
<1>4. in.kind \in {"None", "Finished", "Bound", "Extended", "Negotiated"}
  BY <1>1 DEF AuthorizationInput, None
<1>5. /\ n.at \in {"Err", "Binding", "Extending", "Negotiating", "Pending"}
      /\ n.at # "Err" => \/ in.kind = "None" /\ n = m
                         \/ in.kind = "Bound" /\ m.at = "Binding" /\ n.at = "Extending"
                         \/ in.kind = "Extended" /\ m.at = "Extending" /\ n.at = "Negotiating"
                         \/ in.kind = "Negotiated" /\ m.at = "Negotiating" /\ n.at = "Pending"
  BY <1>2, <1>4 DEF AuthorizationInv, AuthorizationState, Bound, Err
<1> HIDE DEF n
<1>6. /\ out'.kind = "Ok" => n.at = "Pending"
      /\ out'.kind = "Err" => n.at = "Err" /\ out' = OutErr(n.error)
  BY <1>3, <1>5 DEF AuthorizationOutput, OutErr
<1>7. /\ Grown(<<>>, "Bound") = <<"Bound">>
      /\ Grown(<<"Bound">>, "Extended") = <<"Bound", "Extended">>
      /\ Grown(<<"Bound", "Extended">>, "Negotiated") = <<"Bound", "Extended", "Negotiated">>
  BY Appended
<1>8. trail' = IF in.kind = "None" \/ m.at = "Err" THEN trail ELSE Grown(trail, in.kind)
  BY <1>1, Taken
<1>9. /\ n.at = "Binding" => trail' = <<>>
      /\ n.at = "Extending" => trail' = <<"Bound">>
      /\ n.at = "Negotiating" => trail' = <<"Bound", "Extended">>
      /\ n.at = "Pending" => trail' = <<"Bound", "Extended", "Negotiated">>
  BY <1>2, <1>5, <1>7, <1>8 DEF AuthorizationInv
<1>10. /\ flow' = flow /\ now' = now /\ given' = given
  BY <1>1, <1>4, Taken
<1>11. OutInv'
  BY <1>2, <1>3, <1>6, <1>10 DEF OutInv
<1>12. AuthorizationInv'
  BY <1>1, <1>2, <1>3, <1>5, <1>6, <1>9, Taken DEF AuthorizationInv
<1> QED BY <1>2, <1>10, <1>11, <1>12 DEF Inv

\* recovered of accesstoken.rs.
LEMMA RecoveredFits ==
  ASSUME NEW g \in Grants \cup {Nil}, NEW time, Recovered(m, g, time).at # "Err"
  PROVE  /\ Recovered(m, g, time).at = "Extend"
         /\ Recovered(m, g, time).grant \in Grant
         /\ Recovered(m, g, time).grant.scope = g.scope
         /\ g \in Grant /\ g.client = m.client /\ g.uri = m.uri /\ ~(g.until < time)
<1>1. g \in Grant /\ ~(<<g.client, g.uri>> # <<m.client, m.uri>> \/ g.until < time)
  BY MachinesAssumption DEF Recovered, Err
<1>2. Recovered(m, g, time) = [at |-> "Extend", grant |-> [g EXCEPT !.ext = Nil], ext |-> g.ext]
  BY <1>1, OptionAssumption DEF Recovered
<1> QED BY <1>1, <1>2 DEF Grant

\* AccessToken::advance.
LEMMA AccessTokenKeepsInv ==
  ASSUME Inv, AdvanceAccessToken
  PROVE  Inv'
<1>1. PICK in \in AccessTokenInput : Take(in, AccessTokenAdvance(m, in, now))
  BY DEF AdvanceAccessToken
<1> DEFINE n == AccessTokenState(m, in, now)
           issues == in.kind = "Issued" /\ m.at = "Issue"
<1>2. flow = "accesstoken" /\ AccessTokenInv /\ OutInv
  BY DEF Inv, AdvanceAccessToken
<1>3. /\ in.kind \in {"None", "Request", "Authenticated", "Recovered", "Extended", "Issued"}
      /\ in.kind = "Recovered" => in.grant \in Grants \cup {Nil}
  BY <1>1 DEF AccessTokenInput, None
<1>4. /\ flow' = flow /\ req' = req /\ now' = now
      /\ given'.now \in Nat /\ given'.now <= now'
      /\ given' = [scopes |-> given'.scopes, grant |-> given'.grant, now |-> given'.now]
      /\ in.kind = "Recovered" /\ m.at # "Err" => given'.grant = in.grant /\ given'.now = now
      /\ in.kind # "Recovered" \/ m.at = "Err" => given' = given
  <2>1. flow' = flow /\ req' = req /\ now' = now
    BY <1>1, Taken
  <2>2. in.kind # "Recovered" \/ m.at = "Err" => given' = given
    BY <1>1, <1>3 DEF Take
  <2> QED BY <1>1, <2>1, <2>2, Given
<1>5. trail' = IF in.kind = "None" \/ m.at = "Err" THEN trail ELSE Grown(trail, in.kind)
  BY <1>1, Taken
<1>6. /\ Grown(<<>>, "Authenticated") = <<"Authenticated">>
      /\ Grown(<<"Authenticated">>, "Recovered") = <<"Authenticated", "Recovered">>
      /\ Grown(<<"Authenticated", "Recovered">>, "Extended")
           = <<"Authenticated", "Recovered", "Extended">>
      /\ Grown(<<"Authenticated", "Recovered", "Extended">>, "Issued")
           = <<"Authenticated", "Recovered", "Extended", "Issued">>
  BY Appended
<1>7. CASE issues
  <2>1. m' = Err("Primitive") /\ out'.kind = "Ok" /\ out'.scope = m.grant.scope
    BY <1>1, <1>7, Taken DEF AccessTokenAdvance
  <2>2. trail' = <<"Authenticated", "Recovered", "Extended", "Issued">>
    BY <1>2, <1>5, <1>6, <1>7 DEF AccessTokenInv
  <2>3. AccessTokenInv'
    <3>1. given' = given /\ m.grant.scope = given.grant.scope /\ FitsCode(given.grant)
      BY <1>2, <1>4, <1>7 DEF AccessTokenInv
    <3>2. FitsCode(given.grant)' /\ out'.scope = given'.grant.scope /\ m'.at = "Err"
      BY <1>4, <2>1, <3>1 DEF FitsCode, Named, Err
    <3> QED BY <1>2, <1>4, <2>1, <2>2, <3>2 DEF AccessTokenInv
  <2>4. OutInv'
    BY <1>1, <1>2, <1>4, <1>7, <2>1, Taken DEF OutInv, Err
  <2> QED BY <1>2, <1>4, <2>3, <2>4 DEF Inv
<1>8. CASE ~issues
  <2>1. m' = n /\ out' = AccessTokenOutput(n)
    BY <1>1, <1>8, Taken DEF AccessTokenAdvance
  <2>2. /\ n.at \in {"Err", "Authenticate", "Recover", "Extend", "Issue"}
        /\ n.at # "Err" =>
             \/ in.kind = "None" /\ n = m
             \/ /\ in.kind = "Authenticated" /\ m.at = "Authenticate" /\ n.at = "Recover"
                /\ n.client = m.client /\ n.uri = m.uri
             \/ /\ in.kind = "Recovered" /\ m.at = "Recover" /\ n.at = "Extend"
                /\ n = Recovered(m, in.grant, now)
             \/ /\ in.kind = "Extended" /\ m.at = "Extend" /\ n.at = "Issue"
                /\ n.grant.scope = m.grant.scope
    <3>1. CASE in.kind = "None"
      BY <1>2, <3>1 DEF AccessTokenState, AccessTokenInv
    <3>2. CASE in.kind = "Authenticated" /\ m.at = "Authenticate"
      BY <3>2 DEF AccessTokenState
    <3>3. CASE in.kind = "Recovered" /\ m.at = "Recover"
      <4>1. n = Recovered(m, in.grant, now)
        BY <3>3 DEF AccessTokenState
      <4> HIDE DEF n
      <4> QED BY <1>3, <3>3, <4>1, RecoveredFits
    <3>4. CASE in.kind = "Extended" /\ m.at = "Extend"
      <4>1. n = [at |-> "Issue", grant |-> [m.grant EXCEPT !.ext = in.ext]] /\ m.grant \in Grant
        BY <1>2, <3>4 DEF AccessTokenState, AccessTokenInv
      <4> QED BY <3>4, <4>1 DEF Grant
    <3>5. CASE /\ ~(in.kind = "None")
               /\ ~(in.kind = "Authenticated" /\ m.at = "Authenticate")
               /\ ~(in.kind = "Recovered" /\ m.at = "Recover")
               /\ ~(in.kind = "Extended" /\ m.at = "Extend")
      <4>1. n \in {m, Err("Primitive")} /\ (n = m => m.at = "Err")
        BY <3>5 DEF AccessTokenState, Err
      <4> QED BY <4>1 DEF Err
    <3> QED BY <3>1, <3>2, <3>3, <3>4, <3>5
  <2> HIDE DEF n
  <2>3. /\ out'.kind # "Ok"
        /\ out'.kind = "Err" => n.at = "Err" /\ out' = OutErr(n.error)
    BY <2>1, <2>2 DEF AccessTokenOutput, OutErr
  <2>4. /\ n.at = "Authenticate" => trail' = <<>>
        /\ n.at = "Recover" => trail' = <<"Authenticated">>
        /\ n.at = "Extend" => trail' = <<"Authenticated", "Recovered">>
        /\ n.at = "Issue" => trail' = <<"Authenticated", "Recovered", "Extended">>
    BY <1>2, <1>5, <1>6, <2>2 DEF AccessTokenInv
  <2>5. n.at \in {"Authenticate", "Recover"} => n.client = Named' /\ n.uri = ToUrl(req'.uri)
    BY <1>2, <1>4, <2>2 DEF AccessTokenInv, Named
  <2>6. n.at = "Extend" => n.grant \in Grant
    BY <1>2, <1>3, <2>2, RecoveredFits DEF AccessTokenInv
  <2>7. n.at \in {"Extend", "Issue"} =>
          n.grant.scope = given'.grant.scope /\ FitsCode(given.grant)'
    <3>1. CASE in.kind = "Recovered" /\ m.at = "Recover" /\ n.at = "Extend"
      <4>1. /\ n.grant.scope = in.grant.scope /\ in.grant \in Grant
            /\ in.grant.client = m.client /\ in.grant.uri = m.uri /\ ~(in.grant.until < now)
        BY <1>3, <2>2, <3>1, RecoveredFits
      <4>2. in.grant.until >= now
        BY <4>1 DEF Inv, Grant
      <4> QED BY <1>2, <1>4, <3>1, <4>1, <4>2 DEF AccessTokenInv, FitsCode, Named
    <3>2. CASE in.kind # "Recovered" /\ n.at \in {"Extend", "Issue"}
      BY <1>2, <1>4, <2>2, <3>2 DEF AccessTokenInv, FitsCode, Named
    <3> QED BY <2>2, <3>1, <3>2
  <2>8. AccessTokenInv'
    BY <1>2, <1>4, <2>1, <2>2, <2>3, <2>4, <2>5, <2>6, <2>7 DEF AccessTokenInv
  <2>9. OutInv'
    BY <1>1, <1>2, <1>4, <2>1, <2>2, <2>3, Taken DEF OutInv
  <2> QED BY <1>2, <1>4, <2>8, <2>9 DEF Inv
<1> QED BY <1>7, <1>8

\* validate of refresh.rs.
LEMMA RefreshValidated ==
  ASSUME NEW g \in Grant, NEW scope \in Scope \cup {Nil, Bad}, NEW token, NEW time \in Nat,
         RefreshValidate(scope, g, token, time).at # "Err"
  PROVE  LET n == RefreshValidate(scope, g, token, time)
         IN  n.at = "Issuing" /\ n.grant.scope \subseteq g.scope /\ g.until > time
<1> DEFINE n == RefreshValidate(scope, g, token, time)
<1>1. /\ g.until > time
      /\ scope # Nil => scope # Bad /\ PriviledgedTo(g.scope, scope)
  <2>1. ~(g.until <= time) /\ scope # Bad /\ ~(scope # Nil /\ ~PriviledgedTo(g.scope, scope))
    BY DEF RefreshValidate, Err
  <2> QED BY <2>1 DEF Grant
<1>2. scope # Nil => scope \subseteq g.scope
  BY <1>1, PriviledgedToIsInclusion DEF Grant
<1>3. n = [at |-> "Issuing", token |-> token,
           grant |-> [g EXCEPT !.scope = IF scope = Nil THEN @ ELSE scope,
                               !.until = time + RefreshLife]]
  <2>1. ~(g.until <= time) /\ scope # Bad /\ ~(scope # Nil /\ ~PriviledgedTo(g.scope, scope))
    BY DEF RefreshValidate, Err
  <2> QED BY <2>1 DEF RefreshValidate
<1>4. n.grant.scope = IF scope = Nil THEN g.scope ELSE scope
  <2>1. CASE scope = Nil
    <3>1. n.grant = [g EXCEPT !.scope = g.scope, !.until = time + RefreshLife]
      BY <1>3, <2>1
    <3> QED BY <2>1, <3>1 DEF Grant
  <2>2. CASE scope # Nil
    <3>1. n.grant = [g EXCEPT !.scope = scope, !.until = time + RefreshLife]
      BY <1>3, <2>2
    <3> QED BY <2>2, <3>1 DEF Grant
  <2> QED BY <2>1, <2>2
<1> QED BY <1>1, <1>2, <1>3, <1>4

\* recovered_refresh.
LEMMA RefreshRecovered ==
  ASSUME NEW g \in Grants \cup {Nil}, NEW scope \in Scope \cup {Nil, Bad}, NEW time \in Nat,
         RecoveredRefresh(m, scope, g, time).at # "Err"
  PROVE  LET n == RecoveredRefresh(m, scope, g, time)
         IN  /\ g \in Grant
             /\ m.authenticated = Nil => n.at = "CoAuthenticating" /\ n.grant = g
             /\ m.authenticated # Nil => /\ n.at = "Issuing" /\ g.client = m.authenticated
                                         /\ n.grant.scope \subseteq g.scope /\ g.until > time
<1> DEFINE n == RecoveredRefresh(m, scope, g, time)
<1>1. g # Nil /\ g \in Grant
  BY MachinesAssumption DEF RecoveredRefresh, Err
<1>2. CASE m.authenticated = Nil
  BY <1>1, <1>2 DEF RecoveredRefresh
<1>3. CASE m.authenticated # Nil
  <2>1. g.client = m.authenticated /\ n = RefreshValidate(scope, g, m.token, time)
    BY <1>1, <1>3 DEF RecoveredRefresh, Err
  <2> HIDE DEF n
  <2>2. n.at # "Err"
    BY DEF n
  <2> QED BY <1>1, <1>3, <2>1, <2>2, RefreshValidated DEF n
<1> QED BY <1>2, <1>3

\* Refresh::advance.
LEMMA RefreshKeepsInv ==
  ASSUME Inv, AdvanceRefresh
  PROVE  Inv'
<1>1. PICK in \in RefreshInput : Take(in, RefreshAdvance(m, in, now))
  BY DEF AdvanceRefresh
<1> DEFINE n == RefreshState(m, in, now)
           first == IF req.header = Nil THEN "Recovered" ELSE "Authenticated"
           second == IF req.header = Nil THEN "Authenticated" ELSE "Recovered"
           issues == in.kind = "Refreshed" /\ m.at = "Issuing"
<1>2. flow = "refresh" /\ RefreshInv /\ OutInv /\ now \in Nat
  BY DEF Inv, AdvanceRefresh
<1>3. /\ in.kind \in {"None", "Authenticated", "Recovered", "Refreshed"}
      /\ in.kind = "Recovered" => in.grant \in Grants \cup {Nil}
      /\ in.kind \in {"Authenticated", "Recovered"} => in.scope = req.scope
  BY <1>1 DEF RefreshInput, None
<1>4. /\ flow' = flow /\ req' = req /\ now' = now
      /\ given'.now \in Nat /\ given'.now <= now'
      /\ given' = [scopes |-> given'.scopes, grant |-> given'.grant, now |-> given'.now]
      /\ in.kind = "Recovered" /\ m.at # "Err" => given'.grant = in.grant /\ given'.now = now
      /\ in.kind # "Recovered" \/ m.at = "Err" => given' = given
  <2>1. flow' = flow /\ req' = req /\ now' = now
    BY <1>1, Taken
  <2>2. in.kind # "Recovered" \/ m.at = "Err" => given' = given
    BY <1>1, <1>3 DEF Take
  <2> QED BY <1>1, <2>1, <2>2, Given
<1>5. trail' = IF in.kind = "None" \/ m.at = "Err" THEN trail ELSE Grown(trail, in.kind)
  BY <1>1, Taken
<1>6. /\ Grown(<<>>, first) = <<first>>
      /\ Grown(<<first>>, second) = <<first, second>>
      /\ Grown(<<first, second>>, "Refreshed") = <<first, second, "Refreshed">>
  BY Appended
<1>7. req.header # Nil => req.header[1] \in Client /\ req.header[1] # Nil
  BY <1>2, OptionAssumption DEF RefreshInv, RefreshRequest
<1>8. req.scope \in Scope \cup {Nil, Bad}
  BY <1>2 DEF RefreshInv, RefreshRequest
<1>9. CASE issues
  <2>1. m' = Err("Primitive") /\ out'.kind = "Ok" /\ out'.scope = m.grant.scope
    BY <1>1, <1>9, Taken DEF RefreshAdvance
  <2>2. trail' = <<first, second, "Refreshed">>
    BY <1>2, <1>5, <1>6, <1>9 DEF RefreshInv
  <2>3. given' = given /\ FitsRefresh(given.grant) /\ out'.scope \subseteq given.grant.scope
    BY <1>2, <1>4, <1>9, <2>1 DEF RefreshInv
  <2>4. FitsRefresh(given.grant)' /\ m'.at = "Err"
    BY <1>4, <2>1, <2>3 DEF FitsRefresh, Err
  <2>5. RefreshInv'
    BY <1>2, <1>4, <2>1, <2>2, <2>3, <2>4 DEF RefreshInv
  <2>6. OutInv'
    BY <1>1, <1>2, <1>4, <1>9, <2>1, Taken DEF OutInv, Err
  <2> QED BY <1>2, <1>4, <2>5, <2>6 DEF Inv
<1>10. CASE ~issues
  <2>1. m' = n /\ out' = RefreshOutput(n)
    BY <1>1, <1>10, Taken DEF RefreshAdvance
  <2>2. CASE m.at = "Err" \/ (in.kind = "None" /\ m.at \in {"Authenticating", "Recovering"})
    <3>1. n = m
      BY <2>2 DEF RefreshState
    <3>2. m' = m /\ trail' = trail /\ given' = given
      BY <1>4, <1>5, <2>1, <2>2, <3>1
    <3>3. out'.kind # "Ok" /\ (out'.kind = "Err" => m.at = "Err" /\ out' = OutErr(m.error))
      BY <1>2, <2>1, <3>1 DEF RefreshOutput, OutErr, RefreshInv
    <3>4. RefreshInv'
      BY <1>2, <1>4, <3>2, <3>3 DEF RefreshInv, FitsRefresh
    <3>5. OutInv'
      BY <1>1, <1>2, <1>4, <3>2, <3>3, Taken DEF OutInv
    <3> QED BY <1>2, <1>4, <3>4, <3>5 DEF Inv
  <2>3. CASE m.at # "Err" /\ ~(in.kind = "None" /\ m.at \in {"Authenticating", "Recovering"})
    <3>1. oks = 0
      BY <1>2, <2>3 DEF OutInv
    <3>2. /\ n.at \in {"Err", "Authenticating", "Recovering", "CoAuthenticating", "Issuing"}
          /\ n.at = "Authenticating" => FALSE
          /\ n.at = "Recovering" =>
               /\ req.header # Nil /\ n.authenticated = req.header[1] /\ trail' = <<first>>
          /\ n.at = "CoAuthenticating" => /\ req.header = Nil /\ trail' = <<first>>
                                          /\ n.grant \in Grant /\ n.grant = given'.grant
          /\ n.at = "Issuing" => /\ trail' = <<first, second>>
                                 /\ FitsRefresh(given.grant)'
                                 /\ n.grant.scope \subseteq given'.grant.scope
      <4>1. CASE in.kind = "Authenticated" /\ m.at = "Authenticating"
        <5>1. n = [at |-> "Recovering", authenticated |-> m.client, token |-> m.token]
          BY <4>1 DEF RefreshState
        <5>2. /\ req.header # Nil /\ m.client = req.header[1] /\ trail = <<>>
          BY <1>2, <4>1 DEF RefreshInv
        <5>3. trail' = <<first>>
          BY <1>5, <1>6, <4>1, <5>2
        <5> QED BY <5>1, <5>2, <5>3
      <4>2. CASE in.kind = "Recovered" /\ m.at = "Recovering" /\ n.at # "Err"
        <5>1. n = RecoveredRefresh(m, in.scope, in.grant, now)
          BY <4>2 DEF RefreshState
        <5> HIDE DEF n
        <5>2. /\ in.grant \in Grant
              /\ m.authenticated = Nil => n.at = "CoAuthenticating" /\ n.grant = in.grant
              /\ m.authenticated # Nil =>
                   /\ n.at = "Issuing" /\ in.grant.client = m.authenticated
                   /\ n.grant.scope \subseteq in.grant.scope /\ in.grant.until > now
          BY <1>2, <1>3, <1>8, <4>2, <5>1, RefreshRecovered
        <5>3. given'.grant = in.grant /\ given'.now = now
          BY <1>4, <4>2
        <5>4. CASE req.header = Nil
          <6>1. m.authenticated = Nil /\ trail = <<>>
            BY <1>2, <4>2, <5>4 DEF RefreshInv
          <6>2. trail' = <<first>>
            BY <1>5, <1>6, <4>2, <5>4, <6>1
          <6> QED BY <5>2, <5>3, <5>4, <6>1, <6>2
        <5>5. CASE req.header # Nil
          <6>1. m.authenticated = req.header[1] /\ trail = <<first>> /\ m.authenticated # Nil
            BY <1>2, <1>7, <4>2, <5>5 DEF RefreshInv
          <6>2. trail' = <<first, second>>
            BY <1>5, <1>6, <4>2, <5>5, <6>1
          <6>3. FitsRefresh(given.grant)'
            BY <1>4, <5>2, <5>3, <6>1 DEF FitsRefresh
          <6> QED BY <5>2, <5>3, <6>1, <6>2, <6>3
        <5> QED BY <5>4, <5>5
      <4>3. CASE in.kind = "Authenticated" /\ m.at = "CoAuthenticating" /\ n.at # "Err"
        <5>1. n = RefreshValidate(in.scope, m.grant, m.token, now)
          BY <4>3 DEF RefreshState
        <5> HIDE DEF n
        <5>2. /\ req.header = Nil /\ trail = <<first>> /\ m.grant \in Grant
              /\ m.grant = given.grant /\ given' = given
          BY <1>2, <1>4, <4>3 DEF RefreshInv
        <5>3. n.at = "Issuing" /\ n.grant.scope \subseteq m.grant.scope /\ m.grant.until > now
          BY <1>2, <1>3, <1>8, <4>3, <5>1, <5>2, RefreshValidated
        <5>4. trail' = <<first, second>>
          BY <1>5, <1>6, <4>3, <5>2
        <5>5. FitsRefresh(given.grant)'
          BY <1>2, <1>4, <5>2, <5>3 DEF FitsRefresh, Grant
        <5> QED BY <5>2, <5>3, <5>4, <5>5
      <4>4. CASE /\ ~(in.kind = "Authenticated" /\ m.at = "Authenticating")
                 /\ ~(in.kind = "Recovered" /\ m.at = "Recovering")
                 /\ ~(in.kind = "Authenticated" /\ m.at = "CoAuthenticating")
        <5>1. n = Err("Primitive")
          BY <2>3, <4>4 DEF RefreshState
        <5> QED BY <5>1 DEF Err
      <4>5. CASE n.at = "Err"
        BY <4>5
      <4> QED BY <4>1, <4>2, <4>3, <4>4, <4>5
    <3> HIDE DEF n
    <3>3. out'.kind # "Ok" /\ (out'.kind = "Err" => n.at = "Err" /\ out' = OutErr(n.error))
      BY <2>1, <3>2 DEF RefreshOutput, OutErr
    <3>4. RefreshInv'
      BY <1>2, <1>4, <2>1, <3>2, <3>3 DEF RefreshInv
    <3>5. OutInv'
      BY <1>1, <1>2, <1>4, <2>1, <3>1, <3>3, Taken DEF OutInv
    <3> QED BY <1>2, <1>4, <3>4, <3>5 DEF Inv
  <2> QED BY <2>2, <2>3
<1> QED BY <1>9, <1>10

\* Resource::advance.
LEMMA ResourceKeepsInv ==
  ASSUME Inv, AdvanceResource
  PROVE  Inv'
<1>1. PICK in \in ResourceInput : Take(in, ResourceAdvance(m, in, now))
  BY DEF AdvanceResource
<1> DEFINE res == ResourceAdvance(m, in, now)
<1>2. flow = "resource" /\ ResourceInv /\ OutInv /\ now \in Nat
  BY DEF Inv, AdvanceResource
<1>3. /\ in.kind \in {"None", "Request", "Scopes", "Recovered"}
      /\ in.kind = "Recovered" => in.grant \in Grants \cup {Nil}
  BY <1>1 DEF ResourceInput, None
<1>4. /\ flow' = flow /\ req' = req /\ now' = now /\ m' = res.m /\ out' = res.out
      /\ given'.now \in Nat /\ given'.now <= now'
      /\ given' = [scopes |-> given'.scopes, grant |-> given'.grant, now |-> given'.now]
      /\ in.kind = "Recovered" /\ m.at # "Err" => given'.grant = in.grant /\ given'.now = now
  <2>1. flow' = flow /\ req' = req /\ now' = now /\ m' = res.m /\ out' = res.out
    BY <1>1, Taken
  <2> HIDE DEF res
  <2> QED BY <1>1, <2>1, Given
<1>5. trail' = IF in.kind = "None" \/ m.at = "Err" THEN trail ELSE Grown(trail, in.kind)
  BY <1>1, Taken
<1>6. /\ Grown(<<>>, "Request") = <<"Request">>
      /\ Grown(<<"Request">>, "Scopes") = <<"Request", "Scopes">>
      /\ Grown(<<"Request", "Scopes">>, "Recovered") = <<"Request", "Scopes", "Recovered">>
  BY Appended
<1>7. CASE /\ in.kind = "Recovered" /\ m.at = "Recovering"
           /\ ResourceRecovered(in.grant, m.scopes, now) = "Ok"
  <2>1. m'.at = "Err" /\ out'.kind = "Ok"
    BY <1>4, <1>7 DEF ResourceAdvance, Err
  <2>2. trail' = <<"Request", "Scopes", "Recovered">>
    BY <1>2, <1>5, <1>6, <1>7 DEF ResourceInv
  <2>3. in.grant \in Grant /\ ~(in.grant.until < now)
    BY <1>3, <1>7, MachinesAssumption DEF ResourceRecovered
  <2>4. given'.grant.until >= given'.now
    BY <1>2, <1>4, <1>7, <2>3 DEF Grant
  <2>5. ResourceInv'
    BY <2>1, <2>2, <2>4 DEF ResourceInv
  <2>6. OutInv'
    BY <1>1, <1>2, <1>4, <1>7, <2>1, Taken DEF OutInv
  <2> QED BY <1>2, <1>4, <2>5, <2>6 DEF Inv
<1>8. CASE ~(/\ in.kind = "Recovered" /\ m.at = "Recovering"
             /\ ResourceRecovered(in.grant, m.scopes, now) = "Ok")
  <2>1. /\ res.m.at \in {"Err", "New", "Internalized", "Recovering"}
        /\ res.out = ResourceOutput(res.m)
        /\ res.m.at # "Err" =>
             \/ in.kind = "None" /\ res.m = m
             \/ in.kind = "Request" /\ m.at = "New" /\ res.m.at = "Internalized"
             \/ in.kind = "Scopes" /\ m.at = "Internalized" /\ res.m.at = "Recovering"
    <3>1. CASE in.kind = "None"
      BY <1>2, <3>1 DEF ResourceAdvance, ResourceInv
    <3>2. CASE in.kind = "Request" /\ m.at = "New"
      <4>1. ResourceValidate(in.request).at \in {"Err", "Internalized"}
        BY DEF ResourceValidate, Err
      <4>2. res.m = ResourceValidate(in.request) /\ res.out = ResourceOutput(res.m)
        BY <3>2 DEF ResourceAdvance
      <4> QED BY <3>2, <4>1, <4>2
    <3>3. CASE in.kind = "Scopes" /\ m.at = "Internalized"
      BY <3>3 DEF ResourceAdvance
    <3>4. CASE /\ in.kind = "Recovered" /\ m.at = "Recovering"
      BY <1>8, <3>4 DEF ResourceAdvance, Err
    <3>5. CASE /\ in.kind # "None" /\ ~(in.kind = "Request" /\ m.at = "New")
               /\ ~(in.kind = "Scopes" /\ m.at = "Internalized")
               /\ ~(in.kind = "Recovered" /\ m.at = "Recovering")
      BY <3>5 DEF ResourceAdvance, Err
    <3> QED BY <3>1, <3>2, <3>3, <3>4, <3>5
  <2> HIDE DEF res
  <2>2. out'.kind # "Ok" /\ (out'.kind = "Err" => m'.at = "Err" /\ out' = OutErr(m'.error))
    BY <1>4, <2>1 DEF ResourceOutput, OutErr
  <2>3. ResourceInv'
    BY <1>2, <1>4, <1>5, <1>6, <2>1, <2>2 DEF ResourceInv
  <2>4. OutInv'
    BY <1>1, <1>2, <1>4, <2>1, <2>2, Taken DEF OutInv
  <2> QED BY <1>2, <1>4, <2>3, <2>4 DEF Inv
<1> QED BY <1>7, <1>8

----------------------------------------------------------------------------
(* Theorems *)

\* A new machine has had no input.
LEMMA NewMachine == Init => Inv
<1> SUFFICES ASSUME Init PROVE Inv
  OBVIOUS
<1>1. /\ now \in Nat /\ given.now \in Nat /\ given.now <= now
      /\ given = [scopes |-> given.scopes, grant |-> given.grant, now |-> given.now]
      /\ OutInv /\ out.kind # "Ok" /\ trail = <<>>
  BY DEF Init, OutInv, None
<1>2. CASE flow = "authorization" /\ req \in AuthorizationRequest /\ m = AuthorizationNew(req)
  BY <1>1, <1>2 DEF Inv, AuthorizationInv, AuthorizationNew, Err
<1>3. CASE flow = "accesstoken" /\ req \in AccessTokenRequest /\ m = AccessTokenNew(req)
  <2>1. m.at = "Err" \/ (/\ m.at = "Authenticate" /\ m.client = Named
                         /\ m.uri = ToUrl(req.uri))
    <3> DEFINE cred == CHOOSE cred \in Credentials(req) : TRUE
    <3>1. CASE m.at # "Err"
      <4>1. Cardinality(Credentials(req)) = 1
        BY <1>3, <3>1 DEF AccessTokenNew, Err
      <4>2. m = [at |-> "Authenticate", client |-> cred[2], pass |-> cred[3],
                 code |-> req.code, uri |-> ToUrl(req.uri)]
        BY <1>3, <3>1 DEF AccessTokenNew, Err
      <4>3. cred[2] = Named
        BY <1>3, <4>1, OneCredential DEF Named
      <4> QED BY <4>2, <4>3
    <3> QED BY <3>1
  <2> QED BY <1>1, <1>3, <2>1 DEF Inv, AccessTokenInv
<1>4. CASE flow = "refresh" /\ req \in RefreshRequest /\ m = RefreshNew(req)
  BY <1>1, <1>4 DEF Inv, RefreshInv, RefreshNew, Err
<1>5. CASE flow = "resource" /\ req \in ResourceRequest /\ m = ResourceNew
  BY <1>1, <1>5 DEF Inv, ResourceInv, ResourceNew
<1> QED BY <1>2, <1>3, <1>4, <1>5 DEF Init

\* Time does not change what a machine has been given.
LEMMA TickKeepsInv ==
  ASSUME Inv, Tick \/ UNCHANGED vars
  PROVE  Inv'
<1>1. /\ <<flow, req, m, out, trail, given, oks>>' = <<flow, req, m, out, trail, given, oks>>
      /\ now' \in Nat /\ given.now <= now'
  BY DEF Tick, vars, Inv
<1> QED BY <1>1 DEF Inv, OutInv, AuthorizationInv, AccessTokenInv, RefreshInv, ResourceInv,
                    FitsCode, FitsRefresh, Named

\* Inv is an invariant, whatever the executor injects.
THEOREM MachinesInvariant == Spec => []Inv
<1>1. Inv /\ [Next]_vars => Inv'
  BY AuthorizationKeepsInv, AccessTokenKeepsInv, RefreshKeepsInv, ResourceKeepsInv,
     TickKeepsInv DEF Next
<1> QED BY <1>1, NewMachine, PTL DEF Spec

\* No machine can be brought to Ok by skipping, repeating or reordering what
\* its executor has to find out.
THEOREM OkNeedsWholeProtocol == Spec => []OkAfterWholeProtocol
<1>1. Inv => OkAfterWholeProtocol
  BY DEF Inv, AuthorizationInv, AccessTokenInv, RefreshInv, ResourceInv,
         OkAfterWholeProtocol, Protocol
<1> QED BY <1>1, MachinesInvariant, PTL

\* A machine hands out one bearer token, or permits one access, at most.
THEOREM OkIsGivenOnce == Spec => []OkOnce
<1>1. Inv => OkOnce
  BY DEF Inv, OutInv, OkOnce
<1> QED BY <1>1, MachinesInvariant, PTL

\* The grant an Ok rests on fits the request and was not expired.
THEOREM OkGrantFits == Spec => []OkRestsOnFittingGrant
<1>1. Inv => OkRestsOnFittingGrant
  BY DEF Inv, AccessTokenInv, RefreshInv, ResourceInv, FitsCode, FitsRefresh, Named,
         OkRestsOnFittingGrant
<1> QED BY <1>1, MachinesInvariant, PTL

\* Once in error, the machines of code_grant but Resource repeat it.
THEOREM ErrorsAreFinal == Spec => ErrorsRepeat
<1>1. Inv /\ [Next]_vars => [flow # "resource" /\ out.kind = "Err" => out' = out]_vars
  <2> SUFFICES ASSUME Inv, Next, flow # "resource", out.kind = "Err"
               PROVE  out' = out
    BY DEF vars
  <2>1. m.at = "Err" /\ out = OutErr(m.error)
    BY DEF Inv, OutInv
  <2>2. CASE AdvanceAuthorization
    <3>1. PICK in \in AuthorizationInput : Take(in, AuthorizationAdvance(m, in))
      BY <2>2 DEF AdvanceAuthorization
    <3>2. AuthorizationState(m, in) = m
      BY <2>1 DEF AuthorizationState
    <3> QED BY <2>1, <3>1, <3>2, Taken DEF AuthorizationAdvance, AuthorizationOutput
  <2>3. CASE AdvanceAccessToken
    <3>1. PICK in \in AccessTokenInput : Take(in, AccessTokenAdvance(m, in, now))
      BY <2>3 DEF AdvanceAccessToken
    <3>2. AccessTokenState(m, in, now) = m
      BY <2>1 DEF AccessTokenState
    <3> QED BY <2>1, <3>1, <3>2, Taken DEF AccessTokenAdvance, AccessTokenOutput
  <2>4. CASE AdvanceRefresh
    <3>1. PICK in \in RefreshInput : Take(in, RefreshAdvance(m, in, now))
      BY <2>4 DEF AdvanceRefresh
    <3>2. RefreshState(m, in, now) = m
      BY <2>1 DEF RefreshState
    <3> QED BY <2>1, <3>1, <3>2, Taken DEF RefreshAdvance, RefreshOutput
  <2>5. CASE AdvanceResource
    BY <2>5 DEF AdvanceResource
  <2>6. CASE Tick
    BY <2>6 DEF Tick
  <2> QED BY <2>2, <2>3, <2>4, <2>5, <2>6 DEF Next
<1> QED BY <1>1, MachinesInvariant, PTL DEF Spec, ErrorsRepeat
=============================================================================
