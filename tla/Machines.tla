------------------------------ MODULE Machines ------------------------------
(***************************************************************************)
(* The four state machines of code_grant, driven by an executor that may     *)
(* inject any input at any time: the sync and the async executors, and any   *)
(* other that uses these public types, are special cases of it.              *)
(***************************************************************************)
EXTENDS AuthorizationMachine, AccessTokenMachine, RefreshMachine, ResourceMachine,
        Sequences

CONSTANTS
  Grants,    \* the grants the executor may supply
  MaxTime    \* bound: the latest time

ASSUME MachinesAssumption == Grants \subseteq Grant /\ MaxTime \in Nat

VARIABLES
  flow,   \* which machine
  req,    \* the request it was created with
  m,      \* its state
  out,    \* the last output
  now,    \* Utc::now()
  trail,  \* History: kinds of the inputs but None, up to the first error
  given,  \* History: the scopes, the grant and the time of the grant given last
  oks     \* History: number of Ok outputs

vars == <<flow, req, m, out, now, trail, given, oks>>

Init ==
  /\ \/ flow = "authorization" /\ req \in AuthorizationRequest /\ m = AuthorizationNew(req)
     \/ flow = "accesstoken" /\ req \in AccessTokenRequest /\ m = AccessTokenNew(req)
     \/ flow = "refresh" /\ req \in RefreshRequest /\ m = RefreshNew(req)
     \/ flow = "resource" /\ req \in ResourceRequest /\ m = ResourceNew
  /\ out = None
  /\ now = 0
  /\ trail = <<>>
  /\ given = [scopes |-> {}, grant |-> Nil, now |-> 0]
  /\ oks = 0

Take(in, res) ==
  /\ m' = res.m
  /\ out' = res.out
  /\ trail' = IF in.kind = "None" \/ m.at = "Err" THEN trail
              ELSE Append(trail, in.kind)
  /\ given' = CASE in.kind = "Scopes" /\ m.at # "Err" -> [given EXCEPT !.scopes = in.scopes]
                [] in.kind = "Recovered" /\ m.at # "Err" ->
                     [given EXCEPT !.grant = in.grant, !.now = now]
                [] OTHER -> given
  /\ oks' = IF res.out.kind = "Ok" /\ in.kind # "None" THEN oks + 1 ELSE oks
  /\ UNCHANGED <<flow, req, now>>

AuthorizationInput ==
  {None, [kind |-> "Finished"]}
    \cup [kind : {"Bound"}, request : {req}, client : Client, uri : RegisteredUrl]
    \cup [kind : {"Extended"}, ext : Encoded \cup {Nil}]
    \cup [kind : {"Negotiated"}, pre : [client : Client, uri : Url, scope : Scope]]

AccessTokenInput ==
  {None, [kind |-> "Request"], [kind |-> "Authenticated"]}
    \cup [kind : {"Recovered"}, grant : Grants \cup {Nil}]
    \cup [kind : {"Extended"}, ext : Encoded \cup {Nil}]
    \cup [kind : {"Issued"}, token : Token]

RefreshInput ==
  {None, [kind |-> "Authenticated", scope |-> req.scope]}
    \cup [kind : {"Recovered"}, scope : {req.scope}, grant : Grants \cup {Nil}]
    \cup [kind : {"Refreshed"}, token : Token]

ResourceInput ==
  {None, [kind |-> "Request", request |-> req]}
    \cup [kind : {"Scopes"}, scopes : SUBSET Scope]
    \cup [kind : {"Recovered"}, grant : Grants \cup {Nil}]

AdvanceAuthorization ==
  /\ flow = "authorization"
  /\ \E in \in AuthorizationInput : Take(in, AuthorizationAdvance(m, in))

AdvanceAccessToken ==
  /\ flow = "accesstoken"
  /\ \E in \in AccessTokenInput : Take(in, AccessTokenAdvance(m, in, now))

AdvanceRefresh ==
  /\ flow = "refresh"
  /\ \E in \in RefreshInput : Take(in, RefreshAdvance(m, in, now))

AdvanceResource ==
  /\ flow = "resource"
  /\ \E in \in ResourceInput : Take(in, ResourceAdvance(m, in, now))

Tick ==
  /\ now < MaxTime
  /\ now' = now + 1
  /\ UNCHANGED <<flow, req, m, out, trail, given, oks>>

Next ==
  \/ AdvanceAuthorization
  \/ AdvanceAccessToken
  \/ AdvanceRefresh
  \/ AdvanceResource
  \/ Tick

Spec == Init /\ [][Next]_vars

----------------------------------------------------------------------------
(* Properties *)

\* The answers each machine has to get, in this order.
Protocol ==
  CASE flow = "authorization" -> <<"Bound", "Extended", "Negotiated">>
    [] flow = "accesstoken" -> <<"Authenticated", "Recovered", "Extended", "Issued">>
    [] flow = "refresh" -> IF req.header = Nil
                           THEN <<"Recovered", "Authenticated", "Refreshed">>
                           ELSE <<"Authenticated", "Recovered", "Refreshed">>
    [] flow = "resource" -> <<"Request", "Scopes", "Recovered">>

\* Whatever an executor injects, a machine reaches Ok only after every answer
\* it needs, each exactly once and in order: none can be skipped, repeated or
\* given early.
OkAfterWholeProtocol == out.kind = "Ok" => trail = Protocol

\* "This output can not be requested repeatedly": a machine hands out at most
\* one bearer token, or permits one access.
OkOnce == flow # "authorization" => oks <= 1

\* The grant an Ok rests on: a code is exchanged for the client and redirect
\* uri it was issued for, a refresh stays with its client and within the
\* granted scope, and neither these nor an access use a grant that had
\* expired when it was recovered.
OkRestsOnFittingGrant ==
  LET g == given.grant
  IN
  /\ flow = "accesstoken" /\ out.kind = "Ok" =>
       /\ g.client = IF req.header = Nil THEN req.client ELSE req.header[1]
       /\ g.uri = ToUrl(req.uri)
       /\ g.until >= given.now
       /\ out.scope = g.scope
  /\ flow = "refresh" /\ out.kind = "Ok" =>
       /\ req.header # Nil => g.client = req.header[1]
       /\ g.until > given.now
       /\ out.scope \subseteq g.scope
  /\ flow = "resource" /\ out.kind = "Ok" => g.until >= given.now

\* "The error will be repeated on *any* following input."  The Resource machine
\* answers another input with a primitive error instead.
ErrorsRepeat == [][flow # "resource" /\ out.kind = "Err" => out' = out]_vars

\* Scopes: "One of the scopes needs to be fulfilled by the access token [...]
\* A scope is fulfilled if the set of its part is a subset of the parts in the
\* grant."
AccessFulfilsScope ==
  flow = "resource" /\ out.kind = "Ok" =>
    \E scope \in given.scopes : scope \subseteq out.grant.scope
=============================================================================
