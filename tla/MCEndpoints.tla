---------------------------- MODULE MCEndpoints ----------------------------
(* The flows on requests that differ in what the wrapping tells apart: keys  *)
(* once, twice and three times, each kind of header, a query or body that    *)
(* cannot be read, and every stage of the four executors; on messages with   *)
(* no, one or two Authorization headers and the right or a wrong type.       *)
EXTENDS Endpoints

CONSTANTS c1, o1, a1, p1, x1, k1, t1

MCToUrl(x) == x

MCB64Sha256(v) == v

Headers == {[scheme |-> "none"], [scheme |-> "garbled"], [scheme |-> "unreadable"],
            [scheme |-> "Basic", client |-> c1, pass |-> p1],
            [scheme |-> "Bearer", token |-> t1]}

MCPair ==
  {<<"client_id", c1>>, <<"client_secret", p1>>, <<"redirect_uri", x1>>, <<"redirect_uri", Bad>>,
   <<"response_type", "code">>, <<"response_type", "token">>, <<"response_type", "other">>,
   <<"scope", {a1}>>, <<"scope", Bad>>, <<"grant_type", "authorization_code">>,
   <<"grant_type", "refresh_token">>, <<"grant_type", "other">>, <<"code", k1>>,
   <<"refresh_token", t1>>}

Queries ==
  {Bad, <<>>} \cup
  {<< <<"client_id", c1>>, <<"response_type", type>> >> \o rest :
     type \in {"code", "token", "other"},
     rest \in {<<>>,
               << <<"redirect_uri", x1>> >>,
               << <<"redirect_uri", Bad>> >>,
               << <<"redirect_uri", x1>>, <<"scope", Bad>> >>,
               << <<"redirect_uri", x1>>, <<"response_type", "token">> >>,
               << <<"client_id", c1>>, <<"scope", {a1}>>, <<"client_id", c1>> >>}}

CodeBody == << <<"grant_type", "authorization_code">>, <<"code", k1>>, <<"redirect_uri", x1>> >>

RefreshBody == << <<"grant_type", "refresh_token">>, <<"refresh_token", t1>> >>

Bodies ==
  {Bad, << <<"grant_type", "other">> >>, CodeBody, RefreshBody,
   RefreshBody \o << <<"scope", {a1}>> >>,
   RefreshBody \o << <<"refresh_token", t1>>, <<"refresh_token", t1>> >>,
   CodeBody \o << <<"client_id", c1>> >>,
   CodeBody \o << <<"client_id", c1>>, <<"client_secret", p1>> >>,
   CodeBody \o << <<"client_id", c1>>, <<"code", k1>>, <<"code", k1>> >>}

MCWebRequests ==
  [query : Queries, body : {<<>>}, header : {[scheme |-> "none"]}]
    \cup [query : {<<>>}, body : Bodies, header : Headers]

Basic == [scheme |-> "Basic", client |-> c1, pass |-> p1]
Bearer == [scheme |-> "Bearer", token |-> t1]
Secret == CodeBody \o << <<"client_id", c1>>, <<"client_secret", p1>> >>

MCMessages ==
  [query : {<<>>}, ctype : ContentType, body : {Bad, CodeBody, Secret, RefreshBody},
   auth : {<<>>, <<Basic>>, <<Bearer>>, <<[scheme |-> "nontext"]>>, <<Basic, Bearer>>,
           <<Bearer, Basic>>}]
  \cup
  [query : {Bad, << <<"client_id", c1>>, <<"response_type", "token">> >>,
            << <<"client_id", c1>>, <<"redirect_uri", x1>>, <<"response_type", "code">> >>},
   ctype : {"none"}, body : {<<>>}, auth : {<<>>}]

MCGrants ==
  [owner : {o1}, client : {c1}, uri : {x1}, scope : {{}, {a1}}, until : {0, 1},
   ext : {Nil}]
=============================================================================
