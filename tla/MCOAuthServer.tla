---------------------------- MODULE MCOAuthServer ----------------------------
(* A confidential client c1 that uses PKCE and a public client c2, with a    *)
(* second registration of c1 that drops a uri and a scope and changes the         *)
(* passphrase.                                                               *)
EXTENDS OAuthServer, TLC

CONSTANTS c1, c2, o1, a1, b1, p1, p2, x1, x2, v1, h1, y2

\* y2 is x2 written differently.
MCToUrl(x) == IF x = y2 THEN x2 ELSE x

MCB64Sha256(v) == h1

Exact(x) == [exact |-> TRUE, text |-> x]
Semantic(x) == [exact |-> FALSE, text |-> x]

MCRegistrations ==
  { <<c1, [uri |-> Exact(x1), more |-> {Semantic(x2)}, scope |-> {a1, b1}, pass |-> p1]>>,
    <<c1, [uri |-> Exact(x1), more |-> {}, scope |-> {a1}, pass |-> p2]>>,
    <<c2, [uri |-> Exact(x2), more |-> {}, scope |-> {a1}, pass |-> Nil]>> }

MCAuthorizationRequests ==
  [valid : {TRUE}, client : {c1}, uri : {y2}, type : {"code"}, scope : {Nil},
   method : {"S256"}, challenge : {h1}]
    \cup
  [valid : {TRUE}, client : {c2}, uri : {Nil}, type : {"code"}, scope : {Nil},
   method : {Nil}, challenge : {Nil, v1}]

MCAccessTokenRequests ==
  [valid : {TRUE}, header : {<<c1, p1>>}, client : {Nil}, secret : {Nil}, body : {FALSE},
   type : {"authorization_code"}, uri : {x2}, code : Code, verifier : {v1, Nil}]
    \cup
  [valid : {TRUE}, header : {Nil}, client : {c1, c2}, secret : {Nil}, body : {TRUE},
   type : {"authorization_code"}, uri : {x2}, code : Code, verifier : {v1}]

MCRefreshRequests ==
  [valid : {TRUE}, header : {<<c1, p1>>}, type : {"refresh_token"},
   token : Token, scope : {{a1}}]
    \cup
  [valid : {TRUE}, header : {Nil}, type : {"refresh_token"}, token : Token,
   scope : {Nil, {a1, b1}}]

MCImplicitRequests ==
  [client : {c1}, uri : {y2}, scope : {Nil}, user : Owner]

MCResourceRequests == [valid : {TRUE}, token : Token]

MCResourceScopes == {{a1, b1}}

Symmetry == Permutations(Thread)
=============================================================================
