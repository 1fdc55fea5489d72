---------------------------- MODULE MCDbRegistrar ----------------------------
(* Two instances, two replicas, a client with two rows, one of which does not *)
(* parse, a client whose id clashes with the key of the hash, and an id that  *)
(* is not a literal in the query.                                            *)
EXTENDS DbRegistrar

CONSTANTS c1, c2, c3, a1, p1, p2, x1, x2

MCToUrl(x) == x

MCRow(uri, more, secret) == [uri |-> uri, more |-> more, scope |-> {a1}, secret |-> secret]

MCRows == {<<c1, MCRow(x1, {x2}, p1)>>, <<c1, MCRow(x1, {Bad}, p1)>>}

MCRecords == {<<c2, [uri |-> [exact |-> FALSE, text |-> x2], more |-> {},
                     scope |-> {a1}, pass |-> Nil]>>}

MCCalls == [kind : {"bound_redirect"}, client : {c1}, arg : {x2}]
             \cup [kind : {"negotiate"}, client : {c2}, arg : {[exact |-> TRUE, text |-> x2]}]
             \cup [kind : {"check"}, client : {c3}, arg : {p1}]
=============================================================================
