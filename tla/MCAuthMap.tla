------------------------------ MODULE MCAuthMap ------------------------------
(* AuthMap on a small instance.  A grant is a pair <<second, fraction>> with  *)
(* the moment it expires at.  Tags are the pairs an HMAC tells apart; the     *)
(* random generator draws from the same set.                                 *)
EXTENDS AuthMap

CONSTANTS x, y, z   \* seconds

MCGrant == {<<x, 0>>, <<x, 1>>, <<y, 0>>, <<z, 0>>}

MCPrivate == {<<z, 0>>}

MCSigned(g) == g[1]

MCTag == (0 .. U64 - 1) \X {MCSigned(g) : g \in Grant \ Private}

MCSignatures(u, g) == {<<u, MCSigned(g)>>}
=============================================================================
