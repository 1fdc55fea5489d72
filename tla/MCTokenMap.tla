----------------------------- MODULE MCTokenMap -----------------------------
(* TokenMap on a small instance.  Tags are the pairs an HMAC tells apart; the *)
(* random generator draws from the same set.                                 *)
EXTENDS TokenMap, TLC

MCTag == (0 .. U64 - 1) \X (Grant \ Private)

MCSigned(g) == g

MCSignatures(u, g) == {<<u, g>>}

Symmetry == Permutations(Server)
=============================================================================
