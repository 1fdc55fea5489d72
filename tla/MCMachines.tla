----------------------------- MODULE MCMachines -----------------------------
(* The machines on a small instance: two clients, two scope tokens, grants   *)
(* that differ in client, uri, scope and expiry.                                  *)
EXTENDS Machines

CONSTANTS c1, c2, o1, a1, b1

MCToUrl(x) == x

MCB64Sha256(v) == v

MCGrants ==
  [owner : {o1}, client : {c1, c2}, uri : UriText, scope : {{}, {a1}, {a1, b1}},
   until : {0, 1, 2}, ext : {Nil}]
=============================================================================
