--------------------------- MODULE MCTokenSigner ----------------------------
(* TokenSigner on a small instance: the counter wraps and keys are reused.   *)
EXTENDS TokenSigner, TLC

Symmetry == Permutations(Thread) \cup Permutations(Key)
=============================================================================
