------------------------------- MODULE Params -------------------------------
(* Request parameters: an absent one is Nil (Option::None), one that does not *)
(* parse is Bad.                                                             *)
CONSTANTS Nil, Bad

ASSUME ParamsAssumption == Nil # Bad
=============================================================================
