------------------------------ MODULE MCAddons ------------------------------
(* AddonList with three addons, two of which share an identifier.            *)
EXTENDS Addons, TLC

MCAddon == {"pkce", "device", "device2"}

MCIdentifier(a) == IF a = "pkce" THEN "pkce" ELSE "device"

Symmetry == Permutations(Value) \cup Permutations(Code)
=============================================================================
