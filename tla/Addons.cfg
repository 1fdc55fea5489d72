SPECIFICATION Spec
CONSTANTS
  Nil = Nil
  Addon <- MCAddon
  Ident = {"pkce", "device"}
  Identifier <- MCIdentifier
  Value = {v1, v2}
  Code = {c1, c2}
  MaxLength = 2
  MaxAddons = 3
  MaxRestarts = 1
SYMMETRY Symmetry
INVARIANTS
  GivenIsStored
  AttachedIsAnswered
