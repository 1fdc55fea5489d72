------------------------------- MODULE Scopes -------------------------------
(***************************************************************************)
(* primitives/scope.rs: a scope is a set of scope tokens, ordered by         *)
(* counting common tokens.  A scope parameter with an invalid character does *)
(* not parse.                                                                *)
(***************************************************************************)
EXTENDS Params, Integers, FiniteSets

CONSTANT ScopeToken

ASSUME ScopesAssumption == IsFiniteSet(ScopeToken)

Scope == SUBSET ScopeToken

PartialCmp(a, b) ==
  LET n == Cardinality(a \cap b)
  IN  IF n = Cardinality(a) /\ n = Cardinality(b) THEN "Equal"
      ELSE IF n = Cardinality(a) THEN "Less"
      ELSE IF n = Cardinality(b) THEN "Greater"
      ELSE "None"

\* `rhs <= self` and `self <= rhs`.
PriviledgedTo(self, rhs) == PartialCmp(rhs, self) \in {"Less", "Equal"}
AllowAccess(self, rhs) == PartialCmp(self, rhs) \in {"Less", "Equal"}
=============================================================================
