------------------------------ MODULE TagGrant ------------------------------
(***************************************************************************)
(* The token generators of primitives/generator.rs, as AuthMap and TokenMap *)
(* use them: an object that turns (usage, grant) into a token string.       *)
(*                                                                         *)
(*   "random"    RandomGenerator: ignores its input.  Sixteen random bytes  *)
(*               do not repeat, so a drawn tag is one never drawn before.   *)
(*   "assertion" Assertion: base64 of the HMAC of (grant, usage), in which  *)
(*               the expiry is a whole number of seconds (time_serde), while *)
(*               redis keeps it in full.  The words of the scope and the     *)
(*               extensions are serialized in the order of a hash table, so  *)
(*               that one grant may have several signatures.  A grant with   *)
(*               private extensions is refused.                              *)
(***************************************************************************)
EXTENDS Integers

CONSTANTS
  Taggers,      \* the generators considered
  Grant,        \* the grants a client can be given, with their exact expiry
  Private,      \* those of them that carry a private extension
  Tag,          \* token strings
  Signed(_),    \* what is signed of a grant: the expiry loses its fraction
  Signatures(_, _),  \* the HMACs of (usage, grant), one per order
  U64,          \* number of values of the usage counter's type (2^64)
  Nil           \* an absent redis value, Option::None, or an Err(())

Usage == 0 .. U64 - 1

ASSUME U64Assumption == U64 \in Nat /\ U64 >= 2

ASSUME TaggersAssumption == Taggers \subseteq {"random", "assertion"}

ASSUME GrantAssumption == Private \subseteq Grant /\ Nil \notin Grant

ASSUME TagAssumption == Nil \notin Tag

\* The HMAC is collision free: a signature determines what was signed, and
\* no more than that.
ASSUME SignAssumption ==
  /\ \A g \in Grant : Signed(g) # Nil
  /\ \A u \in Usage, g \in Grant \ Private :
        Signatures(u, g) # {} /\ Signatures(u, g) \subseteq Tag
  /\ \A u, v \in Usage, g, h \in Grant \ Private :
        Signatures(u, g) \cap Signatures(v, h) # {} =>
          u = v /\ Signed(g) = Signed(h)

\* Mutant: plain addition, which leaves the type.
PlainAdd(u, n) == u + n

\* u64::wrapping_add.
WrappingAdd(u, n) == (u + n) % U64

\* Mutant: the HMAC covers the usage and not the grant.
TagOfUsageOnly(tagger, drawn, u, g) ==
  IF tagger = "random" THEN Tag \ drawn
  ELSE IF g \in Private THEN {Nil}
  ELSE Signatures(u, CHOOSE h \in Grant \ Private : TRUE)

\* What tag(usage, grant) can return; Nil stands for Err(()).  `drawn` is the
\* set of tags that the random generators have returned so far.
TagOf(tagger, drawn, u, g) ==
  IF tagger = "random" THEN Tag \ drawn
  ELSE IF g \in Private THEN {Nil}
  ELSE Signatures(u, g)
=============================================================================
