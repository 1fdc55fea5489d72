-------------------------------- MODULE Pkce --------------------------------
(***************************************************************************)
(* The PKCE extension of code_grant/extensions/pkce.rs, as the addon list    *)
(* of the simple frontend runs it.  The encoded method (the challenge with a *)
(* letter appended) is the pair <<method, challenge>>: taking the last       *)
(* letter off again is exact.                                                *)
(***************************************************************************)
EXTENDS Params

CONSTANTS
  Text,          \* challenge strings
  Verifier,      \* those that clients use as verifiers
  B64Sha256(_),  \* base64 of the digest of a verifier
  Required,      \* Pkce::required() or Pkce::optional()
  AllowPlain     \* was allow_plain() called?

\* code_challenge_method; "other" is any method but the two known ones.
MethodParam == {"plain", "S256", "other", Nil}

Encoded == {"plain", "S256"} \X Text

ASSUME PkceAssumption ==
  /\ Required \in BOOLEAN /\ AllowPlain \in BOOLEAN
  /\ Nil \notin Text /\ Bad \notin Text
  /\ Nil \notin {"plain", "S256", "other"} /\ Nil \notin Encoded
  /\ Verifier \subseteq Text
  /\ \A v \in Verifier : B64Sha256(v) \in Text
  /\ \A v, w \in Verifier : B64Sha256(v) = B64Sha256(w) => v = w

\* Authorization request: the data to save, Nil for none, Bad for Err(()).
Challenge(method, challenge) ==
  LET m == IF method = Nil THEN "plain" ELSE method
  IN  IF challenge = Nil THEN (IF Required THEN Bad ELSE Nil)
      ELSE IF m = "S256" \/ (m = "plain" /\ AllowPlain) THEN <<m, challenge>>
      ELSE Bad

\* Mutant: a missing verifier is not looked at.
VerifyLenient(saved, verifier) ==
  IF saved = Nil THEN ~Required
  ELSE \/ verifier = Nil
       \/ saved[2] = IF saved[1] = "plain" THEN verifier ELSE B64Sha256(verifier)

\* Access token request: does the addon answer Ok?
Verify(saved, verifier) ==
  IF saved = Nil THEN ~Required
  ELSE /\ verifier # Nil
       /\ saved[2] = IF saved[1] = "plain" THEN verifier ELSE B64Sha256(verifier)
=============================================================================
