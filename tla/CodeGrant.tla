------------------------------ MODULE CodeGrant ------------------------------
(***************************************************************************)
(* What the state machines of code_grant/*.rs have in common: grants, time,  *)
(* and the form of their states, inputs and outputs.                         *)
(*                                                                         *)
(* A machine state is a record whose field `at` names the variant of the     *)
(* state enum; an input or output is a record whose field `kind` names the   *)
(* variant.  `advance` consumes the old state and returns an output together *)
(* with the new state, modelled as the record [m, out].                      *)
(***************************************************************************)
EXTENDS Registrar, Pkce

CONSTANTS
  Owner,        \* resource owners
  Code,         \* authorization codes
  Token,        \* access and refresh tokens
  CodeLife,     \* Pending::authorize: until = now + 1 day (10 min. when async)
  RefreshLife,  \* refresh.rs validate: until = now + 7 days
  ImplicitLife  \* authorization_token: until = now + 1 hour

ASSUME LifeAssumption == {CodeLife, RefreshLife, ImplicitLife} \subseteq Nat \ {0}

\* primitives::grant::Grant; ext is the saved PKCE method or Nil.
Grant == [owner : Owner, client : Client, uri : Url, scope : Scope,
          until : Nat, ext : Encoded \cup {Nil}]

\* Option::None is no client, no token and no grant.
ASSUME OptionAssumption == Nil \notin Client /\ Nil \notin Token /\ Nil \notin Grant

None == [kind |-> "None"]

Err(error) == [at |-> "Err", error |-> error]
OutErr(error) == [kind |-> "Err", error |-> error]
=============================================================================
