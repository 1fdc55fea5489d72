----------------------------- MODULE TokenStore -----------------------------
(***************************************************************************)
(* What an Issuer promises (primitives/issuer.rs, trait Issuer): an access   *)
(* token stands for one grant from the moment it is stored to the moment a   *)
(* refresh replaces it, and is not heard of again; a refresh token can be    *)
(* looked up only together with the one access token it renews.              *)
(***************************************************************************)
CONSTANTS Grant, Tag, Nil

VARIABLES
  live,       \* live[t]: the record of access token t, or Nil
  renewable,  \* renewable[f]: the record of refresh token f, or Nil
  dead        \* replaced access tokens

vars == <<live, renewable, dead>>

Init ==
  /\ live = [t \in Tag |-> Nil]
  /\ renewable = [f \in Tag |-> Nil]
  /\ dead = {}

\* No access token of refresh token f is accepted.
Unserved(f) == \A t \in Tag : live[t] # Nil => live[t].refresh # f

\* A new access token: a refresh token gets one only when it has none and is
\* not on offer.
Add(t, f, g) ==
  /\ live[t] = Nil /\ t \notin dead
  /\ f # Nil => Unserved(f) /\ renewable[f] = Nil
  /\ live' = [live EXCEPT ![t] = [access |-> t, refresh |-> f, grant |-> g]]
  /\ UNCHANGED <<renewable, dead>>

\* A refresh token can be looked up from now on, with its access token.
Offer(f, t) ==
  /\ renewable[f] = Nil
  /\ live[t] # Nil /\ live[t].refresh = f
  /\ renewable' = [renewable EXCEPT ![f] = live[t]]
  /\ UNCHANGED <<live, dead>>

\* A refresh takes the token out, and only then the access token goes.
Take(f) ==
  /\ renewable[f] # Nil
  /\ renewable' = [renewable EXCEPT ![f] = Nil]
  /\ UNCHANGED <<live, dead>>

Retire(t) ==
  /\ live[t] # Nil
  /\ live[t].refresh # Nil /\ renewable[live[t].refresh] = Nil
  /\ live' = [live EXCEPT ![t] = Nil]
  /\ dead' = dead \cup {t}
  /\ UNCHANGED renewable

\* (All of them change something.  Said first, this saves TLC the search for
\* an action in the many steps of the implementation that change nothing here.)
Next ==
  /\ vars' # vars
  /\ \/ \E t \in Tag, f \in Tag \cup {Nil}, g \in Grant : Add(t, f, g)
     \/ \E f, t \in Tag : Offer(f, t)
     \/ \E f \in Tag : Take(f)
     \/ \E t \in Tag : Retire(t)

Spec == Init /\ [][Next]_vars
=============================================================================
