------------------------------ MODULE CodeStore ------------------------------
(***************************************************************************)
(* What an Authorizer promises (primitives/authorizer.rs, trait Authorizer): *)
(* a code stands for one grant, and extracting it hands out that grant and   *)
(* removes the code in one indivisible step.  An entry may also vanish       *)
(* without an answer (the answer to the extraction was lost).                *)
(***************************************************************************)
EXTENDS Naturals

CONSTANTS Grant, Tag, Nil

VARIABLES
  store,     \* store[t]: the grant the code t stands for, or Nil
  redeemed,  \* redeemed[t]: how often t was exchanged for its grant
  answer     \* answer[t]: the grant of the last exchange of t

vars == <<store, redeemed, answer>>

Init ==
  /\ store = [t \in Tag |-> Nil]
  /\ redeemed = [t \in Tag |-> 0]
  /\ answer = [t \in Tag |-> Nil]

\* A new code for some grant: never one that is still live.
Authorize(t) ==
  /\ store[t] = Nil
  /\ store'[t] \in Grant
  /\ store' = [store EXCEPT ![t] = store'[t]]
  /\ UNCHANGED <<redeemed, answer>>

\* The exchange: the answer is the grant that the same step removes.
Extract(t) ==
  /\ store[t] # Nil
  /\ store' = [store EXCEPT ![t] = Nil]
  /\ redeemed' = [redeemed EXCEPT ![t] = @ + 1]
  /\ answer' = [answer EXCEPT ![t] = store[t]]

\* The code is gone and nobody was given the grant.
Lose(t) ==
  /\ store[t] # Nil
  /\ store' = [store EXCEPT ![t] = Nil]
  /\ UNCHANGED <<redeemed, answer>>

Next ==
  \E t \in Tag :
    \/ Authorize(t)
    \/ Extract(t)
    \/ Lose(t)

Spec == Init /\ [][Next]_vars
=============================================================================
