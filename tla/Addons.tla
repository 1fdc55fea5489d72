------------------------------- MODULE Addons -------------------------------
(***************************************************************************)
(* AddonList of frontends/simple/extensions: the addons of an endpoint, one  *)
(* list run on authorization requests and one on access token requests.      *)
(* What an authorization addon answers is stored in the grant under the      *)
(* addon's identifier and given to the access token addon of the same        *)
(* identifier when the code is exchanged.  Identifiers are meant to be       *)
(* unique, which nothing enforces.  Grants outlive the process, whose lists  *)
(* the operator fills anew at every start.                                   *)
(***************************************************************************)
EXTENDS Naturals, Sequences

CONSTANTS
  Nil,
  Addon,           \* addons; each can be pushed to either list, or to both
  Ident,           \* identifiers
  Identifier(_),   \* GrantExtension::identifier
  Value,           \* data an addon can answer with
  Code,            \* authorization codes
  MaxLength,       \* bound: length of a list
  MaxAddons,       \* bound: entries of both lists
  MaxRestarts      \* bound: restarts of the process

ASSUME AddonsAssumption ==
  /\ \A a \in Addon : Identifier(a) \in Ident
  /\ Nil \notin Value
  /\ MaxLength \in Nat /\ MaxAddons \in Nat /\ MaxRestarts \in Nat

VARIABLES
  authorization, accessToken,  \* the two lists of AddonList
  store,      \* store[c]: the extensions of the grant behind code c, or Nil
  task,       \* the running or last call of extend, see Task
  \* History.
  stored,     \* stored[c]: what the authorization addons answered for c
  source,     \* the same for the code of the running or last exchange
  heard,      \* what each addon of the running or last call got and answered
  restarts

lists == <<authorization, accessToken>>
history == <<stored, source, heard>>
vars == <<lists, store, task, history, restarts>>

\* Extensions: the data of every identifier.
Extensions == [Ident -> Value \cup {Nil}]
NoExtensions == [x \in Ident |-> Nil]

\* AddonResult: "Ok", "Err", or Data with a value.
AddonResult == Value \cup {"Ok", "Err"}

\* A call of extend: the addons left of the loop's list, `data` and
\* `result_data`.
Task == [kind : {"authorization", "access_token"},
         state : {"running", "ok", "err"}, code : Code,
         rest : Seq(Addon), data : Extensions, result : Extensions]

Running == task # Nil /\ task.state = "running"

Init ==
  /\ authorization = <<>>
  /\ accessToken = <<>>
  /\ store = [c \in Code |-> Nil]
  /\ task = Nil
  /\ stored = [c \in Code |-> <<>>]
  /\ source = <<>>
  /\ heard = <<>>
  /\ restarts = 0

----------------------------------------------------------------------------
(* Filling the lists.  They are borrowed while extend runs. *)

\* The last call is over and forgotten.
Forget == task' = Nil /\ source' = <<>> /\ heard' = <<>>

Push(auth, access) ==
  /\ ~Running
  /\ Len(auth) <= MaxLength /\ Len(access) <= MaxLength
  /\ Len(auth) + Len(access) <= MaxAddons
  /\ authorization' = auth
  /\ accessToken' = access
  /\ Forget
  /\ UNCHANGED <<store, stored, restarts>>

PushAuthorization(a) == Push(Append(authorization, a), accessToken)
PushAccessToken(a) == Push(authorization, Append(accessToken, a))
PushCode(a) == Push(Append(authorization, a), Append(accessToken, a))

\* A new process, with a list that is filled from the start; an exchange or
\* an authorization that was running is gone.
Restart ==
  /\ restarts < MaxRestarts
  /\ restarts' = restarts + 1
  /\ authorization' = <<>>
  /\ accessToken' = <<>>
  /\ Forget
  /\ UNCHANGED <<store, stored>>

----------------------------------------------------------------------------
(* extend *)

\* An authorization request that will be answered with code c.
AuthorizationBegin(c) ==
  /\ ~Running
  /\ store[c] = Nil
  /\ task' = [kind |-> "authorization", state |-> "running", code |-> c,
              rest |-> authorization, data |-> NoExtensions, result |-> NoExtensions]
  /\ source' = <<>>
  /\ heard' = <<>>
  /\ UNCHANGED <<lists, store, stored, restarts>>

\* Mutant: the data of the code goes into the token.
AccessTokenBeginKeeping(c) ==
  /\ ~Running
  /\ store[c] # Nil
  /\ task' = [kind |-> "access_token", state |-> "running", code |-> c,
              rest |-> accessToken, data |-> store[c], result |-> store[c]]
  /\ store' = [store EXCEPT ![c] = Nil]
  /\ stored' = [stored EXCEPT ![c] = <<>>]
  /\ source' = stored[c]
  /\ heard' = <<>>
  /\ UNCHANGED <<lists, restarts>>

\* An access token request: the code is consumed before the addons are asked.
AccessTokenBegin(c) ==
  /\ ~Running
  /\ store[c] # Nil
  /\ task' = [kind |-> "access_token", state |-> "running", code |-> c,
              rest |-> accessToken, data |-> store[c], result |-> NoExtensions]
  /\ store' = [store EXCEPT ![c] = Nil]
  /\ stored' = [stored EXCEPT ![c] = <<>>]
  /\ source' = stored[c]
  /\ heard' = <<>>
  /\ UNCHANGED <<lists, restarts>>

\* One pass of a loop: Err ends it, Data is set under the identifier.
Proceed(a, answer, data) ==
  task' = [task EXCEPT
    !.state = IF answer = "Err" THEN "err" ELSE "running",
    !.rest = Tail(task.rest),
    !.data = data,
    !.result = IF answer \in Value
               THEN [task.result EXCEPT ![Identifier(a)] = answer]
               ELSE task.result]

AuthorizationAddon(answer) ==
  /\ Running /\ task.kind = "authorization" /\ task.rest # <<>>
  /\ Proceed(Head(task.rest), answer, task.data)
  /\ heard' = Append(heard, [addon |-> Head(task.rest), given |-> Nil, answer |-> answer])
  /\ UNCHANGED <<lists, store, stored, source, restarts>>

\* Mutant: the data is looked up and not removed.
AccessTokenAddonGet(answer) ==
  LET a == Head(task.rest)
      x == Identifier(a)
  IN
  /\ Running /\ task.kind = "access_token" /\ task.rest # <<>>
  /\ Proceed(a, answer, task.data)
  /\ heard' = Append(heard, [addon |-> a, given |-> task.data[x], answer |-> answer])
  /\ UNCHANGED <<lists, store, stored, source, restarts>>

\* data.remove(ext): the addon gets the data and takes it away.
AccessTokenAddon(answer) ==
  LET a == Head(task.rest)
      x == Identifier(a)
  IN
  /\ Running /\ task.kind = "access_token" /\ task.rest # <<>>
  /\ Proceed(a, answer, [task.data EXCEPT ![x] = Nil])
  /\ heard' = Append(heard, [addon |-> a, given |-> task.data[x], answer |-> answer])
  /\ UNCHANGED <<lists, store, stored, source, restarts>>

\* The loop is done.  An authorization goes on to store the grant.
Finish ==
  /\ Running /\ task.rest = <<>>
  /\ task' = [task EXCEPT !.state = "ok"]
  /\ IF task.kind = "authorization"
     THEN /\ store' = [store EXCEPT ![task.code] = task.result]
          /\ stored' = [stored EXCEPT ![task.code] = heard]
     ELSE UNCHANGED <<store, stored>>
  /\ UNCHANGED <<lists, source, heard, restarts>>

Next ==
  \/ \E a \in Addon : PushAuthorization(a)
  \/ \E a \in Addon : PushAccessToken(a)
  \/ \E a \in Addon : PushCode(a)
  \/ Restart
  \/ \E c \in Code : AuthorizationBegin(c)
  \/ \E c \in Code : AccessTokenBegin(c)
  \/ \E r \in AddonResult : AuthorizationAddon(r)
  \/ \E r \in AddonResult : AccessTokenAddon(r)
  \/ Finish

Spec == Init /\ [][Next]_vars

----------------------------------------------------------------------------
(* Properties *)

\* The last data that addons with identifier x answered in a log, or Nil.
LastData(log, x) ==
  LET at == {i \in DOMAIN log : log[i].answer \in Value /\ Identifier(log[i].addon) = x}
  IN  IF at = {} THEN Nil
      ELSE log[CHOOSE i \in at : \A j \in at : j <= i].answer

\* AccessTokenAddon: "any data which was returned as a response to the
\* authorization code request is provided as an additional parameter".  Each
\* access token addon gets the last data an addon of its identifier returned
\* for this very code, also when the lists have changed since; when several
\* addons share an identifier only the first of them gets it.
GivenIsStored ==
  task # Nil /\ task.kind = "access_token" =>
    \A i \in DOMAIN heard :
      LET x == Identifier(heard[i].addon) IN
      heard[i].given =
        IF \E j \in 1 .. i - 1 : Identifier(heard[j].addon) = x
        THEN Nil
        ELSE LastData(source, x)

\* A request passes extend only when every addon of the list was asked, in
\* order, and none answered Err; what it attaches to the grant is the last
\* data of each identifier in this very call, nothing left over from the
\* authorization.
AttachedIsAnswered ==
  task # Nil /\ task.state = "ok" =>
    /\ \A i \in DOMAIN heard : heard[i].answer # "Err"
    /\ task.result = [x \in Ident |-> LastData(heard, x)]
    /\ LET list == IF task.kind = "authorization" THEN authorization ELSE accessToken
       IN  /\ Len(heard) = Len(list)
           /\ \A i \in DOMAIN heard : heard[i].addon = list[i]
=============================================================================
