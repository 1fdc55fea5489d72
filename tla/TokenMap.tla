------------------------------ MODULE TokenMap ------------------------------
(***************************************************************************)
(* TokenMap of primitives/issuer.rs: access and refresh tokens, kept in two  *)
(* redis hashes that several server instances share.  As in AuthMap, issue   *)
(* and refresh are sequences of single redis commands, commands of different *)
(* instances interleave, a command is answered ("ok"), applied but reported  *)
(* as failed ("lost") or not applied ("refused"), and instances may crash.   *)
(* An operation that ends without Ok tells its caller nothing.               *)
(***************************************************************************)
EXTENDS TagGrant

CONSTANTS
  Server,     \* server instances sharing the redis cluster
  Replies,    \* the fates a redis command can meet here
  MaxCalls    \* bound: number of calls of issue, refresh, import_grant and revoke

ASSUME TokenMapAssumption ==
  /\ Replies \subseteq {"ok", "lost", "refused"}
  /\ MaxCalls \in Nat

VARIABLES
  tagger,    \* the generator TokenMap::new was given
  usage,     \* redis key oauth2:tokenmap_usage, Nil while it does not exist
  access,    \* redis hash oauth2:tokenmap_access: access token -> Token
  refresh,   \* redis hash oauth2:tokenmap_refresh: refresh token -> Token
  op,        \* op[s]: the operation instance s is running, see Op
  \* History.
  drawn,     \* tags the generators returned and tokens imported
  disclosed, \* refresh tokens that issue returned to a client
  retired,   \* access tokens that a refresh removed
  calls,     \* calls so far
  faulty     \* has a command failed, an instance crashed or a token been guessed?

redis == <<usage, access, refresh>>
vars == <<tagger, redis, op, drawn, disclosed, retired, calls, faulty>>

\* The stored record: both hashes hold a copy of it.  Imported tokens have no
\* refresh token.
Token == [access : Tag, refresh : Tag \cup {Nil}, grant : Grant]

ASSUME NilAssumption == Nil \notin Token

\* Local variables of a running operation: the command it issues next, the
\* refresh token it was called with (Nil in issue), the grant it was called
\* with, the record it builds or has read, the new access token, the access
\* field of the record HGET found under token.access, and next_usage.
Op == [pc : {"idle",
             "issue_usage", "issue_access", "issue_refresh", "issue_set_usage",
             "hget", "hdel", "usage", "hget_access", "hdel_access",
             "hset_access", "hset_refresh", "set_usage"},
       key : Tag \cup {Nil}, grant : Grant \cup {Nil}, token : Token \cup {Nil},
       new : Tag \cup {Nil}, back : Tag \cup {Nil}, next : Usage]

Idle == [pc |-> "idle", key |-> Nil, grant |-> Nil, token |-> Nil,
         new |-> Nil, back |-> Nil, next |-> 0]

Init ==
  /\ tagger \in Taggers
  /\ usage = Nil
  /\ access = [t \in Tag |-> Nil]
  /\ refresh = [t \in Tag |-> Nil]
  /\ op = [s \in Server |-> Idle]
  /\ drawn = {}
  /\ disclosed = {}
  /\ retired = {}
  /\ calls = 0
  /\ faulty = FALSE

Return(s) == op' = [op EXCEPT ![s] = Idle]

Applied(r) == r # "refused"

NoteFault(r) == faulty' = (faulty \/ r # "ok")

Begin(s, pc, key, g) ==
  /\ op[s].pc = "idle"
  /\ calls < MaxCalls
  /\ calls' = calls + 1
  /\ op' = [op EXCEPT ![s] = [pc |-> pc, key |-> key, grant |-> g, token |-> Nil,
                              new |-> Nil, back |-> Nil, next |-> 0]]
  /\ UNCHANGED <<tagger, redis, drawn, disclosed, retired, faulty>>

\* Mutant: a failed HSET counts as a success.
HsetAccessOnError(s, r, pc) ==
  LET t == op[s].token.access
  IN
  /\ access' = IF Applied(r) THEN [access EXCEPT ![t] = op[s].token] ELSE access
  /\ op' = [op EXCEPT ![s].pc = pc]
  /\ NoteFault(r)
  /\ UNCHANGED <<tagger, usage, refresh, drawn, disclosed, retired, calls>>

\* HSET of the record under its access token; the answer must be 1 (a new
\* field), but the field is written in any case.
HsetAccess(s, r, pc) ==
  LET t == op[s].token.access
  IN
  /\ access' = IF Applied(r) THEN [access EXCEPT ![t] = op[s].token] ELSE access
  /\ IF r = "ok" /\ access[t] = Nil THEN op' = [op EXCEPT ![s].pc = pc] ELSE Return(s)
  /\ NoteFault(r)
  /\ UNCHANGED <<tagger, usage, refresh, drawn, disclosed, retired, calls>>

\* Mutant: the field is the access token.
HsetRefreshWrongField(s, r, pc) ==
  LET t == op[s].token.access
  IN
  /\ refresh' = IF Applied(r) THEN [refresh EXCEPT ![t] = op[s].token] ELSE refresh
  /\ IF r = "ok" /\ refresh[t] = Nil THEN op' = [op EXCEPT ![s].pc = pc] ELSE Return(s)
  /\ NoteFault(r)
  /\ UNCHANGED <<tagger, usage, access, drawn, disclosed, retired, calls>>

\* The same under its refresh token.
HsetRefresh(s, r, pc) ==
  LET t == op[s].token.refresh
  IN
  /\ refresh' = IF Applied(r) THEN [refresh EXCEPT ![t] = op[s].token] ELSE refresh
  /\ IF r = "ok" /\ refresh[t] = Nil THEN op' = [op EXCEPT ![s].pc = pc] ELSE Return(s)
  /\ NoteFault(r)
  /\ UNCHANGED <<tagger, usage, access, drawn, disclosed, retired, calls>>

\* SET of next_usage, the last command of issue and refresh.
SetUsage(s, r) ==
  /\ usage' = IF Applied(r) THEN op[s].next ELSE usage
  /\ Return(s)
  /\ NoteFault(r)
  /\ UNCHANGED <<tagger, access, refresh, drawn, retired, calls>>

----------------------------------------------------------------------------
(* issue *)

IssueBegin(s, g) == Begin(s, "issue_usage", Nil, g)

\* GET of the usage: a failed GET and a missing key count as 0.  Two tags.
IssueGetUsage(s, r) ==
  LET u == IF r = "ok" /\ usage # Nil THEN usage ELSE 0
      g == op[s].grant
  IN
  /\ op[s].pc = "issue_usage"
  /\ \E a \in TagOf(tagger, drawn, u, g) :
     \E b \in TagOf(tagger, drawn \cup {a}, WrappingAdd(u, 1), g) :
       \/ /\ a = Nil \/ b = Nil
          /\ Return(s)
          /\ UNCHANGED drawn
       \/ /\ a # Nil /\ b # Nil
          /\ drawn' = drawn \cup {a, b}
          /\ op' = [op EXCEPT ![s].pc = "issue_access",
                              ![s].token = [access |-> a, refresh |-> b, grant |-> g],
                              ![s].next = WrappingAdd(u, 2)]
  /\ NoteFault(r)
  /\ UNCHANGED <<tagger, redis, disclosed, retired, calls>>

IssueHsetAccess(s, r) ==
  op[s].pc = "issue_access" /\ HsetAccess(s, r, "issue_refresh")

IssueHsetRefresh(s, r) ==
  op[s].pc = "issue_refresh" /\ HsetRefresh(s, r, "issue_set_usage")

\* Only after the SET does the client learn the tokens.
IssueSetUsage(s, r) ==
  /\ op[s].pc = "issue_set_usage"
  /\ disclosed' = IF r = "ok" THEN disclosed \cup {op[s].token.refresh} ELSE disclosed
  /\ SetUsage(s, r)

----------------------------------------------------------------------------
(* refresh *)

\* A client may present any string as a refresh token.  (That it finds one it
\* was never handed is noted as a fault.)
RefreshBegin(s, t, g) == Begin(s, "hget", t, g)

RefreshHget(s, r) ==
  LET token == refresh[op[s].key]
  IN
  /\ op[s].pc = "hget"
  /\ IF r = "ok" /\ token # Nil
     THEN op' = [op EXCEPT ![s].pc = "hdel", ![s].token = token]
     ELSE Return(s)
  /\ faulty' = (faulty \/ r # "ok" \/ (token # Nil /\ op[s].key \notin disclosed))
  /\ UNCHANGED <<tagger, redis, drawn, disclosed, retired, calls>>

\* Mutant: the number of removed fields is not looked at.
RefreshHdelAnyReply(s, r) ==
  LET t == op[s].key
  IN
  /\ op[s].pc = "hdel"
  /\ refresh' = IF Applied(r) THEN [refresh EXCEPT ![t] = Nil] ELSE refresh
  /\ IF r = "ok" /\ op[s].token.refresh = t
     THEN op' = [op EXCEPT ![s].pc = "usage"]
     ELSE Return(s)
  /\ NoteFault(r)
  /\ UNCHANGED <<tagger, usage, access, drawn, disclosed, retired, calls>>

\* Mutant: the entry is left for the HSET at the end to replace.
RefreshHdelLater(s, r) ==
  /\ op[s].pc = "hdel"
  /\ IF r = "ok" /\ refresh[op[s].key] # Nil
     THEN op' = [op EXCEPT ![s].pc = "usage"]
     ELSE Return(s)
  /\ NoteFault(r)
  /\ UNCHANGED <<tagger, redis, drawn, disclosed, retired, calls>>

\* HDEL must answer 1.  Then assert!(refresh_key == token.refresh).
RefreshHdel(s, r) ==
  LET t == op[s].key
  IN
  /\ op[s].pc = "hdel"
  /\ refresh' = IF Applied(r) THEN [refresh EXCEPT ![t] = Nil] ELSE refresh
  /\ IF r = "ok" /\ refresh[t] # Nil /\ op[s].token.refresh = t
     THEN op' = [op EXCEPT ![s].pc = "usage"]
     ELSE Return(s)
  /\ NoteFault(r)
  /\ UNCHANGED <<tagger, usage, access, drawn, disclosed, retired, calls>>

\* GET of the usage: here a failure or a missing key ends the refresh.
RefreshGetUsage(s, r) ==
  /\ op[s].pc = "usage"
  /\ \/ /\ r # "ok" \/ usage = Nil
        /\ Return(s)
        /\ UNCHANGED drawn
     \/ /\ r = "ok" /\ usage # Nil
        /\ \E a \in TagOf(tagger, drawn, usage, op[s].grant) :
             IF a = Nil
             THEN Return(s) /\ UNCHANGED drawn
             ELSE /\ drawn' = drawn \cup {a}
                  /\ op' = [op EXCEPT ![s].pc = "hget_access", ![s].new = a,
                                      ![s].next = WrappingAdd(usage, 1)]
  /\ NoteFault(r)
  /\ UNCHANGED <<tagger, redis, disclosed, retired, calls>>

\* Mutant: an old access token that cannot be read is taken for removed.
RefreshHgetAccessTolerant(s, r) ==
  LET found == access[op[s].token.access]
  IN
  /\ op[s].pc = "hget_access"
  /\ IF r = "ok" /\ found # Nil
     THEN op' = [op EXCEPT ![s].pc = "hdel_access", ![s].back = found.access]
     ELSE op' = [op EXCEPT ![s].pc = "hset_access",
                           ![s].token = [access |-> op[s].new,
                                         refresh |-> op[s].token.refresh,
                                         grant |-> op[s].grant]]
  /\ NoteFault(r)
  /\ UNCHANGED <<tagger, redis, drawn, disclosed, retired, calls>>

RefreshHgetAccess(s, r) ==
  LET found == access[op[s].token.access]
  IN
  /\ op[s].pc = "hget_access"
  /\ IF r = "ok" /\ found # Nil
     THEN op' = [op EXCEPT ![s].pc = "hdel_access", ![s].back = found.access]
     ELSE Return(s)
  /\ NoteFault(r)
  /\ UNCHANGED <<tagger, redis, drawn, disclosed, retired, calls>>

\* Mutant: the record keeps the old access token.
RefreshHdelAccessKeeps(s, r) ==
  LET t == op[s].token.access
      gone == Applied(r) /\ access[t] # Nil
  IN
  /\ op[s].pc = "hdel_access"
  /\ access' = IF Applied(r) THEN [access EXCEPT ![t] = Nil] ELSE access
  /\ retired' = IF gone THEN retired \cup {t} ELSE retired
  /\ IF r = "ok" /\ access[t] # Nil /\ op[s].back = t
     THEN op' = [op EXCEPT ![s].pc = "hset_access", ![s].token.grant = op[s].grant]
     ELSE Return(s)
  /\ NoteFault(r)
  /\ UNCHANGED <<tagger, usage, refresh, drawn, disclosed, calls>>

\* HDEL must answer 1, assert!(token.access == _token.access), and the record
\* gets the new access token and grant.
RefreshHdelAccess(s, r) ==
  LET t == op[s].token.access
      gone == Applied(r) /\ access[t] # Nil
  IN
  /\ op[s].pc = "hdel_access"
  /\ access' = IF Applied(r) THEN [access EXCEPT ![t] = Nil] ELSE access
  /\ retired' = IF gone THEN retired \cup {t} ELSE retired
  /\ IF r = "ok" /\ access[t] # Nil /\ op[s].back = t
     THEN op' = [op EXCEPT ![s].pc = "hset_access",
                           ![s].token = [access |-> op[s].new,
                                         refresh |-> op[s].token.refresh,
                                         grant |-> op[s].grant]]
     ELSE Return(s)
  /\ NoteFault(r)
  /\ UNCHANGED <<tagger, usage, refresh, drawn, disclosed, calls>>

RefreshHsetAccess(s, r) ==
  op[s].pc = "hset_access" /\ HsetAccess(s, r, "hset_refresh")

RefreshHsetRefresh(s, r) ==
  op[s].pc = "hset_refresh" /\ HsetRefresh(s, r, "set_usage")

\* Ok(RefreshedToken) carries the new access token and `refresh: None`.
RefreshSetUsage(s, r) ==
  op[s].pc = "set_usage" /\ SetUsage(s, r) /\ UNCHANGED disclosed

----------------------------------------------------------------------------
(* import_grant, revoke, recover *)

\* One HSET whose answer nobody sees.  The operator imports new tokens only.
ImportGrant(t, g, r) ==
  /\ calls < MaxCalls
  /\ calls' = calls + 1
  /\ t \notin drawn
  /\ drawn' = drawn \cup {t}
  /\ access' = IF Applied(r)
               THEN [access EXCEPT ![t] = [access |-> t, refresh |-> Nil, grant |-> g]]
               ELSE access
  /\ NoteFault(r)
  /\ UNCHANGED <<tagger, usage, refresh, op, disclosed, retired>>

\* revoke removes the token from the maps of the struct, which nothing fills
\* and nothing reads: redis is not told, and the token stays valid.
Revoke(t) ==
  /\ calls < MaxCalls
  /\ calls' = calls + 1
  /\ UNCHANGED <<tagger, redis, op, drawn, disclosed, retired, faulty>>

\* What recover_token and recover_refresh answer in this state.
RecoverToken(t) == IF access[t] = Nil THEN Nil ELSE access[t].grant
RecoverRefresh(t) == IF refresh[t] = Nil THEN Nil ELSE refresh[t].grant

----------------------------------------------------------------------------
\* The instance dies between two commands; the redis side stays as it is.
Crash(s) ==
  /\ op[s].pc # "idle"
  /\ Replies # {"ok"}
  /\ Return(s)
  /\ faulty' = TRUE
  /\ UNCHANGED <<tagger, redis, drawn, disclosed, retired, calls>>

Step(s, r) ==
  \/ IssueGetUsage(s, r)
  \/ IssueHsetAccess(s, r)
  \/ IssueHsetRefresh(s, r)
  \/ IssueSetUsage(s, r)
  \/ RefreshHget(s, r)
  \/ RefreshHdel(s, r)
  \/ RefreshGetUsage(s, r)
  \/ RefreshHgetAccess(s, r)
  \/ RefreshHdelAccess(s, r)
  \/ RefreshHsetAccess(s, r)
  \/ RefreshHsetRefresh(s, r)
  \/ RefreshSetUsage(s, r)

Next ==
  \/ \E s \in Server, g \in Grant : IssueBegin(s, g)
  \/ \E s \in Server, t \in Tag, g \in Grant : RefreshBegin(s, t, g)
  \/ \E s \in Server, r \in Replies : Step(s, r)
  \/ \E t \in Tag, g \in Grant, r \in Replies : ImportGrant(t, g, r)
  \/ \E t \in Tag : Revoke(t)
  \/ \E s \in Server : Crash(s)

Spec == Init /\ [][Next]_vars

----------------------------------------------------------------------------
(* Properties *)

\* Values the variables can take.
TypeOK ==
  /\ tagger \in Taggers
  /\ usage \in Usage \cup {Nil}
  /\ access \in [Tag -> Token \cup {Nil}]
  /\ refresh \in [Tag -> Token \cup {Nil}]
  /\ op \in [Server -> Op]
  /\ drawn \in SUBSET Tag
  /\ disclosed \in SUBSET Tag
  /\ retired \in SUBSET Tag
  /\ calls \in Nat
  /\ faulty \in BOOLEAN

\* The refresh token whose entry instance s has taken out of the hash, or has
\* not put there yet.
Holding == {"issue_access", "issue_refresh", "usage", "hget_access",
            "hdel_access", "hset_access", "hset_refresh"}
Holds(s, t) == op[s].pc \in Holding /\ op[s].token.refresh = t

\* The entry of a refresh token works as a lock: while one instance is
\* between its HDEL and its HSET the entry is absent, and no other instance
\* gets there with the same token, however stale the record it read.
RefreshEntryIsLock ==
  tagger = "random" =>
    \A s \in Server, t \in Tag :
      Holds(s, t) =>
        /\ refresh[t] = Nil
        /\ \A z \in Server : Holds(z, t) => z = s

\* A refresh token has at most one live access token, at every moment of
\* every interleaving of refreshes, failures included: the old one is removed
\* before the new one is stored.
OneLiveAccess ==
  tagger = "random" =>
    \A a, b \in Tag :
      /\ access[a] # Nil /\ access[b] # Nil
      /\ access[a].refresh = access[b].refresh
      /\ access[a].refresh # Nil
      => a = b

\* Whenever a refresh token can be looked up, the access token its record
\* names is live and stored with the same record: no order of commands and
\* failures leaves a refresh entry that refers to a dead access token.
PairedRecords ==
  tagger = "random" =>
    \A t \in Tag : refresh[t] # Nil => access[refresh[t].access] = refresh[t]

\* An access token that a refresh replaced is never accepted again.
RetiredStaysDead ==
  tagger = "random" => \A t \in retired : RecoverToken(t) = Nil

\* The two assert! of refresh cannot fail.
AssertsHold ==
  \A s \in Server :
    /\ op[s].pc = "hdel" => op[s].token.refresh = op[s].key
    /\ op[s].pc = "hdel_access" => op[s].back = op[s].token.access

\* RefreshedToken.refresh: "If this is set, the old refresh token has been
\* invalidated."  refresh answers None, so the client keeps the token it has:
\* as long as nothing fails, a refresh token handed to a client stays usable
\* or is in use.
RefreshTokenSurvives ==
  tagger = "random" /\ ~faulty =>
    \A t \in disclosed : refresh[t] # Nil \/ \E s \in Server : Holds(s, t)

\* With the random generator, the commands of all instances together keep
\* the promise of trait Issuer, through every failure and crash.  (With the
\* other generator tokens repeat, so nothing is said of it here.)
Kept(hash) == IF tagger = "random" THEN hash ELSE [t \in Tag |-> Nil]
Promise == INSTANCE TokenStore WITH
  live <- Kept(access),
  renewable <- Kept(refresh),
  dead <- IF tagger = "random" THEN retired ELSE {}
ImplementsTokenStore == Promise!Spec
=============================================================================
