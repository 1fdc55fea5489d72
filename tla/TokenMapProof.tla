---------------------------- MODULE TokenMapProof ----------------------------
(***************************************************************************)
(* Proofs about TokenMap, for any number of instances, tokens and calls and  *)
(* every pattern of failures and crashes.                                    *)
(***************************************************************************)
EXTENDS TokenMap, TLAPS

----------------------------------------------------------------------------
(* The inductive invariant, in parts *)

\* pcs of an operation that carries a record
Carrying == Holding \cup {"hdel", "issue_set_usage", "set_usage"}

\* pcs of a refresh that still carries the record it read
Reading == {"hdel", "usage", "hget_access", "hdel_access"}

\* The access token that instance s has drawn and not stored yet.
Fresh(s, a) ==
  \/ op[s].pc \in {"issue_access", "hset_access"} /\ a = op[s].token.access
  \/ op[s].pc \in {"hget_access", "hdel_access"} /\ a = op[s].new

\* Records are stored under the tokens they name, for both generators.
KeysInv ==
  /\ \A t \in Tag : access[t] # Nil => access[t].access = t
  /\ \A t \in Tag : refresh[t] # Nil => refresh[t].refresh = t

\* Locals are there when they are used.
LocalsInv ==
  \A s \in Server :
    /\ op[s].pc # "idle" => op[s].grant \in Grant
    /\ op[s].pc \in Carrying => op[s].token \in Token /\ op[s].token.refresh \in Tag
    /\ op[s].pc \in {"hget"} \cup Reading => op[s].key \in Tag
    /\ op[s].pc \in Reading => op[s].token.refresh = op[s].key
    /\ op[s].pc \in {"hget_access", "hdel_access"} => op[s].new \in Tag
    /\ op[s].pc = "hdel_access" => op[s].back = op[s].token.access

\* Every token in use was drawn.
DrawnInv ==
  /\ \A t \in Tag : access[t] # Nil => t \in drawn
  /\ \A t \in Tag : access[t] # Nil /\ access[t].refresh # Nil => access[t].refresh \in drawn
  /\ \A t \in Tag : refresh[t] # Nil => t \in drawn /\ refresh[t].access \in drawn
  /\ \A s \in Server : op[s].pc \in Carrying =>
       op[s].token.access \in drawn /\ op[s].token.refresh \in drawn
  /\ \A s \in Server, a \in Tag : Fresh(s, a) => a \in drawn
  /\ retired \subseteq drawn

\* A drawn access token that is not stored yet is known to its drawer alone.
FreshInv ==
  \A s \in Server, a \in Tag :
    Fresh(s, a) =>
      /\ access[a] = Nil
      /\ a \notin retired
      /\ \A t \in Tag : refresh[t] # Nil => refresh[t].access # a
      /\ \A z \in Server : op[z].pc \in Reading => op[z].token.access # a
      /\ \A z \in Server : Fresh(z, a) => z = s

\* Locks: the holder of a refresh token is alone and its entry is absent.
LockInv ==
  \A s, z \in Server :
    op[s].pc \in Holding =>
      /\ refresh[op[s].token.refresh] = Nil
      /\ op[z].pc \in Holding /\ op[z].token.refresh = op[s].token.refresh => z = s

\* The access token a record names belongs to the record's refresh token.
FamilyInv ==
  \A s \in Server :
    op[s].pc \in Reading /\ access[op[s].token.access] # Nil =>
      access[op[s].token.access].refresh = op[s].token.refresh

\* Live access tokens of a refresh token: none before the new one is stored,
\* that one afterwards.
LiveInv ==
  /\ \A a, b \in Tag :
       /\ access[a] # Nil /\ access[b] # Nil
       /\ access[a].refresh = access[b].refresh
       /\ access[a].refresh # Nil
       => a = b
  /\ \A s \in Server, a \in Tag :
       op[s].pc \in {"issue_access", "hset_access"} /\ access[a] # Nil =>
         access[a].refresh # op[s].token.refresh
  /\ \A s \in Server :
       op[s].pc \in {"issue_refresh", "hset_refresh"} =>
         access[op[s].token.access] = op[s].token

PairInv == \A t \in Tag : refresh[t] # Nil => access[refresh[t].access] = refresh[t]

RetiredInv == \A t \in retired : access[t] = Nil

RandomInv ==
  tagger = "random" =>
    /\ DrawnInv
    /\ FreshInv
    /\ LockInv
    /\ FamilyInv
    /\ LiveInv
    /\ PairInv
    /\ RetiredInv

Inv == TypeOK /\ KeysInv /\ LocalsInv /\ RandomInv

----------------------------------------------------------------------------
(* Facts about the operators the map is built from *)

\* The counter arithmetic stays in the type (u64::wrapping_add).
LEMMA WrappingAddType ==
  ASSUME NEW u \in Usage, NEW n \in Nat
  PROVE  WrappingAdd(u, n) \in Usage
BY U64Assumption DEF WrappingAdd, Usage

\* What TagGrant::tag returns is a token string or an error.
LEMMA TagOfType ==
  ASSUME tagger \in Taggers, NEW d, NEW u \in Usage, NEW g \in Grant,
         NEW t \in TagOf(tagger, d, u, g), t # Nil
  PROVE  t \in Tag /\ (tagger = "random" => t \notin d)
BY SignAssumption, TaggersAssumption DEF TagOf

LEMMA IdleOp == Idle \in Op /\ Idle.pc = "idle"
BY U64Assumption DEF Idle, Op, Usage

LEMMA NoteFaultType ==
  ASSUME faulty \in BOOLEAN, NEW r, NoteFault(r)
  PROVE  faulty' \in BOOLEAN
BY DEF NoteFault

----------------------------------------------------------------------------
(* Initial state and steps that touch no entry *)

\* TokenMap::new starts with nothing stored and nothing running.
LEMMA InitInv == Init => Inv
<1> SUFFICES ASSUME Init PROVE Inv
  OBVIOUS
<1> USE DEF Init
<1>1. \A s \in Server : op[s] = Idle /\ op[s].pc = "idle"
  BY IdleOp
<1>2. TypeOK
  <2>1. op \in [Server -> Op]
    BY IdleOp
  <2>2. faulty \in BOOLEAN
    OBVIOUS
  <2> QED
    BY <2>1, <2>2 DEF TypeOK
<1>3. KeysInv /\ LocalsInv
  BY <1>1 DEF KeysInv, LocalsInv, Carrying, Reading, Holding
<1>4. DrawnInv /\ FreshInv /\ LockInv
  BY <1>1 DEF DrawnInv, FreshInv, LockInv, Fresh, Carrying, Reading, Holding
<1>5. FamilyInv /\ LiveInv /\ PairInv /\ RetiredInv
  BY <1>1 DEF FamilyInv, LiveInv, PairInv, RetiredInv, Reading
<1> QED
  BY <1>2, <1>3, <1>4, <1>5 DEF Inv, RandomInv

\* The instances other than s do not move.
Others(s) == \A z \in Server : z # s => op'[z] = op[z]

\* Starting or leaving an operation, with no change in redis, keeps the
\* invariant: the operation holds and knows nothing then.
LEMMA QuietInv ==
  ASSUME Inv, NEW s \in Server, Others(s),
         op' \in [Server -> Op],
         op'[s].pc \in {"idle", "issue_usage", "hget"},
         op'[s].pc # "idle" => op'[s].grant \in Grant,
         op'[s].pc = "hget" => op'[s].key \in Tag,
         faulty' \in BOOLEAN, calls' \in Nat, disclosed' \in SUBSET Tag,
         usage' \in Usage \cup {Nil},
         UNCHANGED <<tagger, access, refresh, drawn, retired>>
  PROVE  Inv'
<1> USE DEF Others
<1>1. TypeOK'
  BY DEF Inv, TypeOK
<1>2. KeysInv'
  BY DEF Inv, KeysInv
<1>3. LocalsInv'
  BY DEF Inv, LocalsInv, Carrying, Reading, Holding
<1>4. ASSUME tagger = "random"
      PROVE  (DrawnInv /\ FreshInv)'
  BY <1>4 DEF Inv, RandomInv, DrawnInv, FreshInv, Fresh, Carrying, Reading, Holding
<1>5. ASSUME tagger = "random"
      PROVE  (LockInv /\ FamilyInv)'
  BY <1>5 DEF Inv, RandomInv, LockInv, FamilyInv, Reading, Holding
<1>6. ASSUME tagger = "random"
      PROVE  (LiveInv /\ PairInv /\ RetiredInv)'
  BY <1>6 DEF Inv, RandomInv, LiveInv, PairInv, RetiredInv
<1> QED
  BY <1>1, <1>2, <1>3, <1>4, <1>5, <1>6 DEF Inv, RandomInv

\* Error returns and crashes.
LEMMA ReturnInv ==
  ASSUME Inv, NEW s \in Server, Return(s), faulty' \in BOOLEAN,
         UNCHANGED <<tagger, redis, drawn, disclosed, retired, calls>>
  PROVE  Inv'
<1>1. op' \in [Server -> Op] /\ op'[s].pc = "idle" /\ Others(s)
  BY IdleOp DEF Return, Inv, TypeOK, Others
<1> QED
  BY <1>1, QuietInv DEF Inv, TypeOK, redis

\* issue and refresh are called.
LEMMA BeginInv ==
  ASSUME Inv, NEW s \in Server, NEW pc \in {"issue_usage", "hget"}, NEW key \in Tag \cup {Nil},
         NEW g \in Grant, Begin(s, pc, key, g), pc = "hget" => key \in Tag
  PROVE  Inv'
<1>1. [pc |-> pc, key |-> key, grant |-> g, token |-> Nil,
       new |-> Nil, back |-> Nil, next |-> 0] \in Op
  BY U64Assumption DEF Op, Usage
<1>2. /\ op' \in [Server -> Op] /\ Others(s)
      /\ op'[s].pc = pc /\ op'[s].grant = g /\ op'[s].key = key
  BY <1>1 DEF Begin, Inv, TypeOK, Others
<1> QED
  BY <1>2, QuietInv DEF Begin, Inv, TypeOK, redis

\* The last command of issue and refresh writes the counter only.
LEMMA SetUsageInv ==
  ASSUME Inv, NEW s \in Server, NEW r \in Replies, SetUsage(s, r),
         disclosed' \in SUBSET Tag
  PROVE  Inv'
<1>1. op' \in [Server -> Op] /\ op'[s].pc = "idle" /\ Others(s)
  BY IdleOp DEF SetUsage, Return, Inv, TypeOK, Others
<1>2. usage' \in Usage \cup {Nil}
  BY DEF SetUsage, Inv, TypeOK, Op
<1>3. faulty' \in BOOLEAN
  BY NoteFaultType DEF SetUsage, Inv, TypeOK
<1> QED
  BY <1>1, <1>2, <1>3, QuietInv DEF SetUsage, Inv, TypeOK

\* revoke does not reach redis.
LEMMA RevokeInv ==
  ASSUME Inv, NEW t \in Tag, Revoke(t)
  PROVE  Inv'
BY DEF Revoke, redis, Inv, TypeOK, KeysInv, LocalsInv, RandomInv, DrawnInv, FreshInv,
   Fresh, LockInv, FamilyInv, LiveInv, PairInv, RetiredInv

----------------------------------------------------------------------------
(* Steps of refresh *)

\* HGET of the refresh token: the record read names a live access token of
\* the same family at that moment.
LEMMA RefreshHgetInv ==
  ASSUME Inv, NEW s \in Server, NEW r \in Replies, RefreshHget(s, r)
  PROVE  Inv'
<1> USE DEF Inv
<1>0. faulty' \in BOOLEAN
  BY DEF RefreshHget, TypeOK
<1>1. CASE Return(s)
  BY <1>0, <1>1, ReturnInv DEF RefreshHget
<1>2. CASE ~Return(s)
  <2> DEFINE t == op[s].key
  <2>1. /\ t \in Tag /\ refresh[t] # Nil /\ refresh[t] \in Token /\ refresh[t].refresh = t
        /\ op' = [op EXCEPT ![s].pc = "hdel", ![s].token = refresh[t]]
        /\ UNCHANGED <<tagger, usage, access, refresh, drawn, disclosed, retired, calls>>
    BY <1>2 DEF RefreshHget, TypeOK, LocalsInv, KeysInv, redis
  <2>2. /\ op' \in [Server -> Op] /\ Others(s) /\ op'[s].pc = "hdel"
        /\ op'[s].key = t /\ op'[s].token = refresh[t] /\ op'[s].grant = op[s].grant
    <3>1. op[s] \in Op
      BY DEF TypeOK
    <3>2. [op[s] EXCEPT !.pc = "hdel", !.token = refresh[t]] \in Op
      BY <2>1, <3>1 DEF Op
    <3> QED
      BY <2>1, <3>1, <3>2 DEF TypeOK, Op, Others
  <2>3. op[s].grant \in Grant
    BY DEF RefreshHget, LocalsInv
  <2> HIDE DEF t
  <2> USE <2>1, <2>2, <2>3 DEF Others
  <2>4. TypeOK'
    BY <1>0 DEF TypeOK
  <2>5. KeysInv'
    BY DEF KeysInv
  <2>6. LocalsInv'
    BY DEF LocalsInv, Carrying, Reading, Holding
  <2>7. ASSUME tagger = "random" PROVE DrawnInv'
    BY <2>7 DEF RandomInv, DrawnInv, Fresh, Carrying, Reading, Holding
  <2>8. ASSUME tagger = "random" PROVE FreshInv'
    BY <2>8 DEF RandomInv, FreshInv, Fresh, Reading
  <2>9. ASSUME tagger = "random" PROVE (LockInv /\ FamilyInv)'
    BY <2>9 DEF RandomInv, LockInv, FamilyInv, PairInv, Reading, Holding
  <2>10. ASSUME tagger = "random" PROVE (LiveInv /\ PairInv /\ RetiredInv)'
    BY <2>10 DEF RandomInv, LiveInv, PairInv, RetiredInv
  <2> QED
    BY <2>4, <2>5, <2>6, <2>7, <2>8, <2>9, <2>10 DEF RandomInv
<1> QED
  BY <1>1, <1>2

\* HDEL of the refresh token: whoever gets the answer 1 found the entry, so
\* no other instance holds the lock.
LEMMA RefreshHdelInv ==
  ASSUME Inv, NEW s \in Server, NEW r \in Replies, RefreshHdel(s, r)
  PROVE  Inv'
<1> USE DEF Inv
<1> DEFINE t == op[s].key
<1>1. /\ t \in Tag /\ op[s].pc = "hdel" /\ op[s].token.refresh = t /\ op[s].token \in Token
      /\ op[s].grant \in Grant
      /\ refresh' = refresh \/ refresh' = [refresh EXCEPT ![t] = Nil]
      /\ UNCHANGED <<tagger, usage, access, drawn, disclosed, retired, calls>>
  BY DEF RefreshHdel, TypeOK, LocalsInv, Reading, Carrying
<1>2. faulty' \in BOOLEAN
  BY NoteFaultType DEF RefreshHdel, TypeOK
<1>3. /\ op' \in [Server -> Op] /\ Others(s)
      /\ \/ op'[s].pc = "idle"
         \/ /\ op'[s].pc = "usage" /\ op'[s].key = t /\ op'[s].token = op[s].token
            /\ op'[s].grant = op[s].grant
            /\ refresh[t] # Nil /\ refresh'[t] = Nil
  <2>1. CASE Return(s)
    BY <2>1, IdleOp DEF Return, TypeOK, Others
  <2>2. CASE ~Return(s)
    <3>1. /\ refresh[t] # Nil /\ refresh' = [refresh EXCEPT ![t] = Nil]
          /\ op' = [op EXCEPT ![s].pc = "usage"]
      BY <2>2 DEF RefreshHdel, Applied
    <3>2. op[s] \in Op
      BY DEF TypeOK
    <3>3. [op[s] EXCEPT !.pc = "usage"] \in Op
      BY <3>2 DEF Op
    <3>4. refresh'[t] = Nil
      BY <1>1, <3>1 DEF TypeOK
    <3> QED
      BY <3>1, <3>2, <3>3, <3>4 DEF TypeOK, Op, Others
  <2> QED
    BY <2>1, <2>2
<1> HIDE DEF t
<1>4. /\ refresh' \in [Tag -> Token \cup {Nil}]
      /\ \A x \in Tag : refresh'[x] # Nil => refresh'[x] = refresh[x]
  BY <1>1 DEF TypeOK
<1> USE <1>1, <1>3, <1>4 DEF Others
<1>5. TypeOK'
  BY <1>2 DEF TypeOK
<1>6. KeysInv'
  BY DEF KeysInv
<1>7. LocalsInv'
  BY DEF LocalsInv, Carrying, Reading, Holding
<1>8. ASSUME tagger = "random" PROVE DrawnInv'
  BY <1>8 DEF RandomInv, DrawnInv, Fresh, Carrying, Reading, Holding
<1>9. ASSUME tagger = "random" PROVE FreshInv'
  BY <1>9 DEF RandomInv, FreshInv, Fresh, Reading
<1>10. ASSUME tagger = "random" PROVE LockInv'
  <2>1. \A z \in Server : op[z].pc \in Holding => op[z].token.refresh \in Tag
    BY DEF LocalsInv, Carrying
  <2> QED
    BY <1>10, <2>1 DEF RandomInv, LockInv, Holding, TypeOK
<1>11. ASSUME tagger = "random" PROVE (FamilyInv /\ LiveInv /\ PairInv /\ RetiredInv)'
  BY <1>11 DEF RandomInv, FamilyInv, LiveInv, PairInv, RetiredInv, Reading
<1> QED
  BY <1>5, <1>6, <1>7, <1>8, <1>9, <1>10, <1>11 DEF RandomInv

\* GET of the usage and the draw of the new access token.
LEMMA RefreshGetUsageInv ==
  ASSUME Inv, NEW s \in Server, NEW r \in Replies, RefreshGetUsage(s, r)
  PROVE  Inv'
<1> USE DEF Inv
<1>0. faulty' \in BOOLEAN
  BY NoteFaultType DEF RefreshGetUsage, TypeOK
<1>1. CASE Return(s) /\ UNCHANGED drawn
  BY <1>0, <1>1, ReturnInv DEF RefreshGetUsage
<1>2. CASE ~(Return(s) /\ UNCHANGED drawn)
  <2>1. /\ op[s].pc = "usage" /\ usage \in Usage
        /\ UNCHANGED <<tagger, usage, access, refresh, disclosed, retired, calls>>
    BY <1>2 DEF RefreshGetUsage, TypeOK, redis
  <2>2. PICK a \in TagOf(tagger, drawn, usage, op[s].grant) :
          /\ a # Nil /\ drawn' = drawn \cup {a}
          /\ op' = [op EXCEPT ![s].pc = "hget_access", ![s].new = a,
                              ![s].next = WrappingAdd(usage, 1)]
    BY <1>2 DEF RefreshGetUsage
  <2>3. /\ op[s].grant \in Grant /\ op[s].key \in Tag /\ op[s].token \in Token
        /\ op[s].token.refresh = op[s].key
    BY <2>1 DEF LocalsInv, Carrying, Reading, Holding
  <2>4. a \in Tag /\ (tagger = "random" => a \notin drawn)
    BY <2>1, <2>2, <2>3, TagOfType DEF TypeOK
  <2>5. WrappingAdd(usage, 1) \in Usage
    BY <2>1, WrappingAddType
  <2>6. /\ op' \in [Server -> Op] /\ Others(s) /\ op'[s].pc = "hget_access"
        /\ op'[s].key = op[s].key /\ op'[s].token = op[s].token
        /\ op'[s].grant = op[s].grant /\ op'[s].new = a
    <3>1. op[s] \in Op
      BY DEF TypeOK
    <3>2. [op[s] EXCEPT !.pc = "hget_access", !.new = a,
                        !.next = WrappingAdd(usage, 1)] \in Op
      BY <2>4, <2>5, <3>1 DEF Op
    <3> QED
      BY <2>2, <3>1, <3>2 DEF TypeOK, Op, Others
  <2> USE <2>1, <2>3, <2>4, <2>6 DEF Others
  <2>7. drawn' = drawn \cup {a}
    BY <2>2
  <2>8. TypeOK'
    BY <1>0, <2>7 DEF TypeOK
  <2>9. KeysInv'
    BY DEF KeysInv
  <2>10. LocalsInv'
    BY DEF LocalsInv, Carrying, Reading, Holding
  <2>11. ASSUME tagger = "random" PROVE DrawnInv'
    BY <2>7, <2>11 DEF RandomInv, DrawnInv, Fresh, Carrying, Reading, Holding
  <2>12. ASSUME tagger = "random" PROVE FreshInv'
    BY <2>7, <2>12 DEF RandomInv, FreshInv, DrawnInv, Fresh, Reading, Carrying, Holding
  <2>13. ASSUME tagger = "random" PROVE (LockInv /\ FamilyInv)'
    BY <2>13 DEF RandomInv, LockInv, FamilyInv, Reading, Holding
  <2>14. ASSUME tagger = "random" PROVE (LiveInv /\ PairInv /\ RetiredInv)'
    BY <2>14 DEF RandomInv, LiveInv, PairInv, RetiredInv
  <2> QED
    BY <2>8, <2>9, <2>10, <2>11, <2>12, <2>13, <2>14 DEF RandomInv
<1> QED
  BY <1>1, <1>2

\* HGET of the access token the record names.
LEMMA RefreshHgetAccessInv ==
  ASSUME Inv, NEW s \in Server, NEW r \in Replies, RefreshHgetAccess(s, r)
  PROVE  Inv'
<1> USE DEF Inv
<1>0. faulty' \in BOOLEAN
  BY NoteFaultType DEF RefreshHgetAccess, TypeOK
<1>1. CASE Return(s)
  BY <1>0, <1>1, ReturnInv DEF RefreshHgetAccess
<1>2. CASE ~Return(s)
  <2> DEFINE t == op[s].token.access
  <2>1. /\ op[s].pc = "hget_access"
        /\ access[t] # Nil
        /\ op' = [op EXCEPT ![s].pc = "hdel_access", ![s].back = access[t].access]
        /\ UNCHANGED <<tagger, usage, access, refresh, drawn, disclosed, retired, calls>>
    BY <1>2 DEF RefreshHgetAccess, redis
  <2>2. /\ op[s].grant \in Grant /\ op[s].key \in Tag /\ op[s].token \in Token
        /\ op[s].token.refresh = op[s].key /\ op[s].new \in Tag
    BY <2>1 DEF LocalsInv, Carrying, Reading, Holding
  <2>3. t \in Tag /\ access[t].access = t
    BY <2>1, <2>2 DEF Token, KeysInv
  <2>4. /\ op' \in [Server -> Op] /\ Others(s) /\ op'[s].pc = "hdel_access"
        /\ op'[s].key = op[s].key /\ op'[s].token = op[s].token
        /\ op'[s].grant = op[s].grant /\ op'[s].new = op[s].new /\ op'[s].back = t
    BY <2>1, <2>3 DEF TypeOK, Op, Others
  <2> USE <2>1, <2>2, <2>4 DEF Others
  <2>5. TypeOK'
    BY <1>0 DEF TypeOK
  <2>6. KeysInv'
    BY DEF KeysInv
  <2>7. LocalsInv'
    BY DEF LocalsInv, Carrying, Reading, Holding
  <2>8. ASSUME tagger = "random" PROVE DrawnInv'
    BY <2>8 DEF RandomInv, DrawnInv, Fresh, Carrying, Reading, Holding
  <2>9. ASSUME tagger = "random" PROVE FreshInv'
    BY <2>9 DEF RandomInv, FreshInv, Fresh, Reading
  <2>10. ASSUME tagger = "random" PROVE (LockInv /\ FamilyInv)'
    BY <2>10 DEF RandomInv, LockInv, FamilyInv, Reading, Holding
  <2>11. ASSUME tagger = "random" PROVE (LiveInv /\ PairInv /\ RetiredInv)'
    BY <2>11 DEF RandomInv, LiveInv, PairInv, RetiredInv
  <2> QED
    BY <2>5, <2>6, <2>7, <2>8, <2>9, <2>10, <2>11 DEF RandomInv
<1> QED
  BY <1>1, <1>2

\* HDEL of the old access token, by the holder of the lock: afterwards the
\* refresh token has no live access token at all.
LEMMA RefreshHdelAccessInv ==
  ASSUME Inv, NEW s \in Server, NEW r \in Replies, RefreshHdelAccess(s, r)
  PROVE  Inv'
<1> USE DEF Inv
<1> DEFINE t == op[s].token.access
           f == op[s].token.refresh
           n == op[s].new
<1>1. /\ op[s].pc = "hdel_access" /\ op[s].grant \in Grant /\ op[s].token \in Token
      /\ t \in Tag /\ f \in Tag /\ n \in Tag
      /\ UNCHANGED <<tagger, usage, refresh, drawn, disclosed, calls>>
  BY DEF RefreshHdelAccess, LocalsInv, Carrying, Reading, Holding, Token
<1>2. faulty' \in BOOLEAN
  BY NoteFaultType DEF RefreshHdelAccess, TypeOK
<1>3. /\ access' \in [Tag -> Token \cup {Nil}]
      /\ \A x \in Tag : access'[x] # Nil => access'[x] = access[x]
      /\ \A x \in Tag : x # t => access'[x] = access[x]
      /\ retired' = retired \/ (retired' = retired \cup {t} /\ access'[t] = Nil)
  BY <1>1 DEF RefreshHdelAccess, TypeOK
<1>4. /\ op' \in [Server -> Op] /\ Others(s)
      /\ \/ op'[s].pc = "idle"
         \/ /\ op'[s].pc = "hset_access" /\ op'[s].grant = op[s].grant
            /\ op'[s].token = [access |-> n, refresh |-> f, grant |-> op[s].grant]
            /\ access[t] # Nil /\ access'[t] = Nil
  <2>1. CASE Return(s)
    BY <2>1, IdleOp DEF Return, TypeOK, Others
  <2>2. CASE ~Return(s)
    <3> DEFINE tk == [access |-> n, refresh |-> f, grant |-> op[s].grant]
    <3>1. /\ access[t] # Nil /\ access' = [access EXCEPT ![t] = Nil]
          /\ op' = [op EXCEPT ![s].pc = "hset_access", ![s].token = tk]
      BY <2>2 DEF RefreshHdelAccess, Applied
    <3>2. op[s] \in Op
      BY DEF TypeOK
    <3>3. tk \in Token
      BY <1>1 DEF Token
    <3> HIDE DEF tk
    <3>4. [op[s] EXCEPT !.pc = "hset_access", !.token = tk] \in Op
      BY <3>2, <3>3 DEF Op
    <3>5. access'[t] = Nil
      BY <1>1, <3>1 DEF TypeOK
    <3>6. /\ op' \in [Server -> Op] /\ Others(s)
          /\ op'[s].pc = "hset_access" /\ op'[s].grant = op[s].grant /\ op'[s].token = tk
      BY <3>1, <3>2, <3>4 DEF TypeOK, Op, Others
    <3> QED
      BY <3>1, <3>5, <3>6 DEF tk
  <2> QED
    BY <2>1, <2>2
<1>5. [access |-> n, refresh |-> f, grant |-> op[s].grant] \in Token
  BY <1>1 DEF Token
<1>6. op'[s].pc = "hset_access" =>
        op'[s].token \in Token /\ op'[s].token.access = n /\ op'[s].token.refresh = f
  BY <1>4, <1>5
<1>7. TypeOK'
  BY <1>1, <1>2, <1>3, <1>4 DEF TypeOK
<1>8. KeysInv'
  BY <1>1, <1>3 DEF KeysInv
<1>9. LocalsInv'
  BY <1>1, <1>4, <1>6 DEF LocalsInv, Carrying, Reading, Holding, Others
<1>10. ASSUME tagger = "random" PROVE RandomInv'
  <2>1. DrawnInv /\ FreshInv /\ LockInv /\ FamilyInv /\ LiveInv /\ PairInv /\ RetiredInv
    BY <1>10 DEF RandomInv
  <2>2. /\ Fresh(s, n) /\ t \in drawn /\ f \in drawn /\ n \in drawn
        /\ \A z \in Server, a \in Tag : Fresh(z, a) => a # t
    BY <1>1, <2>1 DEF Fresh, DrawnInv, FreshInv, Carrying, Reading, Holding
  <2>3. /\ refresh[f] = Nil
        /\ \A z \in Server : op[z].pc \in Holding /\ op[z].token.refresh = f => z = s
    BY <1>1, <2>1 DEF LockInv, Holding
  <2>4. access[t] # Nil => access[t].refresh = f
    BY <1>1, <2>1 DEF FamilyInv, Reading
  <2>5. \A z \in Server, a \in Tag : Fresh(z, a)' => Fresh(z, a)
    BY <1>1, <1>4, <1>6 DEF Fresh, Others
  <2>6. \A z \in Server : /\ op'[z].pc \in Reading => op'[z] = op[z]
                          /\ op'[z].pc \in Holding => op[z].pc \in Holding
                          /\ op'[z].pc \in Holding => op'[z].token.refresh = op[z].token.refresh
    BY <1>1, <1>4, <1>6 DEF Reading, Holding, Others
  <2> HIDE DEF t, f, n
  <2>7. DrawnInv'
    BY <1>1, <1>3, <1>4, <1>6, <2>1, <2>2, <2>5 DEF DrawnInv, Carrying, Holding, Others
  <2>8. FreshInv'
    BY <1>1, <1>3, <2>1, <2>2, <2>5, <2>6 DEF FreshInv
  <2>9. LockInv'
    BY <1>1, <2>1, <2>6 DEF LockInv
  <2>10. FamilyInv'
    <3>1. \A z \in Server : op'[z].pc \in Reading => op'[z].token.access \in Tag
      BY <1>9 DEF LocalsInv, Carrying, Reading, Holding, Token
    <3> QED
      BY <1>3, <2>1, <2>6, <3>1 DEF FamilyInv
  <2>11. LiveInv'
    <3>1. \A a, b \in Tag :
            /\ access'[a] # Nil /\ access'[b] # Nil
            /\ access'[a].refresh = access'[b].refresh
            /\ access'[a].refresh # Nil
            => a = b
      BY <1>3, <2>1 DEF LiveInv
    <3>2. \A z \in Server, a \in Tag :
            op'[z].pc \in {"issue_access", "hset_access"} /\ access'[a] # Nil =>
              access'[a].refresh # op'[z].token.refresh
      <4> SUFFICES ASSUME NEW z \in Server, NEW a \in Tag,
                          op'[z].pc \in {"issue_access", "hset_access"}, access'[a] # Nil
                   PROVE  access'[a].refresh # op'[z].token.refresh
        OBVIOUS
      <4>1. CASE z # s
        BY <1>3, <1>4, <2>1, <4>1 DEF LiveInv, Others
      <4>2. CASE z = s
        <5>1. f # Nil
          BY <1>1, TagAssumption
        <5> QED
          BY <1>1, <1>3, <1>4, <1>6, <2>1, <2>4, <4>2, <5>1 DEF LiveInv
      <4> QED
        BY <4>1, <4>2
    <3>3. \A z \in Server :
            op'[z].pc \in {"issue_refresh", "hset_refresh"} =>
              access'[op'[z].token.access] = op'[z].token
      <4> SUFFICES ASSUME NEW z \in Server, op'[z].pc \in {"issue_refresh", "hset_refresh"}
                   PROVE  access'[op'[z].token.access] = op'[z].token
        OBVIOUS
      <4>1. z # s /\ op'[z] = op[z] /\ op[z].pc \in Holding
        BY <1>4 DEF Holding, Others
      <4>2. op[z].token \in Token /\ op[z].token.access \in Tag
        BY <4>1 DEF LocalsInv, Carrying, Token
      <4> QED
        BY <1>3, <2>1, <2>3, <2>4, <4>1, <4>2 DEF LiveInv
    <3> QED
      BY <3>1, <3>2, <3>3 DEF LiveInv
  <2>12. PairInv'
    BY <1>1, <1>3, <2>1, <2>3, <2>4 DEF PairInv, KeysInv, TypeOK, Token
  <2>13. RetiredInv'
    BY <1>1, <1>3, <2>1 DEF RetiredInv, TypeOK
  <2> QED
    BY <2>7, <2>8, <2>9, <2>10, <2>11, <2>12, <2>13 DEF RandomInv
<1> QED
  BY <1>1, <1>7, <1>8, <1>9, <1>10 DEF RandomInv

----------------------------------------------------------------------------
(* The writes, shared by issue and refresh *)

\* HSET of a drawn access token.  Nobody else knows it, and the refresh token
\* it belongs to is locked and has no live access token.
LEMMA HsetAccessInv ==
  ASSUME Inv, NEW s \in Server, NEW r \in Replies,
         op[s].pc \in {"issue_access", "hset_access"},
         NEW pc \in {"issue_refresh", "hset_refresh"}, HsetAccess(s, r, pc)
  PROVE  Inv'
<1> USE DEF Inv
<1> DEFINE t == op[s].token.access
           f == op[s].token.refresh
<1>1. /\ op[s].grant \in Grant /\ op[s].token \in Token /\ t \in Tag /\ f \in Tag
      /\ UNCHANGED <<tagger, usage, refresh, drawn, disclosed, retired, calls>>
  BY DEF HsetAccess, LocalsInv, Carrying, Reading, Holding, Token
<1>2. faulty' \in BOOLEAN
  BY NoteFaultType DEF HsetAccess, TypeOK
<1>3. /\ access' \in [Tag -> Token \cup {Nil}]
      /\ \A x \in Tag : x # t => access'[x] = access[x]
      /\ access'[t] = access[t] \/ access'[t] = op[s].token
  BY <1>1 DEF HsetAccess, TypeOK
<1>4. /\ op' \in [Server -> Op] /\ Others(s)
      /\ \/ op'[s].pc = "idle"
         \/ /\ op'[s].pc = pc /\ op'[s].grant = op[s].grant
            /\ op'[s].token = op[s].token /\ access'[t] = op[s].token
  <2>1. CASE Return(s)
    BY <2>1, IdleOp DEF Return, TypeOK, Others
  <2>2. CASE ~Return(s)
    <3>1. access' = [access EXCEPT ![t] = op[s].token] /\ op' = [op EXCEPT ![s].pc = pc]
      BY <2>2 DEF HsetAccess, Applied
    <3>2. op[s] \in Op
      BY DEF TypeOK
    <3>3. [op[s] EXCEPT !.pc = pc] \in Op
      BY <3>2 DEF Op
    <3>4. access'[t] = op[s].token
      BY <1>1, <3>1 DEF TypeOK
    <3> QED
      BY <3>1, <3>2, <3>3, <3>4 DEF TypeOK, Op, Others
  <2> QED
    BY <2>1, <2>2
<1>5. TypeOK'
  BY <1>1, <1>2, <1>3, <1>4 DEF TypeOK
<1>6. KeysInv'
  BY <1>1, <1>3 DEF KeysInv
<1>7. LocalsInv'
  BY <1>1, <1>4 DEF LocalsInv, Carrying, Reading, Holding, Others
<1>8. ASSUME tagger = "random" PROVE RandomInv'
  <2>1. DrawnInv /\ FreshInv /\ LockInv /\ FamilyInv /\ LiveInv /\ PairInv /\ RetiredInv
    BY <1>8 DEF RandomInv
  <2>2. /\ Fresh(s, t) /\ t \in drawn /\ f \in drawn
        /\ access[t] = Nil /\ t \notin retired
        /\ \A x \in Tag : refresh[x] # Nil => refresh[x].access # t
        /\ \A z \in Server : op[z].pc \in Reading => op[z].token.access # t
        /\ \A z \in Server : Fresh(z, t) => z = s
    BY <1>1, <2>1 DEF Fresh, DrawnInv, FreshInv, Carrying, Holding
  <2>3. \A z \in Server : op[z].pc \in Holding /\ op[z].token.refresh = f => z = s
    BY <2>1 DEF LockInv, Holding
  <2>4. \A x \in Tag : access[x] # Nil => access[x].refresh # f
    BY <2>1 DEF LiveInv
  <2>5. \A z \in Server, a \in Tag : Fresh(z, a)' => z # s /\ a # t /\ Fresh(z, a)
    BY <1>4, <2>2 DEF Fresh, Others
  <2>6. \A z \in Server : /\ op'[z].pc \in Reading => op'[z] = op[z]
                          /\ op'[z].pc \in Holding => op[z].pc \in Holding
                          /\ op'[z].pc \in Holding => op'[z].token = op[z].token
    BY <1>4 DEF Reading, Holding, Others
  <2>7. \A z \in Server : op'[z].pc \in Holding => op'[z].token \in Token /\ op'[z].token.access \in Tag
    BY <1>7 DEF LocalsInv, Carrying, Token
  <2>8. \A z \in Server : op'[z].pc \in Reading => op'[z].token.access \in Tag
    BY <1>7 DEF LocalsInv, Carrying, Reading, Holding, Token
  <2> HIDE DEF t
  <2>9. DrawnInv'
    BY <1>1, <1>3, <1>4, <2>1, <2>2, <2>5 DEF DrawnInv, Carrying, Holding, Others
  <2>10. FreshInv'
    BY <1>1, <1>3, <2>1, <2>5, <2>6 DEF FreshInv
  <2>11. LockInv'
    BY <1>1, <2>1, <2>6 DEF LockInv
  <2>12. FamilyInv'
    BY <1>3, <2>1, <2>2, <2>6, <2>8 DEF FamilyInv
  <2>13. LiveInv'
    <3>1. \A a, b \in Tag :
            /\ access'[a] # Nil /\ access'[b] # Nil
            /\ access'[a].refresh = access'[b].refresh
            /\ access'[a].refresh # Nil
            => a = b
      BY <1>3, <2>1, <2>2, <2>4 DEF LiveInv
    <3>2. \A z \in Server, a \in Tag :
            op'[z].pc \in {"issue_access", "hset_access"} /\ access'[a] # Nil =>
              access'[a].refresh # op'[z].token.refresh
      <4> SUFFICES ASSUME NEW z \in Server, NEW a \in Tag,
                          op'[z].pc \in {"issue_access", "hset_access"}, access'[a] # Nil
                   PROVE  access'[a].refresh # op'[z].token.refresh
        OBVIOUS
      <4>1. z # s /\ op'[z] = op[z]
        BY <1>4 DEF Others
      <4>2. op[z].token.refresh # f
        BY <2>3, <4>1 DEF Holding
      <4> QED
        BY <1>3, <2>1, <2>2, <4>1, <4>2 DEF LiveInv
    <3>3. \A z \in Server :
            op'[z].pc \in {"issue_refresh", "hset_refresh"} =>
              access'[op'[z].token.access] = op'[z].token
      <4> SUFFICES ASSUME NEW z \in Server, op'[z].pc \in {"issue_refresh", "hset_refresh"}
                   PROVE  access'[op'[z].token.access] = op'[z].token
        OBVIOUS
      <4>1. CASE z = s
        BY <1>4, <4>1 DEF t
      <4>2. CASE z # s
        <5>1. /\ op'[z] = op[z] /\ op[z].token.access \in Tag
              /\ access[op[z].token.access] = op[z].token
              /\ op[z].token.refresh # f
          BY <1>4, <2>1, <2>3, <2>7, <4>2 DEF Others, Holding, LiveInv
        <5>2. CASE op[z].token.access # t
          BY <1>3, <5>1, <5>2
        <5>3. CASE op[z].token.access = t
          <6>1. op[z].token = Nil
            BY <2>2, <5>1, <5>3
          <6>2. op[z].token # Nil
            BY <2>7, <4>2, <5>1, NilAssumption DEF Holding, Token
          <6> QED
            BY <6>1, <6>2
        <5> QED
          BY <5>2, <5>3
      <4> QED
        BY <4>1, <4>2
    <3> QED
      BY <3>1, <3>2, <3>3 DEF LiveInv
  <2>14. PairInv'
    BY <1>1, <1>3, <2>1, <2>2 DEF PairInv, TypeOK, Token
  <2>15. RetiredInv'
    BY <1>1, <1>3, <2>1, <2>2 DEF RetiredInv, TypeOK
  <2> QED
    BY <2>9, <2>10, <2>11, <2>12, <2>13, <2>14, <2>15 DEF RandomInv
<1> QED
  BY <1>1, <1>5, <1>6, <1>7, <1>8 DEF RandomInv

\* HSET of the refresh token, by the holder of its lock, once the access
\* token is stored with the same record.
LEMMA HsetRefreshInv ==
  ASSUME Inv, NEW s \in Server, NEW r \in Replies,
         op[s].pc \in {"issue_refresh", "hset_refresh"},
         NEW pc \in {"issue_set_usage", "set_usage"}, HsetRefresh(s, r, pc)
  PROVE  Inv'
<1> USE DEF Inv
<1> DEFINE f == op[s].token.refresh
<1>1. /\ op[s].grant \in Grant /\ op[s].token \in Token /\ op[s].token # Nil
      /\ op[s].token.access \in Tag /\ f \in Tag
      /\ UNCHANGED <<tagger, usage, access, drawn, disclosed, retired, calls>>
  BY NilAssumption DEF HsetRefresh, LocalsInv, Carrying, Reading, Holding, Token
<1>2. faulty' \in BOOLEAN
  BY NoteFaultType DEF HsetRefresh, TypeOK
<1>3. /\ refresh' \in [Tag -> Token \cup {Nil}]
      /\ \A x \in Tag : x # f => refresh'[x] = refresh[x]
      /\ refresh'[f] = refresh[f] \/ refresh'[f] = op[s].token
  BY <1>1 DEF HsetRefresh, TypeOK
<1>4. /\ op' \in [Server -> Op] /\ Others(s)
      /\ \/ op'[s].pc = "idle"
         \/ op'[s].pc = pc /\ op'[s].grant = op[s].grant /\ op'[s].token = op[s].token
  <2>1. CASE Return(s)
    BY <2>1, IdleOp DEF Return, TypeOK, Others
  <2>2. CASE ~Return(s)
    <3>1. op' = [op EXCEPT ![s].pc = pc]
      BY <2>2 DEF HsetRefresh
    <3>2. op[s] \in Op
      BY DEF TypeOK
    <3>3. [op[s] EXCEPT !.pc = pc] \in Op
      BY <3>2 DEF Op
    <3> QED
      BY <3>1, <3>2, <3>3 DEF TypeOK, Op, Others
  <2> QED
    BY <2>1, <2>2
<1>5. TypeOK'
  BY <1>1, <1>2, <1>3, <1>4 DEF TypeOK
<1>6. KeysInv'
  BY <1>1, <1>3 DEF KeysInv
<1>7. LocalsInv'
  BY <1>1, <1>4 DEF LocalsInv, Carrying, Reading, Holding, Others
<1>8. ASSUME tagger = "random" PROVE RandomInv'
  <2>1. DrawnInv /\ FreshInv /\ LockInv /\ FamilyInv /\ LiveInv /\ PairInv /\ RetiredInv
    BY <1>8 DEF RandomInv
  <2>2. /\ access[op[s].token.access] = op[s].token
        /\ op[s].token.access \in drawn /\ f \in drawn
    BY <2>1 DEF LiveInv, DrawnInv, Carrying, Holding
  <2>3. \A z \in Server : op[z].pc \in Holding /\ op[z].token.refresh = f => z = s
    BY <2>1 DEF LockInv, Holding
  <2>4. \A z \in Server, a \in Tag : Fresh(z, a)' => Fresh(z, a) /\ a # op[s].token.access
    BY <1>1, <1>4, <2>1, <2>2 DEF Fresh, FreshInv, Others
  <2>5. \A z \in Server : /\ op'[z].pc \in Reading => op'[z] = op[z]
                          /\ op'[z].pc \in Holding => op'[z] = op[z] /\ z # s
    BY <1>4 DEF Reading, Holding, Others
  <2>6. DrawnInv'
    BY <1>1, <1>3, <1>4, <2>1, <2>2, <2>4 DEF DrawnInv, Carrying, Holding, Others
  <2>7. FreshInv'
    BY <1>1, <1>3, <2>1, <2>4, <2>5 DEF FreshInv
  <2>8. LockInv'
    <3>1. \A z \in Server : op'[z].pc \in Holding => op'[z].token.refresh \in Tag
      BY <1>7 DEF LocalsInv, Carrying
    <3> QED
      BY <1>1, <1>3, <2>1, <2>3, <2>5, <3>1 DEF LockInv
  <2>9. FamilyInv'
    BY <1>1, <2>1, <2>5 DEF FamilyInv
  <2>10. LiveInv'
    BY <1>1, <1>4, <2>1 DEF LiveInv, Others
  <2>11. PairInv'
    BY <1>1, <1>3, <2>1, <2>2 DEF PairInv
  <2>12. RetiredInv'
    BY <1>1, <2>1 DEF RetiredInv
  <2> QED
    BY <2>6, <2>7, <2>8, <2>9, <2>10, <2>11, <2>12 DEF RandomInv
<1> QED
  BY <1>1, <1>5, <1>6, <1>7, <1>8 DEF RandomInv

----------------------------------------------------------------------------
(* issue and import_grant *)

\* issue draws two tags that nothing refers to yet.
LEMMA IssueGetUsageInv ==
  ASSUME Inv, NEW s \in Server, NEW r \in Replies, IssueGetUsage(s, r)
  PROVE  Inv'
<1> USE DEF Inv
<1>0. faulty' \in BOOLEAN
  BY NoteFaultType DEF IssueGetUsage, TypeOK
<1>1. CASE Return(s) /\ UNCHANGED drawn
  BY <1>0, <1>1, ReturnInv DEF IssueGetUsage
<1>2. CASE ~(Return(s) /\ UNCHANGED drawn)
  <2> DEFINE u == IF r = "ok" /\ usage # Nil THEN usage ELSE 0
             g == op[s].grant
  <2>1. /\ u \in Usage /\ g \in Grant
        /\ UNCHANGED <<tagger, usage, access, refresh, disclosed, retired, calls>>
    BY U64Assumption DEF IssueGetUsage, TypeOK, LocalsInv, Usage, redis
  <2>a. PICK a \in TagOf(tagger, drawn, u, g) :
          \E b \in TagOf(tagger, drawn \cup {a}, WrappingAdd(u, 1), g) :
            /\ a # Nil /\ b # Nil /\ drawn' = drawn \cup {a, b}
            /\ op' = [op EXCEPT ![s].pc = "issue_access",
                                ![s].token = [access |-> a, refresh |-> b, grant |-> g],
                                ![s].next = WrappingAdd(u, 2)]
    BY <1>2 DEF IssueGetUsage
  <2>2. PICK b \in TagOf(tagger, drawn \cup {a}, WrappingAdd(u, 1), g) :
          /\ a # Nil /\ b # Nil /\ drawn' = drawn \cup {a, b}
          /\ op' = [op EXCEPT ![s].pc = "issue_access",
                              ![s].token = [access |-> a, refresh |-> b, grant |-> g],
                              ![s].next = WrappingAdd(u, 2)]
    BY <2>a
  <2> HIDE DEF u, g
  <2>3. WrappingAdd(u, 1) \in Usage /\ WrappingAdd(u, 2) \in Usage
    BY <2>1, WrappingAddType
  <2>4. a \in Tag /\ (tagger = "random" => a \notin drawn)
    BY <2>1, <2>2, TagOfType DEF TypeOK
  <2>5. b \in Tag /\ (tagger = "random" => b \notin drawn \cup {a})
    BY <2>1, <2>2, <2>3, TagOfType DEF TypeOK
  <2> DEFINE tk == [access |-> a, refresh |-> b, grant |-> g]
  <2>6. tk \in Token /\ tk.access = a /\ tk.refresh = b
    BY <2>1, <2>4, <2>5 DEF Token
  <2> HIDE DEF tk
  <2>7. /\ op' \in [Server -> Op] /\ Others(s) /\ op'[s].pc = "issue_access"
        /\ op'[s].token = tk /\ op'[s].grant = g
    <3>1. op[s] \in Op
      BY DEF TypeOK
    <3>2. [op[s] EXCEPT !.pc = "issue_access", !.token = tk, !.next = WrappingAdd(u, 2)] \in Op
      BY <2>3, <2>6, <3>1 DEF Op
    <3>3. op' = [op EXCEPT ![s] = [op[s] EXCEPT !.pc = "issue_access", !.token = tk,
                                                !.next = WrappingAdd(u, 2)]]
      BY <2>2 DEF tk
    <3> QED
      BY <3>1, <3>2, <3>3 DEF TypeOK, Op, Others, g
  <2>8. drawn' = drawn \cup {a, b}
    BY <2>2
  <2>9. TypeOK'
    BY <1>0, <2>1, <2>4, <2>5, <2>7, <2>8 DEF TypeOK
  <2>10. KeysInv'
    BY <2>1 DEF KeysInv
  <2>11. LocalsInv'
    BY <2>1, <2>5, <2>6, <2>7 DEF LocalsInv, Carrying, Reading, Holding, Others
  <2>12. ASSUME tagger = "random" PROVE RandomInv'
    <3>1. DrawnInv /\ FreshInv /\ LockInv /\ FamilyInv /\ LiveInv /\ PairInv /\ RetiredInv
      BY <2>12 DEF RandomInv
    <3>2. a \notin drawn /\ b \notin drawn /\ a # b /\ b # Nil /\ a # Nil
      BY <2>2, <2>4, <2>5, <2>12
    <3>3. \A z \in Server, x \in Tag : Fresh(z, x)' => (z = s /\ x = a) \/ (z # s /\ Fresh(z, x))
      BY <2>6, <2>7 DEF Fresh, Others
    <3>4. \A z \in Server : op'[z].pc \in Reading => op'[z] = op[z]
      BY <2>7 DEF Reading, Others
    <3>5. DrawnInv'
      BY <2>1, <2>4, <2>5, <2>6, <2>7, <2>8, <3>1, <3>3 DEF DrawnInv, Carrying, Holding, Others
    <3>6. FreshInv'
      BY <2>1, <2>4, <3>1, <3>2, <3>3, <3>4 DEF FreshInv, DrawnInv, Carrying, Reading, Holding
    <3>7. LockInv'
      BY <2>1, <2>5, <2>6, <2>7, <3>1, <3>2 DEF LockInv, DrawnInv, Carrying, Holding, Others
    <3>8. FamilyInv'
      BY <2>1, <3>1, <3>4 DEF FamilyInv
    <3>9. LiveInv'
      BY <2>1, <2>6, <2>7, <3>1, <3>2 DEF LiveInv, DrawnInv, Others
    <3>10. PairInv' /\ RetiredInv'
      BY <2>1, <3>1 DEF PairInv, RetiredInv
    <3> QED
      BY <3>5, <3>6, <3>7, <3>8, <3>9, <3>10 DEF RandomInv
  <2> QED
    BY <2>1, <2>9, <2>10, <2>11, <2>12 DEF RandomInv
<1> QED
  BY <1>1, <1>2

\* An imported token is new and belongs to no refresh token.
LEMMA ImportGrantInv ==
  ASSUME Inv, NEW t \in Tag, NEW g \in Grant, NEW r \in Replies, ImportGrant(t, g, r)
  PROVE  Inv'
<1> USE DEF Inv
<1> DEFINE tk == [access |-> t, refresh |-> Nil, grant |-> g]
<1>1. tk \in Token /\ tk.access = t /\ tk.refresh = Nil
  BY DEF Token
<1> HIDE DEF tk
<1>2. /\ t \notin drawn /\ drawn' = drawn \cup {t} /\ calls' = calls + 1
      /\ access' = access \/ access' = [access EXCEPT ![t] = tk]
      /\ UNCHANGED <<tagger, usage, refresh, op, disclosed, retired>>
  BY DEF ImportGrant, tk
<1>3. faulty' \in BOOLEAN
  BY NoteFaultType DEF ImportGrant, TypeOK
<1>4. /\ access' \in [Tag -> Token \cup {Nil}]
      /\ \A x \in Tag : x # t => access'[x] = access[x]
      /\ access'[t] = access[t] \/ access'[t] = tk
  BY <1>1, <1>2 DEF TypeOK
<1>5. TypeOK'
  BY <1>2, <1>3, <1>4 DEF TypeOK
<1>6. KeysInv' /\ LocalsInv'
  BY <1>1, <1>2, <1>4 DEF KeysInv, LocalsInv
<1>7. ASSUME tagger = "random" PROVE RandomInv'
  <2>1. DrawnInv /\ FreshInv /\ LockInv /\ FamilyInv /\ LiveInv /\ PairInv /\ RetiredInv
    BY <1>7 DEF RandomInv
  <2>2. access[t] = Nil /\ t \notin retired
    BY <1>2, <2>1 DEF DrawnInv
  <2>3. \A z \in Server : op[z].pc \in Carrying =>
          op[z].token.access \in Tag \ {t} /\ op[z].token.refresh # Nil /\ op[z].token # Nil
    BY <1>2, <2>1, TagAssumption, NilAssumption DEF DrawnInv, LocalsInv, Token
  <2>4. DrawnInv'
    BY <1>1, <1>2, <1>4, <2>1 DEF DrawnInv, Fresh
  <2>5. FreshInv'
    BY <1>2, <1>4, <2>1 DEF FreshInv, DrawnInv, Fresh
  <2>6. LockInv'
    BY <1>2, <2>1 DEF LockInv
  <2>7. FamilyInv'
    BY <1>2, <1>4, <2>1, <2>3 DEF FamilyInv, Carrying, Reading, Holding
  <2>8. LiveInv'
    BY <1>1, <1>2, <1>4, <2>1, <2>2, <2>3 DEF LiveInv, Carrying, Holding
  <2>9. PairInv'
    BY <1>2, <1>4, <2>1 DEF PairInv, DrawnInv, TypeOK, Token
  <2>10. RetiredInv'
    BY <1>2, <1>4, <2>1, <2>2 DEF RetiredInv, TypeOK
  <2> QED
    BY <2>4, <2>5, <2>6, <2>7, <2>8, <2>9, <2>10 DEF RandomInv
<1> QED
  BY <1>2, <1>5, <1>6, <1>7 DEF RandomInv

----------------------------------------------------------------------------
(* The whole next-state relation *)

\* One redis command of a running operation.
LEMMA StepInv ==
  ASSUME Inv, NEW s \in Server, NEW r \in Replies, Step(s, r)
  PROVE  Inv'
<1>1. CASE IssueGetUsage(s, r)
  BY <1>1, IssueGetUsageInv
<1>2. CASE IssueHsetAccess(s, r)
  BY <1>2, HsetAccessInv DEF IssueHsetAccess
<1>3. CASE IssueHsetRefresh(s, r)
  BY <1>3, HsetRefreshInv DEF IssueHsetRefresh
<1>4. CASE IssueSetUsage(s, r)
  <2>1. op[s].token.refresh \in Tag
    BY <1>4 DEF IssueSetUsage, Inv, LocalsInv, Carrying
  <2>2. disclosed' \in SUBSET Tag
    BY <1>4, <2>1 DEF IssueSetUsage, Inv, TypeOK
  <2> QED
    BY <1>4, <2>2, SetUsageInv DEF IssueSetUsage
<1>5. CASE RefreshHget(s, r)
  BY <1>5, RefreshHgetInv
<1>6. CASE RefreshHdel(s, r)
  BY <1>6, RefreshHdelInv
<1>7. CASE RefreshGetUsage(s, r)
  BY <1>7, RefreshGetUsageInv
<1>8. CASE RefreshHgetAccess(s, r)
  BY <1>8, RefreshHgetAccessInv
<1>9. CASE RefreshHdelAccess(s, r)
  BY <1>9, RefreshHdelAccessInv
<1>10. CASE RefreshHsetAccess(s, r)
  BY <1>10, HsetAccessInv DEF RefreshHsetAccess
<1>11. CASE RefreshHsetRefresh(s, r)
  BY <1>11, HsetRefreshInv DEF RefreshHsetRefresh
<1>12. CASE RefreshSetUsage(s, r)
  BY <1>12, SetUsageInv DEF RefreshSetUsage, Inv, TypeOK
<1> QED
  BY <1>1, <1>2, <1>3, <1>4, <1>5, <1>6, <1>7, <1>8, <1>9, <1>10, <1>11, <1>12 DEF Step

\* Every step of the specification keeps the invariant.
LEMMA NextInv == Inv /\ [Next]_vars => Inv'
<1> SUFFICES ASSUME Inv, [Next]_vars PROVE Inv'
  OBVIOUS
<1>1. ASSUME NEW s \in Server, NEW g \in Grant, IssueBegin(s, g) PROVE Inv'
  BY <1>1, BeginInv DEF IssueBegin
<1>2. ASSUME NEW s \in Server, NEW t \in Tag, NEW g \in Grant, RefreshBegin(s, t, g) PROVE Inv'
  BY <1>2, BeginInv DEF RefreshBegin
<1>3. ASSUME NEW s \in Server, NEW r \in Replies, Step(s, r) PROVE Inv'
  BY <1>3, StepInv
<1>4. ASSUME NEW t \in Tag, NEW g \in Grant, NEW r \in Replies, ImportGrant(t, g, r) PROVE Inv'
  BY <1>4, ImportGrantInv
<1>5. ASSUME NEW t \in Tag, Revoke(t) PROVE Inv'
  BY <1>5, RevokeInv
<1>6. ASSUME NEW s \in Server, Crash(s) PROVE Inv'
  BY <1>6, ReturnInv DEF Crash
<1>7. CASE UNCHANGED vars
  BY <1>7 DEF vars, redis, Inv, TypeOK, KeysInv, LocalsInv, RandomInv, DrawnInv, FreshInv,
     Fresh, LockInv, FamilyInv, LiveInv, PairInv, RetiredInv
<1> QED
  BY <1>1, <1>2, <1>3, <1>4, <1>5, <1>6, <1>7 DEF Next

LEMMA Invariance == Spec => []Inv
BY InitInv, NextInv, PTL DEF Spec

----------------------------------------------------------------------------
(* Theorems *)

\* TokenMap's state stays in its type: in particular the usage counter wraps
\* within its width and every stored record is a complete Token.
THEOREM TokensTyped == Spec => []TypeOK
<1>1. Inv => TypeOK
  BY DEF Inv
<1> QED
  BY <1>1, Invariance, PTL

\* refresh: the HDEL answering 1 is a lock on the refresh token, however many
\* instances run refresh at once and wherever they fail.
THEOREM RefreshIsExclusive == Spec => []RefreshEntryIsLock
<1>1. Inv => RefreshEntryIsLock
  BY DEF Inv, RandomInv, LockInv, RefreshEntryIsLock, Holds
<1> QED
  BY <1>1, Invariance, PTL

\* refresh: one refresh token never has two live access tokens.
THEOREM AccessIsUnique == Spec => []OneLiveAccess
<1>1. Inv => OneLiveAccess
  BY DEF Inv, RandomInv, LiveInv, OneLiveAccess
<1> QED
  BY <1>1, Invariance, PTL

\* issue and refresh: the refresh entry is written after the access entry and
\* removed before it, so the two never disagree.
THEOREM RecordsArePaired == Spec => []PairedRecords
<1>1. Inv => PairedRecords
  BY DEF Inv, RandomInv, PairInv, PairedRecords
<1> QED
  BY <1>1, Invariance, PTL

\* refresh: a replaced access token is never accepted again by recover_token.
THEOREM RetiredIsForever == Spec => []RetiredStaysDead
<1>1. Inv => RetiredStaysDead
  BY DEF Inv, RandomInv, RetiredInv, RetiredStaysDead, RecoverToken
<1> QED
  BY <1>1, Invariance, PTL

\* refresh: its two assert! never panic, whatever a client presents and
\* whatever other instances do in between.
THEOREM AssertsNeverFail == Spec => []AssertsHold
<1>1. Inv => AssertsHold
  BY DEF Inv, LocalsInv, AssertsHold, Reading
<1> QED
  BY <1>1, Invariance, PTL

----------------------------------------------------------------------------
(* TokenMap keeps the promise of trait Issuer *)

\* With the random generator the refinement mapping is the two hashes.
LEMMA KeptHashes ==
  ASSUME tagger = "random", tagger' = tagger
  PROVE  /\ Kept(access) = access /\ Kept(access)' = access'
         /\ Kept(refresh) = refresh /\ Kept(refresh)' = refresh'
BY DEF Kept

\* HSET of an access token that its drawer alone knows adds a token whose
\* refresh token is not served by another one.
LEMMA HsetAccessAdds ==
  ASSUME Inv, tagger = "random", NEW s \in Server, NEW r \in Replies, NEW pc,
         op[s].pc \in {"issue_access", "hset_access"}, HsetAccess(s, r, pc)
  PROVE  Promise!Next \/ UNCHANGED <<access, refresh, retired>>
<1> DEFINE tk == op[s].token
<1>1. /\ tk \in Token /\ tk.access \in Tag /\ tk.refresh \in Tag /\ tk.grant \in Grant
      /\ tk = [access |-> tk.access, refresh |-> tk.refresh, grant |-> tk.grant]
  BY DEF Inv, LocalsInv, Carrying, Holding, Token
<1>2. /\ access[tk.access] = Nil /\ tk.access \notin retired
      /\ refresh[tk.refresh] = Nil
      /\ \A t \in Tag : access[t] # Nil => access[t].refresh # tk.refresh
  BY <1>1 DEF Inv, RandomInv, FreshInv, Fresh, LockInv, LiveInv, Holding
<1>3. UNCHANGED <<tagger, refresh, retired>>
  BY DEF HsetAccess
<1>4. CASE ~Applied(r)
  BY <1>3, <1>4 DEF HsetAccess
<1>5. CASE Applied(r)
  <2>1. access' = [access EXCEPT ![tk.access] = tk]
    BY <1>5 DEF HsetAccess
  <2>2. access'[tk.access] = tk /\ tk # Nil
    BY <1>1, <2>1, NilAssumption DEF Inv, TypeOK
  <2>3. access' # access
    BY <1>2, <2>2
  <2> HIDE DEF tk
  <2>4. Promise!Add(tk.access, tk.refresh, tk.grant)
    BY <1>1, <1>2, <1>3, <2>1, KeptHashes DEF Promise!Add, Promise!Unserved
  <2>5. Promise!vars' # Promise!vars
    BY <1>3, <2>3, KeptHashes DEF Promise!vars
  <2> QED
    BY <1>1, <2>4, <2>5 DEF Promise!Next
<1> QED
  BY <1>4, <1>5

\* HSET of a refresh token offers it together with its stored access token.
LEMMA HsetRefreshOffers ==
  ASSUME Inv, tagger = "random", NEW s \in Server, NEW r \in Replies, NEW pc,
         op[s].pc \in {"issue_refresh", "hset_refresh"}, HsetRefresh(s, r, pc)
  PROVE  Promise!Next \/ UNCHANGED <<access, refresh, retired>>
<1> DEFINE tk == op[s].token
<1>1. tk \in Token /\ tk.access \in Tag /\ tk.refresh \in Tag /\ tk # Nil
  BY NilAssumption DEF Inv, LocalsInv, Carrying, Holding, Token
<1>2. refresh[tk.refresh] = Nil /\ access[tk.access] = tk
  BY <1>1 DEF Inv, RandomInv, LockInv, LiveInv, Holding
<1>3. UNCHANGED <<tagger, access, retired>>
  BY DEF HsetRefresh
<1>4. CASE ~Applied(r)
  BY <1>3, <1>4 DEF HsetRefresh
<1>5. CASE Applied(r)
  <2>1. refresh' = [refresh EXCEPT ![tk.refresh] = tk]
    BY <1>5 DEF HsetRefresh
  <2>2. refresh'[tk.refresh] = tk
    BY <1>1, <2>1 DEF Inv, TypeOK
  <2>3. refresh' # refresh
    BY <1>1, <1>2, <2>2
  <2> HIDE DEF tk
  <2>4. Promise!Offer(tk.refresh, tk.access)
    BY <1>1, <1>2, <1>3, <2>1, KeptHashes DEF Promise!Offer
  <2>5. Promise!vars' # Promise!vars
    BY <1>3, <2>3, KeptHashes DEF Promise!vars
  <2> QED
    BY <1>1, <2>4, <2>5 DEF Promise!Next
<1> QED
  BY <1>4, <1>5

\* HDEL in refresh takes the token out, even if its answer is lost.
LEMMA RefreshHdelTakes ==
  ASSUME Inv, tagger = "random", NEW s \in Server, NEW r \in Replies, RefreshHdel(s, r)
  PROVE  Promise!Next \/ UNCHANGED <<access, refresh, retired>>
<1> DEFINE f == op[s].key
<1>1. f \in Tag /\ UNCHANGED <<tagger, access, retired>>
  BY DEF RefreshHdel, Inv, LocalsInv, Reading
<1>2. CASE ~Applied(r) \/ refresh[f] = Nil
  BY <1>1, <1>2 DEF RefreshHdel, Inv, TypeOK
<1>3. CASE Applied(r) /\ refresh[f] # Nil
  <2>1. refresh' = [refresh EXCEPT ![f] = Nil]
    BY <1>3 DEF RefreshHdel
  <2>2. refresh' # refresh
    BY <1>1, <1>3, <2>1 DEF Inv, TypeOK
  <2> HIDE DEF f
  <2>3. Promise!Take(f)
    BY <1>1, <1>3, <2>1, KeptHashes DEF Promise!Take
  <2>4. Promise!vars' # Promise!vars
    BY <1>1, <2>2, KeptHashes DEF Promise!vars
  <2> QED
    BY <1>1, <2>3, <2>4 DEF Promise!Next
<1> QED
  BY <1>2, <1>3

\* The HDEL of the old access token comes while its refresh token is out:
\* the instance holds the lock.
LEMMA RefreshHdelAccessRetires ==
  ASSUME Inv, tagger = "random", NEW s \in Server, NEW r \in Replies, RefreshHdelAccess(s, r)
  PROVE  Promise!Next \/ UNCHANGED <<access, refresh, retired>>
<1> DEFINE t == op[s].token.access
           f == op[s].token.refresh
<1>1. op[s].token \in Token /\ t \in Tag /\ f \in Tag /\ f # Nil
  BY TagAssumption DEF RefreshHdelAccess, Inv, LocalsInv, Carrying, Holding, Token
<1>2. refresh[f] = Nil /\ (access[t] # Nil => access[t].refresh = f)
  BY DEF RefreshHdelAccess, Inv, RandomInv, LockInv, FamilyInv, Reading, Holding
<1>3. UNCHANGED <<tagger, refresh>>
  BY DEF RefreshHdelAccess
<1>4. CASE ~Applied(r) \/ access[t] = Nil
  BY <1>1, <1>3, <1>4 DEF RefreshHdelAccess, Inv, TypeOK
<1>5. CASE Applied(r) /\ access[t] # Nil
  <2>1. access' = [access EXCEPT ![t] = Nil] /\ retired' = retired \cup {t}
    BY <1>5 DEF RefreshHdelAccess
  <2>2. access' # access
    BY <1>1, <1>5, <2>1 DEF Inv, TypeOK
  <2> HIDE DEF t, f
  <2>3. Promise!Retire(t)
    BY <1>1, <1>2, <1>3, <1>5, <2>1, KeptHashes DEF Promise!Retire
  <2>4. Promise!vars' # Promise!vars
    BY <1>3, <2>2, KeptHashes DEF Promise!vars
  <2> QED
    BY <1>1, <2>3, <2>4 DEF Promise!Next
<1> QED
  BY <1>4, <1>5

\* import_grant adds a token without a refresh token.
LEMMA ImportGrantAdds ==
  ASSUME Inv, tagger = "random", NEW t \in Tag, NEW g \in Grant, NEW r \in Replies,
         ImportGrant(t, g, r)
  PROVE  Promise!Next \/ UNCHANGED <<access, refresh, retired>>
<1> DEFINE tk == [access |-> t, refresh |-> Nil, grant |-> g]
<1>1. UNCHANGED <<tagger, refresh, retired>> /\ tk # Nil
  BY NilAssumption DEF ImportGrant, Token
<1>2. access[t] = Nil /\ t \notin retired
  BY DEF ImportGrant, Inv, RandomInv, DrawnInv
<1>3. CASE ~Applied(r)
  BY <1>1, <1>3 DEF ImportGrant
<1>4. CASE Applied(r)
  <2>1. access' = [access EXCEPT ![t] = tk]
    BY <1>4 DEF ImportGrant
  <2>2. Promise!Add(t, Nil, g)
    BY <1>1, <1>2, <2>1, KeptHashes DEF Promise!Add
  <2> HIDE DEF tk
  <2>3. access' # access
    BY <1>1, <1>2, <2>1 DEF Inv, TypeOK
  <2>4. Promise!vars' # Promise!vars
    BY <1>1, <2>3, KeptHashes DEF Promise!vars
  <2> QED
    BY <2>2, <2>4 DEF Promise!Next
<1> QED
  BY <1>3, <1>4

\* The redis commands of all instances together implement the store of trait
\* Issuer: every step adds, offers, takes or retires one token, or changes
\* none of this.
THEOREM TokenMapImplementsTokenStore == Spec => ImplementsTokenStore
<1>1. Init => Promise!Init
  BY DEF Init, Promise!Init, Kept
<1>2. Inv /\ [Next]_vars => [Promise!Next]_(Promise!vars)
  <2> SUFFICES ASSUME Inv, [Next]_vars
               PROVE  Promise!Next \/ UNCHANGED Promise!vars
    OBVIOUS
  <2>0. tagger' = tagger
    <3>1. ASSUME NEW s \in Server, NEW r \in Replies, Step(s, r) PROVE tagger' = tagger
      BY <3>1 DEF Step, IssueGetUsage, IssueHsetAccess, IssueHsetRefresh, IssueSetUsage,
         RefreshHget, RefreshHdel, RefreshGetUsage, RefreshHgetAccess, RefreshHdelAccess,
         RefreshHsetAccess, RefreshHsetRefresh, RefreshSetUsage, HsetAccess, HsetRefresh,
         SetUsage
    <3> QED
      BY <3>1 DEF Next, vars, IssueBegin, RefreshBegin, Begin, ImportGrant, Revoke, Crash
  <2>1. CASE tagger # "random"
    BY <2>0, <2>1 DEF Promise!vars, Kept
  <2>2. CASE tagger = "random"
    <3>1. Promise!Next \/ UNCHANGED <<access, refresh, retired>>
      <4> USE <2>2
      <4>1. ASSUME NEW s \in Server, NEW r \in Replies, Step(s, r)
            PROVE  Promise!Next \/ UNCHANGED <<access, refresh, retired>>
        <5>1. CASE IssueHsetAccess(s, r) \/ RefreshHsetAccess(s, r)
          BY <5>1, HsetAccessAdds DEF IssueHsetAccess, RefreshHsetAccess
        <5>2. CASE IssueHsetRefresh(s, r) \/ RefreshHsetRefresh(s, r)
          BY <5>2, HsetRefreshOffers DEF IssueHsetRefresh, RefreshHsetRefresh
        <5>3. CASE RefreshHdel(s, r)
          BY <5>3, RefreshHdelTakes
        <5>4. CASE RefreshHdelAccess(s, r)
          BY <5>4, RefreshHdelAccessRetires
        <5>5. CASE \/ IssueGetUsage(s, r) \/ IssueSetUsage(s, r)
                   \/ RefreshHget(s, r) \/ RefreshGetUsage(s, r)
                   \/ RefreshHgetAccess(s, r) \/ RefreshSetUsage(s, r)
          BY <5>5 DEF IssueGetUsage, IssueSetUsage, RefreshHget, RefreshGetUsage,
             RefreshHgetAccess, RefreshSetUsage, SetUsage, redis
        <5> QED
          BY <4>1, <5>1, <5>2, <5>3, <5>4, <5>5 DEF Step
      <4>2. ASSUME NEW t \in Tag, NEW g \in Grant, NEW r \in Replies, ImportGrant(t, g, r)
            PROVE  Promise!Next \/ UNCHANGED <<access, refresh, retired>>
        BY <4>2, ImportGrantAdds
      <4>3. CASE \/ UNCHANGED vars
                 \/ \E s \in Server, g \in Grant : IssueBegin(s, g)
                 \/ \E s \in Server, t \in Tag, g \in Grant : RefreshBegin(s, t, g)
                 \/ \E t \in Tag : Revoke(t)
                 \/ \E s \in Server : Crash(s)
        BY <4>3 DEF vars, redis, IssueBegin, RefreshBegin, Begin, Revoke, Crash
      <4> QED
        BY <4>1, <4>2, <4>3 DEF Next
    <3>2. UNCHANGED <<access, refresh, retired>> => UNCHANGED Promise!vars
      BY <2>0, <2>2 DEF Promise!vars, Kept
    <3> QED
      BY <3>1, <3>2
  <2> QED
    BY <2>1, <2>2
<1> QED
  BY <1>1, <1>2, Invariance, PTL DEF Spec, ImplementsTokenStore, Promise!Spec
=============================================================================
