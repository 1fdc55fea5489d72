---------------------------- MODULE AuthMapProof ----------------------------
(***************************************************************************)
(* Proofs about AuthMap, for any number of instances, codes, grants and     *)
(* calls, both generators and every pattern of failures and crashes.        *)
(***************************************************************************)
EXTENDS AuthMap, TLAPS

\* Tokens and grants of running operations are there when they are used.
LocalsInv ==
  \A s \in Server :
    /\ op[s].pc \in {"get_usage", "hset", "set_usage", "hdel"} => op[s].grant \in Grant
    /\ op[s].pc \in {"hset", "set_usage", "hget", "hdel"} => op[s].code \in Tag
    /\ op[s].pc = "hset" => op[s].code \in drawn

\* A field exists only under a tag that a generator returned.
CreatedInv == \A t \in Tag : created[t] > 0 => t \in drawn

\* Random codes: a drawn tag has one owner, who creates its field once.
RandomInv ==
  tagger = "random" =>
    /\ \A t \in Tag : created[t] <= 1
    /\ \A s \in Server : op[s].pc = "hset" => created[op[s].code] = 0
    /\ \A s, z \in Server :
         op[s].pc = "hset" /\ op[z].pc = "hset" /\ op[s].code = op[z].code => s = z
    /\ \A s \in Server :
         op[s].pc = "hdel" =>
           /\ created[op[s].code] > 0
           /\ authmap[op[s].code] \in {Nil, op[s].grant}

Signs(t, g) == g \in Grant \ Private /\ \E u \in Usage : t \in Signatures(u, g)

\* Signed codes: every copy of a grant held under a code has that signature.
AssertionInv ==
  tagger = "assertion" =>
    /\ \A s \in Server :
         op[s].pc \in {"hset", "hdel"} => Signs(op[s].code, op[s].grant)
    /\ \A t \in Tag : authmap[t] # Nil => Signs(t, authmap[t])

\* The inductive invariant.
Inv ==
  /\ TypeOK
  /\ LocalsInv
  /\ CreatedInv
  /\ RedeemedWasCreated
  /\ RandomInv
  /\ AssertionInv

----------------------------------------------------------------------------
\* The counter arithmetic of both maps (u64::wrapping_add) stays in the type.
LEMMA WrappingAddType ==
  ASSUME NEW u \in Usage, NEW n \in Nat
  PROVE  WrappingAdd(u, n) \in Usage
BY U64Assumption DEF WrappingAdd, Usage

\* What TagGrant::tag returns is a token string or an error.
LEMMA TagOfType ==
  ASSUME TypeOK, NEW u \in Usage, NEW g \in Grant,
         NEW t \in TagOf(tagger, drawn, u, g), t # Nil
  PROVE  /\ t \in Tag
         /\ tagger = "random" => t \notin drawn
         /\ tagger = "assertion" => Signs(t, g)
BY SignAssumption, TaggersAssumption DEF TagOf, TypeOK, Signs

\* AuthMap::new starts with nothing stored and nothing running.
LEMMA InitInv == Init => Inv
<1> SUFFICES ASSUME Init PROVE Inv
  OBVIOUS
<1> USE DEF Init
<1>1. \A s \in Server : op[s] = Idle
  OBVIOUS
<1>2. Idle \in Op
  BY U64Assumption DEF Idle, Op, Usage
<1>3. TypeOK
  <2>1. op \in [Server -> Op] /\ usage \in Usage
    BY <1>2, U64Assumption DEF Usage
  <2>2. faulty \in BOOLEAN /\ tagger \in Taggers /\ drawn \in SUBSET Tag
    OBVIOUS
  <2> QED
    BY <2>1, <2>2 DEF TypeOK
<1>4. LocalsInv
  BY <1>1 DEF LocalsInv, Idle
<1>5. CreatedInv /\ RedeemedWasCreated
  BY DEF CreatedInv, RedeemedWasCreated
<1>6. RandomInv /\ AssertionInv
  BY <1>1 DEF RandomInv, AssertionInv, Idle
<1> QED
  BY <1>3, <1>4, <1>5, <1>6 DEF Inv

\* Leaving an operation (an error return or a crash) disturbs nothing.
LEMMA ReturnInv ==
  ASSUME Inv, NEW s \in Server, Return(s), faulty' \in BOOLEAN,
         UNCHANGED <<tagger, redis, drawn, created, redeemed, answer, disclosed, calls>>
  PROVE  Inv'
BY U64Assumption
DEF Inv, TypeOK, LocalsInv, CreatedInv, RedeemedWasCreated, RandomInv,
    AssertionInv, Return, Idle, Op, Usage, redis

\* Starting an operation stores nothing and draws no tag.
LEMMA AuthorizeBeginInv ==
  ASSUME Inv, NEW s \in Server, NEW g \in Grant, AuthorizeBegin(s, g)
  PROVE  Inv'
<1> USE DEF Inv, AuthorizeBegin, redis
<1>1. /\ op'[s].pc \notin {"hset", "set_usage", "hdel"}
      /\ op'[s].pc = "get_usage" => op'[s].grant \in Grant
      /\ op'[s].pc = "hget" => op'[s].code \in Tag
      /\ op'[s] \in Op
      /\ \A z \in Server : z # s => op'[z] = op[z]
  BY U64Assumption DEF TypeOK, Op, Usage
<1>2. TypeOK'
  BY <1>1 DEF TypeOK
<1>3. LocalsInv'
  BY <1>1 DEF LocalsInv
<1>4. (CreatedInv /\ RedeemedWasCreated)'
  BY DEF CreatedInv, RedeemedWasCreated
<1>5. RandomInv'
  BY <1>1 DEF RandomInv
<1>6. AssertionInv'
  BY <1>1 DEF AssertionInv, Signs
<1> QED
  BY <1>2, <1>3, <1>4, <1>5, <1>6

\* Any string may be presented as a code.
LEMMA ExtractBeginInv ==
  ASSUME Inv, NEW s \in Server, NEW t \in Tag, ExtractBegin(s, t)
  PROVE  Inv'
<1> USE DEF Inv, ExtractBegin, redis, history
<1>1. /\ op'[s].pc \notin {"hset", "set_usage", "hdel"}
      /\ op'[s].pc = "get_usage" => op'[s].grant \in Grant
      /\ op'[s].pc = "hget" => op'[s].code \in Tag
      /\ op'[s] \in Op
      /\ \A z \in Server : z # s => op'[z] = op[z]
  BY U64Assumption DEF TypeOK, Op, Usage
<1>2. TypeOK'
  BY <1>1 DEF TypeOK
<1>3. LocalsInv'
  BY <1>1 DEF LocalsInv
<1>4. (CreatedInv /\ RedeemedWasCreated)'
  BY DEF CreatedInv, RedeemedWasCreated
<1>5. RandomInv'
  BY <1>1 DEF RandomInv
<1>6. AssertionInv'
  BY <1>1 DEF AssertionInv, Signs
<1> QED
  BY <1>2, <1>3, <1>4, <1>5, <1>6

\* GET and tag: a random tag is new, a signed one is bound to its grant.
LEMMA AuthorizeGetUsageInv ==
  ASSUME Inv, NEW s \in Server, NEW r \in Replies, AuthorizeGetUsage(s, r)
  PROVE  Inv'
<1> DEFINE u == IF r = "ok" THEN usage ELSE 0
<1> USE DEF AuthorizeGetUsage, redis
<1>1. faulty' \in BOOLEAN
  BY DEF NoteFault, Inv, TypeOK
<1>2. CASE Return(s) /\ UNCHANGED drawn
  BY <1>1, <1>2, ReturnInv
<1>3. ASSUME NEW t \in TagOf(tagger, drawn, u, op[s].grant), t # Nil,
             drawn' = drawn \cup {t},
             op' = [op EXCEPT ![s].pc = "hset", ![s].curr = u, ![s].code = t]
      PROVE  Inv'
  <2>1. u \in Usage /\ op[s].grant \in Grant
    BY U64Assumption DEF Inv, TypeOK, LocalsInv, Usage
  <2>2. /\ t \in Tag
        /\ tagger = "random" => t \notin drawn
        /\ tagger = "assertion" => Signs(t, op[s].grant)
    BY <1>3, <2>1, TagOfType DEF Inv
  <2>3. /\ op' \in [Server -> Op]
        /\ op'[s].pc = "hset" /\ op'[s].code = t /\ op'[s].grant = op[s].grant
        /\ \A z \in Server : z # s => op'[z] = op[z]
    <3>1. op[s] \in Op /\ op'[s] = [op[s] EXCEPT !.pc = "hset", !.curr = u, !.code = t]
      BY <1>3 DEF Inv, TypeOK
    <3>2. op'[s] \in Op
      BY <2>1, <2>2, <3>1 DEF Op
    <3> QED
      BY <1>3, <3>1, <3>2 DEF Inv, TypeOK, Op
  <2>4. TypeOK'
    BY <1>1, <1>3, <2>2, <2>3 DEF Inv, TypeOK
  <2>5. LocalsInv'
    BY <1>3, <2>1, <2>2, <2>3 DEF Inv, LocalsInv
  <2>6. (CreatedInv /\ RedeemedWasCreated)'
    BY <1>3 DEF Inv, CreatedInv, RedeemedWasCreated
  <2>7. RandomInv'
    <3> SUFFICES ASSUME tagger = "random" PROVE RandomInv'
      BY DEF RandomInv
    <3>1. created[t] = 0
      BY <2>2 DEF Inv, CreatedInv, TypeOK
    <3>2. \A z \in Server : op[z].pc = "hset" => op[z].code # t
      BY <2>2 DEF Inv, LocalsInv
    <3> QED
      BY <2>3, <3>1, <3>2 DEF Inv, RandomInv
  <2>8. AssertionInv'
    BY <2>2, <2>3 DEF Inv, AssertionInv, Signs
  <2> QED
    BY <2>4, <2>5, <2>6, <2>7, <2>8 DEF Inv
<1> QED
  BY <1>2, <1>3

\* HSET: with random codes only the tag's owner creates the field; with
\* signed ones the field is rewritten with a grant that has the same code.
LEMMA AuthorizeHsetInv ==
  ASSUME Inv, NEW s \in Server, NEW r \in Replies, AuthorizeHset(s, r)
  PROVE  Inv'
<1> DEFINE t == op[s].code
<1> USE DEF AuthorizeHset
<1>1. /\ t \in Tag /\ t \in drawn /\ op[s].grant \in Grant
      /\ faulty' \in BOOLEAN
  BY DEF Inv, LocalsInv, NoteFault, TypeOK
<1>2. /\ op' \in [Server -> Op]
      /\ op'[s].pc \in {"set_usage", "idle"}
      /\ op'[s].pc = "set_usage" => op'[s].code = t /\ op'[s].grant = op[s].grant
      /\ \A z \in Server : z # s => op'[z] = op[z]
  <2>1. CASE Return(s)
    BY <2>1, U64Assumption DEF Inv, TypeOK, Op, Return, Idle, Usage
  <2>2. CASE op' = [op EXCEPT ![s].pc = "set_usage"]
    BY <2>2 DEF Inv, TypeOK, Op
  <2> QED
    BY <2>1, <2>2
<1>3. TypeOK'
  BY <1>1, <1>2 DEF Inv, TypeOK
<1>4. LocalsInv'
  BY <1>1, <1>2 DEF Inv, LocalsInv
<1>5. CreatedInv'
  BY <1>1 DEF Inv, CreatedInv, TypeOK
<1>6. RedeemedWasCreated'
  BY <1>1, GrantAssumption DEF Inv, RedeemedWasCreated, TypeOK
<1>7. RandomInv'
  <2> SUFFICES ASSUME tagger = "random" PROVE RandomInv'
    BY DEF RandomInv
  <2>1. created[t] = 0
    BY DEF Inv, RandomInv
  <2>2. \A z \in Server : z # s /\ op[z].pc = "hset" => op[z].code # t
    BY DEF Inv, RandomInv
  <2>3. \A z \in Server : op[z].pc = "hdel" => op[z].code # t
    BY <2>1 DEF Inv, RandomInv
  <2>4. \A v \in Tag : v # t => created'[v] = created[v] /\ authmap'[v] = authmap[v]
    BY <1>1 DEF Inv, TypeOK
  <2>5. created'[t] \in {0, 1}
    BY <1>1, <2>1 DEF Inv, TypeOK
  <2>6. \A z \in Server : op[z].pc \in {"hset", "hdel"} => op[z].code \in Tag
    BY DEF Inv, LocalsInv
  <2> QED
    BY <1>2, <2>1, <2>2, <2>3, <2>4, <2>5, <2>6 DEF Inv, RandomInv
<1>8. AssertionInv'
  BY <1>1, <1>2 DEF Inv, AssertionInv, Signs, TypeOK
<1> QED
  BY <1>3, <1>4, <1>5, <1>6, <1>7, <1>8 DEF Inv

\* SET of the counter, whatever it overwrites, concerns no code.
LEMMA AuthorizeSetUsageInv ==
  ASSUME Inv, NEW s \in Server, NEW r \in Replies, AuthorizeSetUsage(s, r)
  PROVE  Inv'
<1> USE DEF AuthorizeSetUsage
<1>1. /\ op[s].code \in Tag
      /\ faulty' \in BOOLEAN
      /\ op[s].curr \in Usage
  BY DEF Inv, LocalsInv, NoteFault, TypeOK, Op
<1>2. usage' \in Usage /\ disclosed' \in [Tag -> Nat]
  BY <1>1, WrappingAddType DEF Inv, TypeOK
<1>3. /\ op' \in [Server -> Op]
      /\ op'[s].pc = "idle"
      /\ \A z \in Server : z # s => op'[z] = op[z]
  BY U64Assumption DEF Inv, TypeOK, Op, Return, Idle, Usage
<1>4. TypeOK'
  BY <1>1, <1>2, <1>3 DEF Inv, TypeOK
<1>5. LocalsInv'
  BY <1>3 DEF Inv, LocalsInv
<1>6. (CreatedInv /\ RedeemedWasCreated)'
  BY DEF Inv, CreatedInv, RedeemedWasCreated
<1>7. RandomInv'
  BY <1>3 DEF Inv, RandomInv
<1>8. AssertionInv'
  BY <1>3 DEF Inv, AssertionInv, Signs
<1> QED
  BY <1>4, <1>5, <1>6, <1>7, <1>8 DEF Inv

\* HGET copies the stored grant.
LEMMA ExtractHgetInv ==
  ASSUME Inv, NEW s \in Server, NEW r \in Replies, ExtractHget(s, r)
  PROVE  Inv'
<1> DEFINE t == op[s].code
<1> USE DEF ExtractHget, redis
<1>1. t \in Tag /\ faulty' \in BOOLEAN
  BY DEF Inv, LocalsInv, NoteFault, TypeOK
<1>2. CASE Return(s)
  BY <1>1, <1>2, ReturnInv
<1>3. CASE /\ authmap[t] # Nil
           /\ op' = [op EXCEPT ![s].pc = "hdel", ![s].grant = authmap[t]]
  <2>1. authmap[t] \in Grant
    BY <1>1, <1>3 DEF Inv, TypeOK
  <2>2. /\ op' \in [Server -> Op]
        /\ op'[s].pc = "hdel" /\ op'[s].code = t /\ op'[s].grant = authmap[t]
        /\ \A z \in Server : z # s => op'[z] = op[z]
    BY <1>3, <2>1 DEF Inv, TypeOK, Op
  <2>3. TypeOK'
    BY <1>1, <2>2 DEF Inv, TypeOK
  <2>4. LocalsInv'
    BY <1>1, <2>1, <2>2 DEF Inv, LocalsInv
  <2>5. (CreatedInv /\ RedeemedWasCreated)'
    BY DEF Inv, CreatedInv, RedeemedWasCreated
  <2>6. created[t] > 0
    BY <1>1, <1>3 DEF Inv, RedeemedWasCreated, TypeOK
  <2>7. RandomInv'
    BY <2>2, <2>6 DEF Inv, RandomInv
  <2>8. AssertionInv'
    BY <1>1, <1>3, <2>2 DEF Inv, AssertionInv, Signs
  <2> QED
    BY <2>3, <2>4, <2>5, <2>7, <2>8 DEF Inv
<1> QED
  BY <1>2, <1>3

\* HDEL removes at most one field, and only a removal is counted as an exchange.
LEMMA ExtractHdelInv ==
  ASSUME Inv, NEW s \in Server, NEW r \in Replies, ExtractHdel(s, r)
  PROVE  Inv'
<1> DEFINE t == op[s].code
<1> USE DEF ExtractHdel
<1>1. t \in Tag /\ op[s].grant \in Grant /\ faulty' \in BOOLEAN
  BY DEF Inv, LocalsInv, NoteFault, TypeOK
<1>2. /\ op' \in [Server -> Op]
      /\ op'[s].pc = "idle"
      /\ \A z \in Server : z # s => op'[z] = op[z]
  BY U64Assumption DEF Inv, TypeOK, Op, Return, Idle, Usage
<1>3. TypeOK'
  BY <1>1, <1>2 DEF Inv, TypeOK
<1>4. LocalsInv'
  BY <1>2 DEF Inv, LocalsInv
<1>5. CreatedInv'
  BY DEF Inv, CreatedInv
<1>6. RedeemedWasCreated'
  BY <1>1 DEF Inv, RedeemedWasCreated, TypeOK, Applied
<1>7. \A v \in Tag : authmap'[v] \in {Nil, authmap[v]}
  BY <1>1 DEF Inv, TypeOK
<1>8. RandomInv'
  <2>1. \A z \in Server : op[z].pc = "hdel" => op[z].code \in Tag
    BY DEF Inv, LocalsInv
  <2> QED
    BY <1>2, <1>7, <2>1 DEF Inv, RandomInv
<1>9. AssertionInv'
  BY <1>2, <1>7 DEF Inv, AssertionInv, Signs
<1> QED
  BY <1>3, <1>4, <1>5, <1>6, <1>8, <1>9 DEF Inv

----------------------------------------------------------------------------
\* Every step of every instance preserves the invariant.
LEMMA NextInv == Inv /\ [Next]_vars => Inv'
<1> SUFFICES ASSUME Inv, [Next]_vars PROVE Inv'
  OBVIOUS
<1>1. CASE UNCHANGED vars
  BY <1>1 DEF vars, redis, history, Inv, TypeOK, LocalsInv, CreatedInv,
     RedeemedWasCreated, RandomInv, AssertionInv, Signs
<1>2. ASSUME NEW s \in Server, NEW g \in Grant, AuthorizeBegin(s, g) PROVE Inv'
  BY <1>2, AuthorizeBeginInv
<1>3. ASSUME NEW s \in Server, NEW t \in Tag, ExtractBegin(s, t) PROVE Inv'
  BY <1>3, ExtractBeginInv
<1>4. ASSUME NEW s \in Server, Step(s) PROVE Inv'
  BY <1>4, AuthorizeGetUsageInv, AuthorizeHsetInv, AuthorizeSetUsageInv,
     ExtractHgetInv, ExtractHdelInv DEF Step
<1>5. ASSUME NEW s \in Server, Crash(s) PROVE Inv'
  BY <1>5, ReturnInv DEF Crash
<1> QED
  BY <1>1, <1>2, <1>3, <1>4, <1>5 DEF Next

\* The invariant holds throughout every behaviour of the map.
LEMMA Invariance == Spec => []Inv
BY InitInv, NextInv, PTL DEF Spec

\* The variables keep their types whatever the instances, the generator and
\* redis do; in particular the usage counter stays a u64.
THEOREM TypeCorrect == Spec => []TypeOK
<1>1. Inv => TypeOK
  BY DEF Inv
<1> QED
  BY <1>1, Invariance, PTL

\* Each exchange of a code used up one field that authorize had created, for
\* both generators and any failures (the HDEL-must-answer-1 test of extract).
THEOREM ExchangesAreBacked == Spec => []RedeemedWasCreated
<1>1. Inv => RedeemedWasCreated
  BY DEF Inv
<1> QED
  BY <1>1, Invariance, PTL

\* "A code should not be usable twice": a random code is exchanged for its
\* grant at most once, however many instances extract it concurrently.
THEOREM CodesAreSingleUse == Spec => []SingleUse
<1>1. Inv => SingleUse
  <2> SUFFICES ASSUME Inv, tagger = "random", NEW t \in Tag
               PROVE  redeemed[t] <= 1
    BY DEF SingleUse
  <2>1. created[t] <= 1 /\ created[t] \in Nat /\ redeemed[t] \in Nat
    BY DEF Inv, RandomInv, TypeOK
  <2>2. redeemed[t] + (IF authmap[t] # Nil THEN 1 ELSE 0) <= created[t]
    BY DEF Inv, RedeemedWasCreated
  <2> QED
    BY <2>1, <2>2
<1> QED
  BY <1>1, Invariance, PTL

----------------------------------------------------------------------------
\* A signature binds all of a grant but the fraction of a second.
LEMMA SignedGrantUnique ==
  ASSUME NEW t, NEW g, NEW h, Signs(t, g), Signs(t, h)
  PROVE  Signed(g) = Signed(h)
<1>1. PICK u \in Usage : t \in Signatures(u, g)
  BY DEF Signs
<1>2. PICK v \in Usage : t \in Signatures(v, h)
  BY DEF Signs
<1>3. /\ Signatures(u, g) \cap Signatures(v, h) # {}
      /\ g \in Grant \ Private /\ h \in Grant \ Private
  BY <1>1, <1>2 DEF Signs
<1> QED
  BY <1>3, SignAssumption

\* When HDEL finds the field, it holds the grant that HGET read, as far as the
\* code binds it.
LEMMA HgetStillValid ==
  ASSUME Inv, NEW s \in Server, op[s].pc = "hdel", authmap[op[s].code] # Nil
  PROVE  Bound(authmap[op[s].code]) = Bound(op[s].grant)
<1>1. CASE tagger = "random"
  BY <1>1 DEF Inv, RandomInv
<1>2. CASE tagger = "assertion"
  <2>1. op[s].code \in Tag
    BY DEF Inv, LocalsInv
  <2> QED
    BY <1>2, <2>1, SignedGrantUnique, GrantAssumption
       DEF Inv, AssertionInv, Bound, Signs
<1> QED
  BY <1>1, <1>2, TaggersAssumption DEF Inv, TypeOK

\* When HSET finds the field already there, it writes a grant that is the same
\* as far as the code binds it.
LEMMA HsetRewritesSame ==
  ASSUME Inv, NEW s \in Server, op[s].pc = "hset", authmap[op[s].code] # Nil
  PROVE  Bound(authmap[op[s].code]) = Bound(op[s].grant)
<1>1. op[s].code \in Tag
  BY DEF Inv, LocalsInv
<1>2. tagger # "random"
  BY <1>1 DEF Inv, RandomInv, RedeemedWasCreated, TypeOK
<1>3. tagger = "assertion"
  BY <1>2, TaggersAssumption DEF Inv, TypeOK
<1> QED
  BY <1>1, <1>3, SignedGrantUnique, GrantAssumption
     DEF Inv, AssertionInv, Bound, Signs

\* Binding keeps a field empty or full, and within the promise's values.
LEMMA BoundType ==
  ASSUME NEW g \in Grant \cup {Nil}
  PROVE  /\ Bound(g) = Nil <=> g = Nil
         /\ g # Nil => Bound(g) \in GrantBound
BY SignAssumption, GrantAssumption DEF Bound, GrantBound

\* The store and the answers of the promise, seen in the redis hash.
BoundMap == [t \in Tag |-> Bound(authmap[t])]
BoundAnswer == [t \in Tag |-> Bound(answer[t])]

\* Commands that leave the hash and the answers alone do not show.
LEMMA Stutters ==
  ASSUME UNCHANGED <<tagger, authmap, answer>>
  PROVE  BoundMap' = BoundMap /\ BoundAnswer' = BoundAnswer
BY DEF BoundMap, BoundAnswer, Bound

\* An HSET is the promise's Authorize, or does not show.
LEMMA HsetImplements ==
  ASSUME Inv, NEW s \in Server, NEW r \in Replies, AuthorizeHset(s, r)
  PROVE  Promise!Next \/ UNCHANGED <<BoundMap, redeemed, BoundAnswer>>
<1> DEFINE t == op[s].code
<1>1. t \in Tag /\ op[s].grant \in Grant /\ op[s].pc = "hset" /\ op[s].grant # Nil
  BY GrantAssumption DEF AuthorizeHset, Inv, LocalsInv
<1>2. /\ UNCHANGED <<tagger, redeemed, answer>>
      /\ authmap \in [Tag -> Grant \cup {Nil}]
      /\ authmap' = IF Applied(r) THEN [authmap EXCEPT ![t] = op[s].grant] ELSE authmap
  BY DEF AuthorizeHset, Inv, TypeOK
<1>3. \A v \in Tag : Bound(authmap[v])' = IF v = t /\ Applied(r) THEN Bound(op[s].grant)
                                          ELSE Bound(authmap[v])
  BY <1>1, <1>2 DEF Bound
<1>4. BoundAnswer' = BoundAnswer
  BY <1>2 DEF BoundAnswer, Bound
<1>5. CASE ~Applied(r) \/ authmap[t] # Nil
  <2>1. \A v \in Tag : Bound(authmap[v])' = Bound(authmap[v])
    BY <1>1, <1>3, <1>5, HsetRewritesSame
  <2>2. BoundMap' = BoundMap
    BY <2>1 DEF BoundMap
  <2> QED
    BY <1>2, <1>4, <2>2
<1>6. CASE Applied(r) /\ authmap[t] = Nil
  <2>1. BoundMap' = [BoundMap EXCEPT ![t] = Bound(op[s].grant)]
    BY <1>3, <1>6 DEF BoundMap
  <2>2. BoundMap[t] = Nil /\ BoundMap'[t] = Bound(op[s].grant)
    BY <1>1, <1>6, <2>1 DEF BoundMap, Bound
  <2>3. Bound(op[s].grant) \in GrantBound
    BY <1>1, BoundType
  <2>4. Promise!Authorize(t)
    BY <1>2, <1>4, <2>1, <2>2, <2>3 DEF Promise!Authorize, BoundMap, BoundAnswer
  <2> QED
    BY <1>1, <2>4 DEF Promise!Next
<1> QED
  BY <1>5, <1>6

\* An HDEL is the promise's Extract or Lose, or does not show.
LEMMA HdelImplements ==
  ASSUME Inv, NEW s \in Server, NEW r \in Replies, ExtractHdel(s, r)
  PROVE  Promise!Next \/ UNCHANGED <<BoundMap, redeemed, BoundAnswer>>
<1> DEFINE t == op[s].code
           won == r = "ok" /\ authmap[t] # Nil
<1>1. t \in Tag /\ op[s].pc = "hdel"
  BY DEF ExtractHdel, Inv, LocalsInv
<1>2. /\ UNCHANGED tagger
      /\ authmap \in [Tag -> Grant \cup {Nil}]
      /\ answer \in [Tag -> Grant \cup {Nil}]
      /\ redeemed \in [Tag -> Nat]
      /\ authmap' = IF Applied(r) THEN [authmap EXCEPT ![t] = Nil] ELSE authmap
      /\ redeemed' = IF won THEN [redeemed EXCEPT ![t] = @ + 1] ELSE redeemed
      /\ answer' = IF won THEN [answer EXCEPT ![t] = op[s].grant] ELSE answer
  BY DEF ExtractHdel, Inv, TypeOK
<1>3. \A v \in Tag : Bound(authmap[v])' = IF v = t /\ Applied(r) THEN Nil
                                          ELSE Bound(authmap[v])
  BY <1>1, <1>2 DEF Bound
<1>4. \A v \in Tag : Bound(answer[v])' = IF v = t /\ won THEN Bound(op[s].grant)
                                         ELSE Bound(answer[v])
  BY <1>1, <1>2 DEF Bound
<1>5. authmap[t] # Nil <=> BoundMap[t] # Nil
  BY <1>1, <1>2, BoundType DEF BoundMap
<1>6. CASE ~Applied(r) \/ authmap[t] = Nil
  <2>1. /\ \A v \in Tag : Bound(authmap[v])' = Bound(authmap[v])
        /\ \A v \in Tag : Bound(answer[v])' = Bound(answer[v])
    BY <1>3, <1>4, <1>6 DEF Bound, Applied
  <2>2. redeemed' = redeemed
    BY <1>2, <1>6 DEF Applied
  <2> QED
    BY <2>1, <2>2 DEF BoundMap, BoundAnswer
<1>7. CASE Applied(r) /\ authmap[t] # Nil
  <2>1. BoundMap' = [BoundMap EXCEPT ![t] = Nil]
    BY <1>3, <1>7 DEF BoundMap
  <2>2. CASE won
    <3>1. BoundMap[t] = Bound(op[s].grant)
      BY <1>1, <1>7, HgetStillValid DEF BoundMap
    <3>2. BoundAnswer' = [BoundAnswer EXCEPT ![t] = BoundMap[t]]
      BY <1>4, <2>2, <3>1 DEF BoundAnswer
    <3>3. Promise!Extract(t)
      BY <1>2, <1>5, <1>7, <2>1, <2>2, <3>2 DEF Promise!Extract, BoundMap, BoundAnswer
    <3> QED
      BY <1>1, <3>3 DEF Promise!Next
  <2>3. CASE ~won
    <3>1. BoundAnswer' = BoundAnswer
      BY <1>4, <2>3 DEF BoundAnswer
    <3>2. Promise!Lose(t)
      BY <1>2, <1>5, <1>7, <2>1, <2>3, <3>1 DEF Promise!Lose, BoundMap, BoundAnswer
    <3> QED
      BY <1>1, <3>2 DEF Promise!Next
  <2> QED
    BY <2>2, <2>3
<1> QED
  BY <1>6, <1>7

\* The sequence of redis commands implements the atomic store the Authorizer
\* trait promises: each step is an Authorize, an Extract or a loss of one
\* code, or leaves the store alone.  What a signed code promises is its grant
\* as it was signed, without the fraction of a second of the expiry.
THEOREM AuthMapImplementsCodeStore == Spec => ImplementsCodeStore
<1>1. Init => Promise!Init
  BY DEF Init, Promise!Init, Bound
<1>2. Inv /\ [Next]_vars => [Promise!Next]_(Promise!vars)
  <2> SUFFICES ASSUME Inv, [Next]_vars
               PROVE  Promise!Next \/ UNCHANGED <<BoundMap, redeemed, BoundAnswer>>
    BY DEF Promise!vars, BoundMap, BoundAnswer
  <2>1. CASE UNCHANGED vars
    BY <2>1, Stutters DEF vars, redis, history
  <2>2. ASSUME NEW s \in Server, NEW r \in Replies, AuthorizeHset(s, r)
        PROVE  Promise!Next \/ UNCHANGED <<BoundMap, redeemed, BoundAnswer>>
    BY <2>2, HsetImplements
  <2>3. ASSUME NEW s \in Server, NEW r \in Replies, ExtractHdel(s, r)
        PROVE  Promise!Next \/ UNCHANGED <<BoundMap, redeemed, BoundAnswer>>
    BY <2>3, HdelImplements
  <2>4. ASSUME NEW s \in Server,
               \/ \E g \in Grant : AuthorizeBegin(s, g)
               \/ \E t \in Tag : ExtractBegin(s, t)
               \/ \E r \in Replies : \/ AuthorizeGetUsage(s, r)
                                     \/ AuthorizeSetUsage(s, r)
                                     \/ ExtractHget(s, r)
               \/ Crash(s)
        PROVE  UNCHANGED <<BoundMap, redeemed, BoundAnswer>>
    <3>1. UNCHANGED <<tagger, authmap, redeemed, answer>>
      BY <2>4 DEF AuthorizeBegin, ExtractBegin, AuthorizeGetUsage,
         AuthorizeSetUsage, ExtractHget, Crash, redis, history
    <3> QED
      BY <3>1, Stutters
  <2> QED
    BY <2>1, <2>2, <2>3, <2>4 DEF Next, Step
<1> QED
  BY <1>1, <1>2, Invariance, PTL DEF Spec, ImplementsCodeStore, Promise!Spec
=============================================================================
