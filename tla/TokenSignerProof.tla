-------------------------- MODULE TokenSignerProof --------------------------
(***************************************************************************)
(* Theorems about TokenSigner, for every number of threads, grants, keys,    *)
(* calls and restarts, and every width of the counter.                       *)
(***************************************************************************)
EXTENDS TokenSigner, TLAPS

\* The parts of a string that matter here, and the answers of issue.
String == [key : Key, ctr : 0 .. Usize - 1, grant : Grant, until : Int,
           tag : {"token", "refresh"}]

Entry == [token : String, refresh : String \cup {Nil}, grant : Grant, until : Int]

Locals == [pc : {"idle", "first", "second"}, grant : Grant \cup {Nil}, until : Int,
           first : 0 .. Usize - 1]

TypeInv ==
  /\ key \in Key
  /\ counter \in 0 .. Usize - 1
  /\ duration \in Durations \cup {Nil}
  /\ call \in [Thread -> Locals]
  /\ \A t \in Thread : call[t].pc # "idle" => call[t].grant \in Grant
  /\ now \in Nat
  /\ issued \in Seq(Entry)

\* Every key of a token, and the present one, is known to have been used.
UsedInv ==
  /\ key \in used
  /\ \A i \in DOMAIN issued : issued[i].token.key \in used

\* What the strings of an answer say.
SaysInv ==
  \A i \in DOMAIN issued :
    /\ issued[i].token.tag = "token"
    /\ issued[i].token.grant = issued[i].grant
    /\ issued[i].token.until = issued[i].until \div Second
    /\ issued[i].refresh # Nil =>
         /\ issued[i].refresh.tag = "refresh"
         /\ issued[i].refresh.key = issued[i].token.key
         /\ issued[i].refresh.grant = issued[i].grant
         /\ issued[i].refresh.until = issued[i].until \div Second

\* Numbers that were taken under a key whose counter has not started over lie
\* below the counter: those in strings and those a thread holds.
BelowInv ==
  key \notin reused =>
    /\ \A i \in DOMAIN issued :
         issued[i].token.key = key =>
           /\ issued[i].token.ctr < counter
           /\ issued[i].refresh # Nil => issued[i].refresh.ctr < counter
    /\ \A t \in Thread : call[t].pc = "second" => call[t].first < counter

\* A number that a thread holds is held by no other and is in no token yet.
HeldInv ==
  key \notin reused =>
    \A t \in Thread : call[t].pc = "second" =>
      /\ \A u \in Thread : u # t /\ call[u].pc = "second" => call[u].first # call[t].first
      /\ \A i \in DOMAIN issued :
           issued[i].token.key = key => issued[i].token.ctr # call[t].first

\* TokensDiffer by numbers alone.
DifferInv ==
  \A i, j \in DOMAIN issued :
    i # j /\ issued[i].token.key \notin reused /\ issued[i].token.key = issued[j].token.key =>
      /\ issued[i].token.ctr # issued[j].token.ctr
      /\ issued[i].refresh # Nil /\ issued[j].refresh # Nil =>
           issued[i].refresh.ctr # issued[j].refresh.ctr

Inv == TypeInv /\ UsedInv /\ SaysInv /\ BelowInv /\ HeldInv /\ DifferInv

----------------------------------------------------------------------------

\* What a signed string is made of.
LEMMA SignSays ==
  ASSUME TypeInv, NEW k \in Key, NEW ctr \in 0 .. Usize - 1, NEW g \in Grant,
         NEW until \in Int, NEW tag \in {"token", "refresh"}, Sign(k, ctr, g, until, tag) # Nil
  PROVE  /\ Sign(k, ctr, g, until, tag) \in String
         /\ Sign(k, ctr, g, until, tag).key = k
         /\ Sign(k, ctr, g, until, tag).ctr = ctr
         /\ Sign(k, ctr, g, until, tag).grant = g
         /\ Sign(k, ctr, g, until, tag).until = until \div Second
         /\ Sign(k, ctr, g, until, tag).tag = tag
<1>1. until \div Second \in Int
  BY TokenSignerAssumption
<1> QED BY <1>1 DEF Sign, String

\* fetch_add moves the counter up, or records that it has started over.
LEMMA CounterMoves ==
  ASSUME TypeInv, NextCounter
  PROVE  /\ counter' \in 0 .. Usize - 1
         /\ reused \subseteq reused'
         /\ reused' \subseteq reused \cup {key}
         /\ key \notin reused' => counter' = counter + 1
<1>1. counter \in 0 .. Usize - 1 /\ Usize \in Nat \ {0}
  BY TokenSignerAssumption DEF TypeInv
<1>2. CASE counter + 1 = Usize
  BY <1>1, <1>2 DEF NextCounter
<1>3. CASE counter + 1 # Usize
  <2>1. counter + 1 \in 0 .. Usize - 1
    BY <1>1, <1>3
  <2>2. (counter + 1) % Usize = counter + 1
    BY <1>1, <2>1
  <2> QED BY <1>1, <1>3, <2>1, <2>2 DEF NextCounter
<1> QED BY <1>2, <1>3

\* The numbers in strings are numbers.
LEMMA NumbersTyped ==
  ASSUME TypeInv, NEW i \in DOMAIN issued
  PROVE  /\ issued[i].token.ctr \in Int
         /\ issued[i].refresh # Nil => issued[i].refresh.ctr \in Int
<1>1. issued[i] \in Entry
  BY DEF TypeInv
<1>2. issued[i].token \in String /\ (issued[i].refresh # Nil => issued[i].refresh \in String)
  BY <1>1 DEF Entry
<1>3. \A x \in String : x.ctr \in Int
  BY TokenSignerAssumption DEF String
<1> QED BY <1>2, <1>3

\* The common case of the actions that leave strings and numbers alone.
LEMMA Untouched ==
  ASSUME Inv, TypeInv', used' = used, key' = key, counter' = counter, issued' = issued,
         reused' = reused,
         \A t \in Thread : call'[t].pc = "second" =>
           call[t].pc = "second" /\ call'[t].first = call[t].first
  PROVE  Inv'
<1>1. UsedInv' BY DEF Inv, UsedInv
<1>2. SaysInv' BY DEF Inv, SaysInv
<1>3. BelowInv' BY DEF Inv, BelowInv
<1>4. HeldInv' BY DEF Inv, HeldInv
<1>5. DifferInv' BY DEF Inv, DifferInv
<1> QED BY <1>1, <1>2, <1>3, <1>4, <1>5 DEF Inv

\* An answer with a token whose number is in no other token, and a refresh
\* token whose number is the one just taken.
LEMMA AnswerKeeps ==
  ASSUME Inv, NEW t \in Thread, NEW token, NEW refresh, NEW ctr \in 0 .. Usize - 1,
         call[t].pc # "idle", NextCounter, Answer(t, token, refresh),
         key' = key, used' = used, duration' = duration, haveRefresh' = haveRefresh, now' = now,
         token = Sign(key, ctr, call[t].grant, call[t].until, "token"),
         refresh \in {Nil, Sign(key, counter, call[t].grant, call[t].until, "refresh")},
         \/ call[t].pc = "first" /\ ctr = counter
         \/ call[t].pc = "second" /\ ctr = call[t].first
  PROVE  Inv'
<1> DEFINE e == [token |-> token, refresh |-> refresh,
                 grant |-> call[t].grant, until |-> call[t].until]
<1>1. /\ key \in Key /\ counter \in 0 .. Usize - 1 /\ call \in [Thread -> Locals]
      /\ call[t].grant \in Grant /\ call[t].until \in Int /\ issued \in Seq(Entry)
      /\ call[t].first \in 0 .. Usize - 1
  BY DEF Inv, TypeInv, Locals
<1>2. Usize \in Nat \ {0} /\ Second \in Nat \ {0}
  BY TokenSignerAssumption
<1>3. /\ counter' \in 0 .. Usize - 1
      /\ reused \subseteq reused'
      /\ reused' \subseteq reused \cup {key}
      /\ key \notin reused' => counter' = counter + 1
  BY CounterMoves DEF Inv
<1>4. call' = [call EXCEPT ![t] = Idle]
  BY DEF Answer
<1>5. call' \in [Thread -> Locals] /\ call'[t].pc = "idle"
      /\ \A u \in Thread : u # t => call'[u] = call[u]
  BY <1>1, <1>2, <1>4 DEF Idle, Locals
<1>6. token # Nil =>
        /\ token \in String
        /\ token.key = key /\ token.ctr = ctr /\ token.grant = call[t].grant
        /\ token.until = call[t].until \div Second /\ token.tag = "token"
  BY <1>1, SignSays DEF Inv
<1>7. refresh # Nil =>
        /\ refresh \in String
        /\ refresh.key = key /\ refresh.ctr = counter /\ refresh.grant = call[t].grant
        /\ refresh.until = call[t].until \div Second /\ refresh.tag = "refresh"
  BY <1>1, SignSays DEF Inv
<1>8. CASE token = Nil
  <2>1. issued' = issued
    BY <1>8 DEF Answer
  <2>2. TypeInv'
    BY <1>1, <1>3, <1>5, <2>1 DEF Inv, TypeInv
  <2>3. UsedInv' BY <2>1 DEF Inv, UsedInv
  <2>4. SaysInv' BY <2>1 DEF Inv, SaysInv
  <2>5. BelowInv'
    <3> SUFFICES ASSUME key \notin reused' PROVE BelowInv'
      BY DEF BelowInv
    <3>1. key \notin reused /\ counter' = counter + 1
      BY <1>3
    <3>2. \A i \in DOMAIN issued :
            issued[i].token.key = key =>
              /\ issued[i].token.ctr < counter + 1
              /\ issued[i].refresh # Nil => issued[i].refresh.ctr < counter + 1
      BY <1>1, <3>1, NumbersTyped DEF Inv, BelowInv
    <3>3. \A u \in Thread : call'[u].pc = "second" => call'[u].first < counter + 1
      BY <1>1, <1>2, <1>5, <3>1 DEF Inv, BelowInv, Locals
    <3> QED BY <2>1, <3>1, <3>2, <3>3 DEF BelowInv
  <2>6. HeldInv' BY <1>3, <1>5, <2>1 DEF Inv, HeldInv
  <2>7. DifferInv' BY <1>3, <2>1 DEF Inv, DifferInv
  <2> QED BY <2>2, <2>3, <2>4, <2>5, <2>6, <2>7 DEF Inv
<1>9. CASE token # Nil
  <2>1. e \in Entry
    BY <1>1, <1>6, <1>7, <1>9 DEF Entry
  <2>2. issued' = Append(issued, e)
    BY <1>9 DEF Answer
  <2>3. /\ issued' \in Seq(Entry)
        /\ DOMAIN issued' = DOMAIN issued \cup {Len(issued) + 1}
        /\ Len(issued) + 1 \notin DOMAIN issued
        /\ \A i \in DOMAIN issued : issued'[i] = issued[i]
        /\ issued'[Len(issued) + 1] = e
    BY <1>1, <2>1, <2>2
  <2> DEFINE n == Len(issued) + 1
  <2> HIDE DEF e, n
  <2>4. /\ DOMAIN issued' = DOMAIN issued \cup {n}
        /\ n \notin DOMAIN issued
        /\ issued'[n] = e
    BY <2>3 DEF n
  <2>5. /\ e.token = token /\ e.refresh = refresh
        /\ e.grant = call[t].grant /\ e.until = call[t].until
    BY DEF e
  <2>6. TypeInv'
    BY <1>1, <1>3, <1>5, <2>3 DEF Inv, TypeInv
  <2>7. UsedInv'
    BY <1>6, <1>9, <2>3, <2>4, <2>5 DEF Inv, UsedInv
  <2>8. SaysInv'
    BY <1>6, <1>7, <1>9, <2>3, <2>4, <2>5 DEF Inv, SaysInv
  <2>9. \A i \in DOMAIN issued :
          key \notin reused /\ issued[i].token.key = key =>
            /\ issued[i].token.ctr < counter /\ issued[i].token.ctr # ctr
            /\ issued[i].refresh # Nil => issued[i].refresh.ctr < counter
    BY <1>1, <1>2 DEF Inv, BelowInv, HeldInv, Entry, String
  <2>10. BelowInv'
    <3> SUFFICES ASSUME key \notin reused' PROVE BelowInv'
      BY DEF BelowInv
    <3>1. key \notin reused /\ counter' = counter + 1
      BY <1>3
    <3>2. \A i \in DOMAIN issued :
            issued[i].token.key = key =>
              /\ issued[i].token.ctr < counter + 1
              /\ issued[i].refresh # Nil => issued[i].refresh.ctr < counter + 1
      BY <1>1, <3>1, NumbersTyped DEF Inv, BelowInv
    <3>3. \A u \in Thread : call'[u].pc = "second" => call'[u].first < counter + 1
      BY <1>1, <1>2, <1>5, <3>1 DEF Inv, BelowInv, Locals
    <3>4. ctr < counter + 1 /\ counter < counter + 1
      BY <1>1, <1>2, <3>1 DEF Inv, BelowInv
    <3>5. token.ctr < counter + 1 /\ (refresh # Nil => refresh.ctr < counter + 1)
      BY <1>6, <1>7, <1>9, <3>4
    <3> QED BY <2>3, <2>4, <2>5, <3>1, <3>2, <3>3, <3>5 DEF BelowInv
  <2>11. HeldInv'
    <3> SUFFICES ASSUME key \notin reused', NEW u \in Thread, call'[u].pc = "second"
                 PROVE  /\ \A v \in Thread :
                             v # u /\ call'[v].pc = "second" => call'[v].first # call'[u].first
                        /\ \A i \in DOMAIN issued' :
                             issued'[i].token.key = key => issued'[i].token.ctr # call'[u].first
      BY DEF HeldInv
    <3>1. key \notin reused /\ u # t /\ call'[u] = call[u]
      BY <1>3, <1>5
    <3>2. \A v \in Thread : v # u /\ call'[v].pc = "second" => call'[v].first # call'[u].first
      BY <1>5, <3>1 DEF Inv, HeldInv
    <3>3. \A i \in DOMAIN issued : issued[i].token.key = key => issued[i].token.ctr # call[u].first
      BY <3>1 DEF Inv, HeldInv
    <3>4. ctr # call[u].first
      BY <1>1, <1>2, <3>1 DEF Inv, HeldInv, BelowInv, Locals
    <3> QED BY <1>6, <1>9, <2>3, <2>4, <2>5, <3>1, <3>2, <3>3, <3>4
  <2>12. DifferInv'
    <3> SUFFICES ASSUME NEW i \in DOMAIN issued', NEW j \in DOMAIN issued', i # j,
                        issued'[i].token.key \notin reused',
                        issued'[i].token.key = issued'[j].token.key
                 PROVE  /\ issued'[i].token.ctr # issued'[j].token.ctr
                        /\ issued'[i].refresh # Nil /\ issued'[j].refresh # Nil =>
                             issued'[i].refresh.ctr # issued'[j].refresh.ctr
      BY DEF DifferInv
    <3>1. CASE i \in DOMAIN issued /\ j \in DOMAIN issued
      BY <1>3, <2>3, <3>1 DEF Inv, DifferInv
    <3>2. \A k \in DOMAIN issued :
            key \notin reused /\ issued[k].token.key = key =>
              /\ issued[k].token.ctr # ctr
              /\ issued[k].refresh # Nil => issued[k].refresh.ctr # counter
      BY <1>1, <2>9, NumbersTyped DEF Inv
    <3>3. CASE i = n /\ j \in DOMAIN issued
      BY <1>3, <1>6, <1>7, <1>9, <2>3, <2>4, <2>5, <3>2, <3>3
    <3>4. CASE j = n /\ i \in DOMAIN issued
      BY <1>3, <1>6, <1>7, <1>9, <2>3, <2>4, <2>5, <3>2, <3>4
    <3> QED BY <2>4, <3>1, <3>3, <3>4
  <2> QED BY <2>6, <2>7, <2>8, <2>10, <2>11, <2>12 DEF Inv
<1> QED BY <1>8, <1>9

\* The first number of a call that makes a refresh token.
LEMMA FirstKept ==
  ASSUME Inv, NEW t \in Thread, call[t].pc = "first", NextCounter,
         call' = [call EXCEPT ![t].pc = "second", ![t].first = counter], issued' = issued,
         key' = key, used' = used, duration' = duration, haveRefresh' = haveRefresh, now' = now
  PROVE  Inv'
<1>1. /\ key \in Key /\ counter \in 0 .. Usize - 1 /\ call \in [Thread -> Locals]
      /\ call[t].grant \in Grant
  BY DEF Inv, TypeInv
<1>2. Usize \in Nat \ {0}
  BY TokenSignerAssumption
<1>3. /\ counter' \in 0 .. Usize - 1
      /\ reused \subseteq reused'
      /\ reused' \subseteq reused \cup {key}
      /\ key \notin reused' => counter' = counter + 1
  BY CounterMoves DEF Inv
<1>4. /\ call' \in [Thread -> Locals]
      /\ call'[t].pc = "second" /\ call'[t].first = counter /\ call'[t].grant = call[t].grant
      /\ \A u \in Thread : u # t => call'[u] = call[u]
  BY <1>1 DEF Locals
<1>5. TypeInv'
  BY <1>1, <1>3, <1>4 DEF Inv, TypeInv
<1>6. UsedInv' BY DEF Inv, UsedInv
<1>7. SaysInv' BY DEF Inv, SaysInv
<1>8. ASSUME key \notin reused'
      PROVE  /\ \A i \in DOMAIN issued :
                  issued[i].token.key = key =>
                    /\ issued[i].token.ctr < counter + 1 /\ issued[i].token.ctr # counter
                    /\ issued[i].refresh # Nil => issued[i].refresh.ctr < counter + 1
             /\ \A u \in Thread : u # t /\ call'[u].pc = "second" =>
                  call'[u].first < counter + 1 /\ call'[u].first # counter
  <2>1. key \notin reused
    BY <1>3, <1>8
  <2>2. \A u \in Thread : call[u].first \in Int
    BY <1>1, <1>2 DEF Locals
  <2>3. \A i \in DOMAIN issued :
          issued[i].token.key = key =>
            /\ issued[i].token.ctr < counter + 1 /\ issued[i].token.ctr # counter
            /\ issued[i].refresh # Nil => issued[i].refresh.ctr < counter + 1
    BY <1>1, <2>1, NumbersTyped DEF Inv, BelowInv
  <2>4. \A u \in Thread : u # t /\ call'[u].pc = "second" =>
          call'[u].first < counter + 1 /\ call'[u].first # counter
    BY <1>1, <1>4, <2>1, <2>2 DEF Inv, BelowInv
  <2> QED BY <2>3, <2>4
<1>9. BelowInv' BY <1>1, <1>3, <1>4, <1>8 DEF BelowInv
<1>10. HeldInv'
  <2> SUFFICES ASSUME key \notin reused', NEW u \in Thread, call'[u].pc = "second"
               PROVE  /\ \A v \in Thread :
                           v # u /\ call'[v].pc = "second" => call'[v].first # call'[u].first
                      /\ \A i \in DOMAIN issued :
                           issued[i].token.key = key => issued[i].token.ctr # call'[u].first
    BY DEF HeldInv
  <2>1. CASE u = t
    BY <1>4, <1>8, <2>1
  <2>2. CASE u # t
    BY <1>3, <1>4, <1>8, <2>2 DEF Inv, HeldInv
  <2> QED BY <2>1, <2>2
<1>11. DifferInv' BY <1>3 DEF Inv, DifferInv
<1> QED BY <1>5, <1>6, <1>7, <1>9, <1>10, <1>11 DEF Inv

\* A restart: no string has a key that was never used, and the counter of one
\* that was is known to have started over.
LEMMA NewKeeps ==
  ASSUME Inv, NEW k \in Key, New(k)
  PROVE  Inv'
<1>1. Usize \in Nat \ {0}
  BY TokenSignerAssumption
<1>2. call' = [t \in Thread |-> Idle] /\ Idle \in Locals /\ Idle.pc = "idle"
  BY <1>1 DEF New, Idle, Locals
<1>3. TypeInv'
  <2>1. call' \in [Thread -> Locals] /\ \A t \in Thread : call'[t].pc = "idle"
    BY <1>2
  <2>2. counter' \in 0 .. Usize - 1
    BY <1>1 DEF New
  <2> QED BY <2>1, <2>2 DEF Inv, TypeInv, New
<1>4. UsedInv' BY DEF Inv, UsedInv, New
<1>5. SaysInv' BY DEF Inv, SaysInv, New
<1>6. BelowInv' BY <1>2 DEF Inv, UsedInv, BelowInv, New
<1>7. HeldInv' BY <1>2 DEF HeldInv
<1>8. DifferInv' BY DEF Inv, DifferInv, New
<1> QED BY <1>3, <1>4, <1>5, <1>6, <1>7, <1>8 DEF Inv

\* Inv is an invariant: issue under any interleaving of its two fetch_add,
\* the settings, the clock and restarts.
THEOREM SignerInvariant == Spec => []Inv
<1>1. Init => Inv
  <2> SUFFICES ASSUME Init PROVE Inv
    OBVIOUS
  <2>1. Idle \in Locals /\ Idle.pc = "idle"
    BY TokenSignerAssumption DEF Idle, Locals
  <2>2. TypeInv
    <3>1. call \in [Thread -> Locals] /\ \A t \in Thread : call[t].pc = "idle"
      BY <2>1 DEF Init
    <3>2. counter \in 0 .. Usize - 1 /\ issued \in Seq(Entry)
      BY TokenSignerAssumption DEF Init
    <3> QED BY <3>1, <3>2 DEF Init, TypeInv
  <2>3. UsedInv /\ SaysInv /\ DifferInv
    BY DEF Init, UsedInv, SaysInv, DifferInv
  <2>4. BelowInv /\ HeldInv
    BY <2>1 DEF Init, BelowInv, HeldInv
  <2> QED BY <2>2, <2>3, <2>4 DEF Inv
<1>2. Inv /\ [Next]_vars => Inv'
  <2> SUFFICES ASSUME Inv, [Next]_vars PROVE Inv'
    OBVIOUS
  <2>1. ASSUME NEW t \in Thread, NEW g \in Grant, NEW until \in 0 .. MaxTime,
               IssueBegin(t, g, until)
        PROVE  Inv'
    <3> DEFINE c == [pc |-> "first", grant |-> g, first |-> 0,
                     until |-> IF duration = Nil THEN until ELSE now + duration]
    <3>1. call' = [call EXCEPT ![t] = c]
      BY <2>1 DEF IssueBegin
    <3>2. c \in Locals /\ c.pc = "first" /\ c.grant = g
      BY TokenSignerAssumption DEF Inv, TypeInv, Locals
    <3> HIDE DEF c
    <3>3. call \in [Thread -> Locals]
      BY DEF Inv, TypeInv
    <3>4. call' \in [Thread -> Locals] /\ call'[t] = c
          /\ \A u \in Thread : u # t => call'[u] = call[u]
      BY <3>1, <3>2, <3>3
    <3>5. TypeInv'
      BY <2>1, <3>2, <3>4 DEF Inv, TypeInv, IssueBegin, signer
    <3> QED BY <2>1, <3>2, <3>4, <3>5, Untouched DEF IssueBegin, signer
  <2>2. ASSUME NEW t \in Thread, FirstCounter(t)
        PROVE  Inv'
    <3>1. CASE haveRefresh
      BY <2>2, <3>1, FirstKept DEF FirstCounter
    <3>2. CASE ~haveRefresh
      <4>1. counter \in 0 .. Usize - 1
        BY DEF Inv, TypeInv
      <4> QED BY <2>2, <3>2, <4>1, AnswerKeeps DEF FirstCounter, AsToken
    <3> QED BY <3>1, <3>2
  <2>3. ASSUME NEW t \in Thread, SecondCounter(t)
        PROVE  Inv'
    <3>1. call[t].first \in 0 .. Usize - 1
      BY DEF Inv, TypeInv, Locals
    <3> QED BY <2>3, <3>1, AnswerKeeps DEF SecondCounter, AsToken, AsRefresh
  <2>4. ASSUME NEW d \in Durations \cup {Nil}, ValidFor(d)
        PROVE  Inv'
    <3>1. TypeInv'
      BY <2>4 DEF Inv, TypeInv, ValidFor
    <3> QED BY <2>4, <3>1, Untouched DEF ValidFor
  <2>5. ASSUME NEW b \in BOOLEAN, GenerateRefreshTokens(b)
        PROVE  Inv'
    <3>1. TypeInv'
      BY <2>5 DEF Inv, TypeInv, GenerateRefreshTokens
    <3> QED BY <2>5, <3>1, Untouched DEF GenerateRefreshTokens
  <2>6. ASSUME NEW k \in Key, New(k)
        PROVE  Inv'
    BY <2>6, NewKeeps
  <2>7. CASE Tick
    <3>1. TypeInv'
      BY <2>7 DEF Inv, TypeInv, Tick, signer
    <3> QED BY <2>7, <3>1, Untouched DEF Tick, signer
  <2>8. CASE UNCHANGED vars
    <3>1. TypeInv'
      BY <2>8 DEF Inv, TypeInv, vars, signer
    <3> QED BY <2>8, <3>1, Untouched DEF vars, signer
  <2> QED BY <2>1, <2>2, <2>3, <2>4, <2>5, <2>6, <2>7, <2>8 DEF Next
<1> QED BY <1>1, <1>2, PTL DEF Spec

\* No two calls of issue return the same string, unless the counter of the
\* key has started over.
THEOREM SignedTokensDiffer == Spec => []TokensDiffer
<1>1. Inv => TokensDiffer
  BY DEF Inv, DifferInv, SaysInv, TokensDiffer
<1> QED BY <1>1, SignerInvariant, PTL

----------------------------------------------------------------------------

\* Division by a second and multiplication lose less than a second.
LEMMA SecondsLost ==
  ASSUME NEW u \in Int
  PROVE  (u \div Second) * Second <= u /\ u < (u \div Second) * Second + Second
BY TokenSignerAssumption

\* A token stands for the grant it was issued for as long as the signer has
\* its key, and passes for nothing else.
THEOREM SignedTokensAreRecovered == Spec => []RecoveredIsIssued
<1>1. ASSUME Inv, NEW i \in DOMAIN issued, issued[i].token.key = key
      PROVE  LET e == issued[i] IN
             /\ RecoverToken(e.token) # Nil
             /\ RecoverToken(e.token).grant = e.grant
             /\ Rounded(RecoverToken(e.token), e.until)
             /\ RecoverRefresh(e.token) = Nil
             /\ e.refresh # Nil =>
                  /\ RecoverToken(e.refresh) = Nil
                  /\ haveRefresh => /\ RecoverRefresh(e.refresh) # Nil
                                    /\ RecoverRefresh(e.refresh).grant = e.grant
                                    /\ Rounded(RecoverRefresh(e.refresh), e.until)
  <2> DEFINE e == issued[i]
             r == [grant |-> e.grant, until |-> (e.until \div Second) * Second]
  <2>1. e.grant \in Grant /\ e.until \in Int
    <3>1. e \in Entry
      BY <1>1 DEF Inv, TypeInv
    <3> QED BY <3>1 DEF Entry
  <2>2. (e.until \div Second) * Second \in Int
    BY <2>1, TokenSignerAssumption
  <2>3. r # Nil /\ r.grant = e.grant /\ r.until = (e.until \div Second) * Second
    BY <2>1, <2>2, TokenSignerAssumption
  <2>4. Rounded(r, e.until)
    BY <2>1, <2>3, SecondsLost DEF Rounded
  <2>5. RecoverToken(e.token) = r /\ RecoverRefresh(e.token) = Nil
    BY <1>1 DEF Inv, SaysInv, RecoverToken, RecoverRefresh, Extract
  <2>6. e.refresh # Nil =>
          RecoverToken(e.refresh) = Nil /\ (haveRefresh => RecoverRefresh(e.refresh) = r)
    BY <1>1 DEF Inv, SaysInv, RecoverToken, RecoverRefresh, Extract
  <2> HIDE DEF r
  <2> QED BY <2>3, <2>4, <2>5, <2>6
<1>2. Inv => RecoveredIsIssued
  BY <1>1 DEF RecoveredIsIssued
<1> QED BY <1>2, SignerInvariant, PTL
=============================================================================
