---------------------------- MODULE AddonsProof -----------------------------
(***************************************************************************)
(* Theorems about Addons, for every set of addons and identifiers, lists of  *)
(* every length, and any number of codes and restarts.                       *)
(***************************************************************************)
EXTENDS Addons, TLAPS

Heard == [addon : Addon, given : Value \cup {Nil}, answer : AddonResult]

\* Entry i of a log is data for identifier x.
DataAt(log, i, x) == log[i].answer \in Value /\ Identifier(log[i].addon) = x

\* v is the last data for x in a log: LastData without CHOOSE.
IsLast(log, x, v) ==
  \/ v = Nil /\ \A i \in DOMAIN log : ~DataAt(log, i, x)
  \/ \E i \in DOMAIN log : /\ DataAt(log, i, x) /\ v = log[i].answer
                           /\ \A j \in DOMAIN log : DataAt(log, j, x) => j <= i

\* An addon with identifier x was asked.
Asked(log, x) == \E i \in DOMAIN log : Identifier(log[i].addon) = x

TypeInv ==
  /\ authorization \in Seq(Addon) /\ accessToken \in Seq(Addon)
  /\ store \in [Code -> Extensions \cup {Nil}]
  /\ task \in Task \cup {Nil}
  /\ stored \in [Code -> Seq(Heard)]
  /\ source \in Seq(Heard)
  /\ heard \in Seq(Heard)

\* What is stored with a code is what its addons answered.
StoreInv == \A c \in Code, x \in Ident : store[c] # Nil => IsLast(stored[c], x, store[c][x])

\* What a call has collected so far.
ResultInv == task # Nil => \A x \in Ident : IsLast(heard, x, task.result[x])

\* What is left of the data of the code for those not asked yet.
DataInv ==
  task # Nil /\ task.kind = "access_token" =>
    \A x \in Ident : IF Asked(heard, x) THEN task.data[x] = Nil
                     ELSE IsLast(source, x, task.data[x])

\* What the addons asked so far were given.
GivenInv ==
  task # Nil /\ task.kind = "access_token" =>
    \A i \in DOMAIN heard :
      LET x == Identifier(heard[i].addon) IN
      IF \E j \in 1 .. i - 1 : Identifier(heard[j].addon) = x
      THEN heard[i].given = Nil
      ELSE IsLast(source, x, heard[i].given)

List(kind) == IF kind = "authorization" THEN authorization ELSE accessToken

\* A call that has not failed has asked the first addons of its list, and the
\* others are left.
ListInv ==
  task # Nil /\ task.state # "err" =>
    /\ \A i \in DOMAIN heard : /\ heard[i].answer # "Err"
                               /\ heard[i].addon = List(task.kind)[i]
    /\ Len(heard) + Len(task.rest) = Len(List(task.kind))
    /\ \A i \in 1 .. Len(task.rest) : task.rest[i] = List(task.kind)[Len(heard) + i]
    /\ task.state = "ok" => task.rest = <<>>

Inv == TypeInv /\ StoreInv /\ ResultInv /\ DataInv /\ GivenInv /\ ListInv

----------------------------------------------------------------------------
(* Logs *)

\* An empty log has no data.
LEMMA LastOfNone ==
  ASSUME NEW x
  PROVE  IsLast(<<>>, x, Nil)
BY DEF IsLast

\* A log grows by one entry.
LEMMA LogGrows ==
  ASSUME NEW log \in Seq(Heard), NEW e \in Heard
  PROVE  /\ Append(log, e) \in Seq(Heard)
         /\ Len(log) \in Nat /\ Len(Append(log, e)) = Len(log) + 1
         /\ DOMAIN log = 1 .. Len(log)
         /\ DOMAIN Append(log, e) = 1 .. Len(log) + 1
         /\ \A i \in DOMAIN log : Append(log, e)[i] = log[i]
         /\ Append(log, e)[Len(log) + 1] = e
OBVIOUS

\* The last data of a log that has grown.
LEMMA LastGrows ==
  ASSUME NEW log \in Seq(Heard), NEW e \in Heard, NEW x, NEW v, IsLast(log, x, v)
  PROVE  IsLast(Append(log, e), x,
                IF e.answer \in Value /\ Identifier(e.addon) = x THEN e.answer ELSE v)
<1> DEFINE new == Append(log, e)
           n == Len(log) + 1
<1>1. /\ Len(log) \in Nat /\ DOMAIN log = 1 .. Len(log) /\ DOMAIN new = 1 .. n
      /\ \A i \in DOMAIN log : new[i] = log[i]
      /\ new[n] = e
  BY LogGrows
<1> HIDE DEF new
<1>2. /\ n \in Nat /\ n \in DOMAIN new /\ n \notin DOMAIN log
      /\ \A i \in DOMAIN new : i = n \/ i \in DOMAIN log
      /\ \A i \in DOMAIN log : i \in DOMAIN new /\ i <= n
  BY <1>1
<1> HIDE DEF n
<1>3. \A i \in DOMAIN log : DataAt(new, i, x) = DataAt(log, i, x)
  BY <1>1 DEF DataAt
<1>4. DataAt(new, n, x) = (e.answer \in Value /\ Identifier(e.addon) = x)
  BY <1>1 DEF DataAt
<1>5. CASE e.answer \in Value /\ Identifier(e.addon) = x
  <2>1. \A j \in DOMAIN new : j <= n
    BY <1>2
  <2>2. IsLast(new, x, e.answer)
    BY <1>1, <1>2, <1>4, <1>5, <2>1 DEF IsLast
  <2> QED BY <1>5, <2>2 DEF new
<1>6. CASE ~(e.answer \in Value /\ Identifier(e.addon) = x)
  <2>1. IsLast(new, x, v)
    <3>1. CASE v = Nil /\ \A i \in DOMAIN log : ~DataAt(log, i, x)
      BY <1>2, <1>3, <1>4, <1>6, <3>1 DEF IsLast
    <3>2. CASE \E i \in DOMAIN log : /\ DataAt(log, i, x) /\ v = log[i].answer
                                     /\ \A j \in DOMAIN log : DataAt(log, j, x) => j <= i
      <4>1. PICK i \in DOMAIN log : /\ DataAt(log, i, x) /\ v = log[i].answer
                                    /\ \A j \in DOMAIN log : DataAt(log, j, x) => j <= i
        BY <3>2
      <4>2. i \in DOMAIN new /\ DataAt(new, i, x) /\ v = new[i].answer
        BY <1>1, <1>2, <1>3, <4>1
      <4>3. \A j \in DOMAIN new : DataAt(new, j, x) => j <= i
        BY <1>2, <1>3, <1>4, <1>6, <4>1
      <4> QED BY <4>2, <4>3 DEF IsLast
    <3> QED BY <3>1, <3>2 DEF IsLast
  <2> QED BY <1>6, <2>1 DEF new
<1> QED BY <1>5, <1>6

\* IsLast is what LastData computes.
LEMMA LastIsLastData ==
  ASSUME NEW log \in Seq(Heard), NEW x, NEW v, IsLast(log, x, v)
  PROVE  LastData(log, x) = v
<1> DEFINE at == {i \in DOMAIN log : log[i].answer \in Value /\ Identifier(log[i].addon) = x}
<1>1. DOMAIN log \subseteq Nat
  OBVIOUS
<1>2. CASE v = Nil /\ \A i \in DOMAIN log : ~DataAt(log, i, x)
  <2>1. at = {}
    BY <1>2 DEF DataAt
  <2> QED BY <1>2, <2>1 DEF LastData
<1>3. CASE \E i \in DOMAIN log : /\ DataAt(log, i, x) /\ v = log[i].answer
                                 /\ \A j \in DOMAIN log : DataAt(log, j, x) => j <= i
  <2>1. PICK i \in DOMAIN log : /\ DataAt(log, i, x) /\ v = log[i].answer
                                /\ \A j \in DOMAIN log : DataAt(log, j, x) => j <= i
    BY <1>3
  <2>2. i \in at /\ \A j \in at : j <= i
    BY <2>1 DEF DataAt
  <2> DEFINE m == CHOOSE k \in at : \A j \in at : j <= k
  <2>3. m \in at /\ \A j \in at : j <= m
    BY <2>2
  <2>4. m = i
    BY <1>1, <2>2, <2>3
  <2>5. LastData(log, x) = log[m].answer
    BY <2>2 DEF LastData
  <2> QED BY <2>1, <2>4, <2>5
<1> QED BY <1>2, <1>3 DEF IsLast

----------------------------------------------------------------------------
(* The actions *)

\* Nothing is being done: the calls of the past are forgotten.
LEMMA Forgotten ==
  ASSUME Inv, Forget, authorization' \in Seq(Addon), accessToken' \in Seq(Addon),
         store' = store, stored' = stored
  PROVE  Inv'
<1>1. task' = Nil /\ source' = <<>> /\ heard' = <<>>
  BY DEF Forget
<1>2. TypeInv'
  BY <1>1 DEF Inv, TypeInv
<1>3. StoreInv'
  BY DEF Inv, StoreInv
<1>4. ResultInv' /\ DataInv' /\ GivenInv' /\ ListInv'
  BY <1>1 DEF ResultInv, DataInv, GivenInv, ListInv
<1> QED BY <1>2, <1>3, <1>4 DEF Inv

\* A call begins with an empty log.
LEMMA Begins ==
  ASSUME Inv, NEW kind \in {"authorization", "access_token"}, NEW c \in Code,
         NEW data \in Extensions,
         task' = [kind |-> kind, state |-> "running", code |-> c,
                  rest |-> List(kind), data |-> data, result |-> NoExtensions],
         heard' = <<>>, source' \in Seq(Heard),
         authorization' = authorization, accessToken' = accessToken,
         store' \in [Code -> Extensions \cup {Nil}], stored' \in [Code -> Seq(Heard)],
         StoreInv',
         kind = "access_token" => \A x \in Ident : IsLast(source', x, data[x])
  PROVE  Inv'
<1>1. NoExtensions \in Extensions /\ \A x \in Ident : NoExtensions[x] = Nil
  BY DEF NoExtensions, Extensions
<1>2. List(kind) \in Seq(Addon) /\ List(kind)' = List(kind)
  BY DEF List, Inv, TypeInv
<1>3. /\ task' \in Task /\ task'.kind = kind /\ task'.state = "running"
      /\ task'.rest = List(kind) /\ task'.data = data /\ task'.result = NoExtensions
  BY <1>1, <1>2 DEF Task
<1>4. heard' = <<>> /\ DOMAIN heard' = {} /\ Len(heard') = 0
  OBVIOUS
<1>5. TypeInv'
  BY <1>3 DEF Inv, TypeInv
<1>6. ResultInv'
  BY <1>1, <1>3, <1>4, LastOfNone DEF ResultInv
<1>7. DataInv'
  BY <1>3, <1>4 DEF DataInv, Asked
<1>8. GivenInv'
  BY <1>4 DEF GivenInv
<1>9. ListInv'
  <2>1. List(task.kind)' = List(kind)
    BY <1>2, <1>3 DEF List
  <2>2. Len(heard') + Len(List(kind)) = Len(List(kind))
        /\ \A i \in 1 .. Len(List(kind)) : Len(heard') + i = i
    BY <1>2, <1>4
  <2> QED BY <1>3, <1>4, <2>1, <2>2 DEF ListInv
<1> QED BY <1>5, <1>6, <1>7, <1>8, <1>9 DEF Inv

\* An addon is asked: what this does to the log, the list and the result.
LEMMA Asks ==
  ASSUME Inv, Running, task.rest # <<>>, NEW answer \in AddonResult, NEW data \in Extensions,
         NEW given \in Value \cup {Nil}, Proceed(Head(task.rest), answer, data),
         heard' = Append(heard, [addon |-> Head(task.rest), given |-> given, answer |-> answer]),
         authorization' = authorization, accessToken' = accessToken,
         store' = store, stored' = stored, source' = source
  PROVE  TypeInv' /\ StoreInv' /\ ResultInv' /\ ListInv'
         /\ task'.kind = task.kind /\ task'.data = data
<1> DEFINE a == Head(task.rest)
           x == Identifier(a)
           e == [addon |-> a, given |-> given, answer |-> answer]
           result == IF answer \in Value THEN [task.result EXCEPT ![x] = answer] ELSE task.result
           state == IF answer = "Err" THEN "err" ELSE "running"
           list == List(task.kind)
<1>1. task \in Task /\ task # Nil /\ task.state = "running"
  BY DEF Running, Inv, TypeInv
<1>2. /\ task.rest \in Seq(Addon) /\ task.result \in Extensions
      /\ task.kind \in {"authorization", "access_token"}
  BY <1>1 DEF Task
<1>3. /\ a \in Addon /\ a = task.rest[1] /\ Tail(task.rest) \in Seq(Addon)
      /\ Len(task.rest) \in Nat \ {0} /\ Len(Tail(task.rest)) = Len(task.rest) - 1
      /\ \A i \in 1 .. Len(task.rest) - 1 : Tail(task.rest)[i] = task.rest[i + 1]
  BY <1>2
<1>4. x \in Ident
  BY <1>3, AddonsAssumption
<1>5. e \in Heard /\ e.addon = a /\ e.answer = answer
  BY <1>3 DEF Heard
<1>6. result \in Extensions
      /\ \A y \in Ident : result[y] = IF answer \in Value /\ x = y THEN answer ELSE task.result[y]
  BY <1>2, <1>4 DEF Extensions
<1>7. task' = [task EXCEPT !.state = state, !.rest = Tail(task.rest), !.data = data,
                           !.result = result]
  BY DEF Proceed
<1>8. state \in {"running", "err"} /\ (state # "err" <=> answer # "Err")
  OBVIOUS
<1> HIDE DEF state, result
<1>9. /\ task' \in Task /\ task'.kind = task.kind /\ task'.state = state
      /\ task'.rest = Tail(task.rest) /\ task'.data = data /\ task'.result = result
  BY <1>1, <1>3, <1>6, <1>7, <1>8 DEF Task
<1>10. heard \in Seq(Heard) /\ heard' = Append(heard, e)
  BY DEF Inv, TypeInv
<1> HIDE DEF e
<1>11. /\ heard' \in Seq(Heard) /\ Len(heard) \in Nat /\ Len(heard') = Len(heard) + 1
       /\ DOMAIN heard = 1 .. Len(heard) /\ DOMAIN heard' = 1 .. Len(heard) + 1
       /\ \A i \in DOMAIN heard : heard'[i] = heard[i]
       /\ heard'[Len(heard) + 1] = e
  BY <1>5, <1>10, LogGrows
<1>12. TypeInv'
  BY <1>9, <1>11 DEF Inv, TypeInv
<1>13. StoreInv'
  BY DEF Inv, StoreInv
<1>14. ResultInv'
  <2> SUFFICES ASSUME NEW y \in Ident PROVE IsLast(heard', y, result[y])
    BY <1>9 DEF ResultInv
  <2>1. IsLast(heard, y, task.result[y])
    BY <1>1 DEF Inv, ResultInv
  <2>2. IsLast(heard', y, IF e.answer \in Value /\ Identifier(e.addon) = y THEN e.answer
                          ELSE task.result[y])
    BY <1>5, <1>10, <2>1, LastGrows
  <2> QED BY <1>5, <1>6, <2>2
<1>15. ListInv'
  <2>1. List(task.kind)' = list
    BY <1>9 DEF List
  <2> HIDE DEF list
  <2>2. /\ \A i \in DOMAIN heard : heard[i].answer # "Err" /\ heard[i].addon = list[i]
        /\ Len(heard) + Len(task.rest) = Len(list)
        /\ \A i \in 1 .. Len(task.rest) : task.rest[i] = list[Len(heard) + i]
    BY <1>1 DEF Inv, ListInv, list
  <2>3. a = list[Len(heard) + 1]
    BY <1>3, <2>2
  <2>4. answer # "Err" =>
          \A i \in DOMAIN heard' : heard'[i].answer # "Err" /\ heard'[i].addon = list[i]
    <3>1. \A i \in DOMAIN heard' : i \in DOMAIN heard \/ i = Len(heard) + 1
      BY <1>11
    <3> QED BY <1>5, <1>11, <2>2, <2>3, <3>1
  <2>5. Len(list) \in Nat
    BY <1>2 DEF list, List, Inv, TypeInv
  <2>6. Len(heard') + Len(task'.rest) = Len(list)
    <3>1. Len(task'.rest) \in Nat /\ Len(task.rest) = Len(task'.rest) + 1
      BY <1>2, <1>3, <1>9
    <3>2. Len(heard') = Len(heard) + 1 /\ Len(heard) \in Nat /\ Len(task.rest) \in Nat
      BY <1>3, <1>11
    <3>3. Len(heard) + Len(task.rest) = Len(list)
      BY <2>2
    <3> DEFINE h == Len(heard)
               r == Len(task'.rest)
               l == Len(list)
    <3>4. h \in Nat /\ r \in Nat /\ l \in Nat /\ h + (r + 1) = l
      BY <2>5, <3>1, <3>2, <3>3, Zenon
    <3> HIDE DEF h, r, l
    <3>5. (h + 1) + r = l
      BY <3>4
    <3> QED BY <3>2, <3>5, Zenon DEF h, r, l
  <2>7. \A i \in 1 .. Len(task'.rest) : task'.rest[i] = list[Len(heard') + i]
    <3> SUFFICES ASSUME NEW i \in 1 .. Len(task.rest) - 1
                 PROVE  Tail(task.rest)[i] = list[Len(heard') + i]
      BY <1>3, <1>9
    <3>1. i \in Nat /\ i + 1 \in 1 .. Len(task.rest) /\ Len(heard') + i = Len(heard) + (i + 1)
      BY <1>3, <1>11
    <3> QED BY <1>3, <2>2, <3>1
  <2>8. task'.state # "ok"
    BY <1>8, <1>9
  <2> QED BY <1>8, <1>9, <2>1, <2>4, <2>6, <2>7, <2>8 DEF ListInv
<1> QED BY <1>9, <1>12, <1>13, <1>14, <1>15

\* An authorization addon is asked.
LEMMA AuthorizationAddonKeeps ==
  ASSUME Inv, NEW answer \in AddonResult, AuthorizationAddon(answer)
  PROVE  Inv'
<1>1. task \in Task /\ task.data \in Extensions /\ task.kind = "authorization"
  BY DEF AuthorizationAddon, Running, Inv, TypeInv, Task
<1>2. TypeInv' /\ StoreInv' /\ ResultInv' /\ ListInv' /\ task'.kind = "authorization"
  BY <1>1, Asks DEF AuthorizationAddon, lists
<1> QED BY <1>2 DEF Inv, DataInv, GivenInv

\* An access token addon is asked: it takes the data of its identifier.
LEMMA AccessTokenAddonKeeps ==
  ASSUME Inv, NEW answer \in AddonResult, AccessTokenAddon(answer)
  PROVE  Inv'
<1> DEFINE a == Head(task.rest)
           x == Identifier(a)
           given == task.data[x]
           data == [task.data EXCEPT ![x] = Nil]
           e == [addon |-> a, given |-> given, answer |-> answer]
<1>1. /\ task \in Task /\ task # Nil /\ task.data \in Extensions /\ task.rest \in Seq(Addon)
      /\ task.kind = "access_token" /\ task.rest # <<>>
  BY DEF AccessTokenAddon, Running, Inv, TypeInv, Task
<1>2. a \in Addon /\ x \in Ident
  BY <1>1, AddonsAssumption
<1>3. /\ given \in Value \cup {Nil} /\ data \in Extensions
      /\ \A y \in Ident : data[y] = IF y = x THEN Nil ELSE task.data[y]
  BY <1>1, <1>2 DEF Extensions
<1>4. /\ Running /\ Proceed(a, answer, data) /\ heard' = Append(heard, e)
      /\ authorization' = authorization /\ accessToken' = accessToken
      /\ store' = store /\ stored' = stored /\ source' = source
  BY DEF AccessTokenAddon, lists
<1>5. e \in Heard /\ e.addon = a /\ e.given = given
  BY <1>2, <1>3 DEF Heard
<1> HIDE DEF data, given
<1>6. /\ TypeInv' /\ StoreInv' /\ ResultInv' /\ ListInv'
      /\ task'.kind = "access_token" /\ task'.data = data
  BY <1>1, <1>3, <1>4, Asks
<1> HIDE DEF e, x
<1>7. heard \in Seq(Heard)
  BY DEF Inv, TypeInv
<1>8. /\ Len(heard) \in Nat /\ DOMAIN heard = 1 .. Len(heard)
      /\ DOMAIN heard' = 1 .. Len(heard) + 1
      /\ \A i \in DOMAIN heard : heard'[i] = heard[i]
      /\ heard'[Len(heard) + 1] = e
  BY <1>4, <1>5, <1>7, LogGrows
<1>9. \A y : Asked(heard', y) <=> Asked(heard, y) \/ y = x
  <2>1. \A i \in DOMAIN heard' : i \in DOMAIN heard \/ i = Len(heard) + 1
    BY <1>8
  <2>2. Len(heard) + 1 \in DOMAIN heard' /\ DOMAIN heard \subseteq DOMAIN heard'
    BY <1>8
  <2> QED BY <1>5, <1>8, <2>1, <2>2 DEF Asked, x
<1>10. \A y \in Ident : IF Asked(heard, y) THEN task.data[y] = Nil
                        ELSE IsLast(source, y, task.data[y])
  BY <1>1 DEF Inv, DataInv
<1>11. DataInv'
  BY <1>3, <1>4, <1>6, <1>9, <1>10 DEF DataInv
<1>12. GivenInv'
  <2> SUFFICES ASSUME NEW i \in DOMAIN heard'
               PROVE  IF \E j \in 1 .. i - 1 : Identifier(heard'[j].addon)
                                                 = Identifier(heard'[i].addon)
                      THEN heard'[i].given = Nil
                      ELSE IsLast(source', Identifier(heard'[i].addon), heard'[i].given)
    BY DEF GivenInv
  <2>1. CASE i \in DOMAIN heard
    <3>1. \A j \in 1 .. i - 1 : j \in DOMAIN heard /\ heard'[j] = heard[j]
      BY <1>8, <2>1
    <3>2. IF \E j \in 1 .. i - 1 : Identifier(heard[j].addon) = Identifier(heard[i].addon)
          THEN heard[i].given = Nil
          ELSE IsLast(source, Identifier(heard[i].addon), heard[i].given)
      BY <1>1, <2>1 DEF Inv, GivenInv
    <3> QED BY <1>4, <1>8, <2>1, <3>1, <3>2
  <2>2. CASE i = Len(heard) + 1
    <3>1. heard'[i] = e /\ Identifier(heard'[i].addon) = x /\ heard'[i].given = given
      BY <1>5, <1>8, <2>2 DEF x
    <3>2. 1 .. i - 1 = DOMAIN heard
      BY <1>8, <2>2
    <3>3. (\E j \in 1 .. i - 1 : Identifier(heard'[j].addon) = x) <=> Asked(heard, x)
      BY <1>8, <3>2 DEF Asked
    <3>4. IF Asked(heard, x) THEN given = Nil ELSE IsLast(source, x, given)
      BY <1>2, <1>10 DEF given
    <3> QED BY <1>4, <3>1, <3>3, <3>4
  <2> QED BY <1>8, <2>1, <2>2
<1> QED BY <1>6, <1>11, <1>12 DEF Inv

\* A call that has asked all addons passes.
LEMMA FinishKeeps ==
  ASSUME Inv, Finish
  PROVE  Inv'
<1>1. /\ task \in Task /\ task # Nil /\ task.state = "running" /\ task.rest = <<>>
      /\ task' = [task EXCEPT !.state = "ok"]
      /\ authorization' = authorization /\ accessToken' = accessToken
      /\ source' = source /\ heard' = heard
  BY DEF Finish, Running, lists, Inv, TypeInv
<1>2. /\ task' \in Task /\ task'.state = "ok" /\ task'.kind = task.kind
      /\ task'.rest = <<>> /\ task'.data = task.data /\ task'.result = task.result
  BY <1>1 DEF Task
<1>3. task.code \in Code /\ task.result \in Extensions
  BY <1>1 DEF Task
<1>4. /\ store' \in [Code -> Extensions \cup {Nil}] /\ stored' \in [Code -> Seq(Heard)]
      /\ \A c \in Code : \/ store'[c] = store[c] /\ stored'[c] = stored[c]
                         \/ store'[c] = task.result /\ stored'[c] = heard
  BY <1>3 DEF Finish, Inv, TypeInv
<1>5. TypeInv'
  BY <1>1, <1>2, <1>4 DEF Inv, TypeInv
<1>6. StoreInv'
  BY <1>1, <1>4 DEF Inv, StoreInv, ResultInv
<1>7. ResultInv'
  BY <1>1, <1>2 DEF Inv, ResultInv
<1>8. DataInv' /\ GivenInv'
  BY <1>1, <1>2 DEF Inv, DataInv, GivenInv
<1>9. ListInv'
  <2>1. List(task.kind)' = List(task.kind)
    BY <1>1, <1>2 DEF List
  <2> QED BY <1>1, <1>2, <2>1 DEF Inv, ListInv
<1> QED BY <1>5, <1>6, <1>7, <1>8, <1>9 DEF Inv

----------------------------------------------------------------------------

\* Inv is an invariant of extend, with lists that change between the calls.
THEOREM AddonsInvariant == Spec => []Inv
<1>1. Init => Inv
  BY DEF Init, Inv, TypeInv, StoreInv, ResultInv, DataInv, GivenInv, ListInv
<1>2. Inv /\ [Next]_vars => Inv'
  <2> SUFFICES ASSUME Inv, [Next]_vars PROVE Inv'
    OBVIOUS
  <2> USE DEF Inv, TypeInv
  <2>1. ASSUME NEW a \in Addon, PushAuthorization(a) \/ PushAccessToken(a) \/ PushCode(a)
        PROVE  Inv'
    <3>1. Append(authorization, a) \in Seq(Addon) /\ Append(accessToken, a) \in Seq(Addon)
      OBVIOUS
    <3>2. ASSUME NEW auth \in Seq(Addon), NEW access \in Seq(Addon), Push(auth, access)
          PROVE  Inv'
      BY <3>2, Forgotten DEF Push
    <3> QED BY <2>1, <3>1, <3>2 DEF PushAuthorization, PushAccessToken, PushCode
  <2>2. CASE Restart
    BY <2>2, Forgotten DEF Restart
  <2>3. ASSUME NEW c \in Code, AuthorizationBegin(c) PROVE Inv'
    <3>1. List("authorization") = authorization /\ NoExtensions \in Extensions
      BY DEF List, NoExtensions, Extensions
    <3>2. StoreInv'
      BY <2>3 DEF AuthorizationBegin, StoreInv
    <3>3. source' \in Seq(Heard)
      BY <2>3 DEF AuthorizationBegin
    <3> QED BY <2>3, <3>1, <3>2, <3>3, Begins DEF AuthorizationBegin, lists
  <2>4. ASSUME NEW c \in Code, AccessTokenBegin(c) PROVE Inv'
    <3>1. List("access_token") = accessToken /\ store[c] \in Extensions
      BY <2>4 DEF List, AccessTokenBegin
    <3>2. /\ store' = [store EXCEPT ![c] = Nil] /\ stored' = [stored EXCEPT ![c] = <<>>]
          /\ source' = stored[c]
      BY <2>4 DEF AccessTokenBegin
    <3>3. /\ store' \in [Code -> Extensions \cup {Nil}] /\ stored' \in [Code -> Seq(Heard)]
          /\ source' \in Seq(Heard)
          /\ \A d \in Code : store'[d] = Nil \/ (store'[d] = store[d] /\ stored'[d] = stored[d])
      BY <3>2
    <3>4. StoreInv'
      BY <3>3 DEF StoreInv
    <3>5. \A x \in Ident : IsLast(source', x, store[c][x])
      BY <2>4, <3>2 DEF StoreInv, AccessTokenBegin
    <3> QED BY <2>4, <3>1, <3>3, <3>4, <3>5, Begins DEF AccessTokenBegin, lists
  <2>5. ASSUME NEW r \in AddonResult, AuthorizationAddon(r) PROVE Inv'
    BY <2>5, AuthorizationAddonKeeps
  <2>6. ASSUME NEW r \in AddonResult, AccessTokenAddon(r) PROVE Inv'
    BY <2>6, AccessTokenAddonKeeps
  <2>7. CASE Finish
    BY <2>7, FinishKeeps
  <2>8. CASE UNCHANGED vars
    BY <2>8 DEF vars, lists, history, StoreInv, ResultInv, DataInv, GivenInv, ListInv, List
  <2> QED BY <2>1, <2>2, <2>3, <2>4, <2>5, <2>6, <2>7, <2>8 DEF Next
<1> QED BY <1>1, <1>2, PTL DEF Spec

\* An access token addon gets the last data of its identifier that was stored
\* with this code, and only the first of those who share it does.
THEOREM AddonsGetTheirData == Spec => []GivenIsStored
<1>1. Inv => GivenIsStored
  BY LastIsLastData DEF Inv, TypeInv, GivenInv, GivenIsStored
<1> QED BY <1>1, AddonsInvariant, PTL

\* What a request attaches to its grant was answered by the addons of the
\* list, all of which were asked and none of which refused.
THEOREM GrantsCarryAnswers == Spec => []AttachedIsAnswered
<1>1. ASSUME Inv, task # Nil, task.state = "ok"
      PROVE  /\ \A i \in DOMAIN heard : heard[i].answer # "Err"
             /\ task.result = [x \in Ident |-> LastData(heard, x)]
             /\ Len(heard) = Len(List(task.kind))
             /\ \A i \in DOMAIN heard : heard[i].addon = List(task.kind)[i]
  <2>1. task \in Task /\ heard \in Seq(Heard) /\ task.result \in Extensions
    BY <1>1 DEF Inv, TypeInv, Task
  <2>2. \A x \in Ident : task.result[x] = LastData(heard, x)
    BY <1>1, <2>1, LastIsLastData DEF Inv, ResultInv
  <2>3. task.result = [x \in Ident |-> LastData(heard, x)]
    BY <2>1, <2>2 DEF Extensions
  <2>4. /\ \A i \in DOMAIN heard : heard[i].answer # "Err" /\ heard[i].addon = List(task.kind)[i]
        /\ Len(heard) + Len(task.rest) = Len(List(task.kind)) /\ task.rest = <<>>
    BY <1>1 DEF Inv, ListInv
  <2>5. Len(heard) \in Nat /\ Len(<<>>) = 0
    BY <2>1
  <2> QED BY <2>3, <2>4, <2>5
<1>2. Inv => AttachedIsAnswered
  BY <1>1 DEF AttachedIsAnswered, List
<1> QED BY <1>2, AddonsInvariant, PTL
=============================================================================
