-------------------------- MODULE DbRegistrarProof --------------------------
(***************************************************************************)
(* Theorems about DbRegistrar, for every number of instances, clients, rows, *)
(* replicas, lookups and changes: which row a lookup answers from.           *)
(***************************************************************************)
EXTENDS DbRegistrar, TLAPS

RowOrNil == Row \cup {Nil}

Task == [chan : Nat, client : Client, row : RowOrNil, at : {"asked", "answered", "failed"}]

\* Every replica has some version of every row.
TableInv ==
  /\ table \in [Client -> Seq(RowOrNil)]
  /\ applied \in [Replica -> [Client -> Nat]]
  /\ \A n \in Replica, c \in Client : applied[n][c] \in 1 .. Len(table[c])

StoreInv ==
  /\ TableInv
  /\ hash \in [Client -> RowOrNil]
  /\ strings \in [Client -> RowOrNil]
  /\ tasks \subseteq Task
  /\ calls \in Nat
  /\ DOMAIN known = Client

\* What a call of instance s consists of.
Shaped(o) ==
  /\ o = [pc |-> o.pc, call |-> o.call, chan |-> o.chan, row |-> o.row, hit |-> o.hit,
          failed |-> o.failed, result |-> o.result]
  /\ o.pc \in {"idle", "hget", "query", "hset", "done"}
  /\ o.call \in Call \cup {Nil}
  /\ o.pc # "idle" => o.call \in Call
  /\ o.chan \in Nat
  /\ o.row \in RowOrNil

ShapeInv ==
  /\ op = [s \in Server |-> op[s]]
  /\ \A s \in Server : Shaped(op[s])

\* All rows that can be answered were known: in the table, in the cache, and
\* on their way from one to the other.
KnownInv ==
  /\ \A c \in Client :
       /\ \A i \in 1 .. Len(table[c]) : table[c][i] # Nil => table[c][i] \in known[c]
       /\ hash[c] # Nil => hash[c] \in KnownFor(known, c)
  /\ \A t \in tasks : /\ t.row # Nil => t.row \in KnownFor(known, t.client)
                      /\ t.at # "answered" => t.row = Nil

\* Channels are not shared and not used again.
ChanInv ==
  /\ \A s \in Server : Busy(op[s]) => op[s].chan < calls
  /\ \A t \in tasks : t.chan < calls
  /\ \A s, u \in Server : s # u /\ Busy(op[s]) /\ Busy(op[u]) => op[s].chan # op[u].chan

\* The answer that instance s waits for is about its own client, and the row
\* was read while it waits; the row it stores is one scylla had meanwhile.
WaitInv(s) ==
  LET o == op[s] IN
  /\ o.pc = "hget" => \A t \in tasks : t.chan # o.chan
  /\ o.pc = "query" =>
       \A t \in tasks : t.chan = o.chan =>
         /\ t.client = o.call.client
         /\ t.at = "answered" => t.row \in during[s]
  /\ o.pc = "hset" => /\ o.row # Nil
                      /\ o.row \in KnownFor(known, o.call.client)
                      /\ o.row \in during[s]
  /\ Busy(o) /\ calm[s] => Nil \notin during[s]

\* The properties, instance by instance.
AnswerInv(s) ==
  LET o == op[s] IN
  o.pc = "done" =>
    /\ o.result # Nil \/ calm[s] => Answered(s, KnownFor(known, o.call.client))
    /\ o.result # Nil /\ ~o.hit => Answered(s, during[s])

Inv ==
  /\ StoreInv /\ ShapeInv /\ KnownInv /\ ChanInv
  /\ \A s \in Server : WaitInv(s) /\ AnswerInv(s)

----------------------------------------------------------------------------

\* Every call names a client.
LEMMA CallHasClient ==
  ASSUME NEW c \in Call
  PROVE  c.client \in Client
BY DEF Call

\* What is not found is answered with an error.
LEMMA NothingIsError ==
  ASSUME NEW call
  PROVE  Result(call, Nil) = Nil
BY DEF Result

\* A query answers with a row that was stored at some time, or with none.
LEMMA ReadableIsKnown ==
  ASSUME TableInv, KnownInv, NEW c \in Client, NEW row \in Readable(table, applied, c)
  PROVE  row \in RowOrNil /\ (row # Nil => row \in KnownFor(known, c))
<1>1. ASSUME NEW d \in Client, row \in Held(table, applied, d)
      PROVE  row \in RowOrNil /\ (row # Nil => row \in known[d])
  <2>1. PICK n \in Replica : row = table[d][applied[n][d]]
    BY <1>1 DEF Held
  <2>2. applied[n][d] \in 1 .. Len(table[d]) /\ table[d] \in Seq(RowOrNil)
    BY DEF TableInv
  <2>3. table[d][applied[n][d]] \in RowOrNil
    BY <2>2
  <2> QED BY <2>1, <2>2, <2>3 DEF KnownInv
<1>2. CASE c \in Literal
  BY <1>1, <1>2 DEF Readable, KnownFor
<1>3. CASE c \notin Literal
  BY <1>1, <1>3 DEF Readable, KnownFor, RowOrNil
<1> QED BY <1>2, <1>3

\* What was known stays known.
LEMMA KnownGrows ==
  ASSUME \A d \in Client : known[d] \subseteq known'[d], NEW c \in Client
  PROVE  KnownFor(known, c) \subseteq KnownFor(known', c)
BY DEF KnownFor

\* What Observe records of an instance.
LEMMA Observed ==
  ASSUME Observe, NEW s \in Server
  PROVE  /\ ~Busy(op[s]) /\ ~Busy(op'[s]) => during'[s] = during[s] /\ calm'[s] = calm[s]
         /\ Busy(op[s]) =>
              /\ during'[s] = during[s] \cup Readable(table', applied', op'[s].call.client)
              /\ calm'[s] = (calm[s] /\ ~op'[s].failed
                              /\ Fine(Readable(table', applied', op'[s].call.client),
                                      strings', hash', op'[s].call.client))
         /\ ~Busy(op[s]) /\ Busy(op'[s]) =>
              /\ during'[s] = Readable(table', applied', op'[s].call.client)
              /\ calm'[s] = Fine(Readable(table', applied', op'[s].call.client),
                                 strings', hash', op'[s].call.client)
BY DEF Observe

\* A lookup that nothing stood in the way of can only have found a row.
LEMMA CalmSees ==
  ASSUME Observe, NEW s \in Server, Busy(op[s]), calm'[s]
  PROVE  /\ calm[s] /\ ~op'[s].failed
         /\ HashUsable(strings')
         /\ Nil \notin Readable(table', applied', op'[s].call.client)
BY Observed DEF Fine

\* An instance that does nothing keeps what holds of it, if the tasks that
\* answer to it are those from before, perhaps with the row of this moment.
LEMMA Bystander ==
  ASSUME Inv, Observe, NEW s \in Server, op'[s] = op[s],
         \A c \in Client : known[c] \subseteq known'[c],
         \A t \in tasks' :
           \/ t \in tasks
           \/ Busy(op[s]) => t.chan # op[s].chan
           \/ \E u \in tasks : /\ t.chan = u.chan /\ t.client = u.client
                               /\ t.at = "answered" =>
                                    t.row \in Readable(table', applied', t.client)
  PROVE  WaitInv(s)' /\ AnswerInv(s)'
<1>1. Shaped(op[s]) /\ WaitInv(s) /\ AnswerInv(s)
  BY DEF Inv, ShapeInv
<1>2. op[s].pc # "idle" => op[s].call.client \in Client
  BY <1>1, CallHasClient DEF Shaped
<1>3. AnswerInv(s)'
  <2>1. op[s].pc = "done" => during'[s] = during[s] /\ calm'[s] = calm[s]
    BY Observed DEF Busy
  <2> QED BY <1>1, <1>2, <2>1, KnownGrows DEF AnswerInv, Answered
<1>4. CASE ~Busy(op[s])
  BY <1>3, <1>4 DEF WaitInv, Busy
<1>5. CASE Busy(op[s])
  <2>1. /\ during'[s] = during[s] \cup Readable(table', applied', op[s].call.client)
        /\ calm'[s] => calm[s] /\ Nil \notin Readable(table', applied', op[s].call.client)
    BY <1>5, Observed, CalmSees
  <2>2. op[s].pc = "hget" => \A t \in tasks' : t.chan # op[s].chan
    BY <1>1, <1>5 DEF WaitInv
  <2>3. op[s].pc = "query" =>
          \A t \in tasks' : t.chan = op[s].chan =>
            /\ t.client = op[s].call.client
            /\ t.at = "answered" => t.row \in during'[s]
    BY <1>1, <1>5, <2>1 DEF WaitInv
  <2>4. op[s].pc = "hset" => /\ op[s].row # Nil
                             /\ op[s].row \in KnownFor(known', op[s].call.client)
                             /\ op[s].row \in during'[s]
    BY <1>1, <1>2, <2>1, KnownGrows DEF WaitInv
  <2>5. calm'[s] => Nil \notin during'[s]
    BY <1>1, <1>5, <2>1 DEF WaitInv
  <2> QED BY <1>3, <2>2, <2>3, <2>4, <2>5 DEF WaitInv
<1> QED BY <1>4, <1>5

\* The calls that are in progress keep their channels.
LEMMA ChannelsKept ==
  ASSUME Inv, calls' = calls,
         \A t \in tasks' : t.chan < calls,
         \A s \in Server : Busy(op'[s]) => Busy(op[s]) /\ op'[s].chan = op[s].chan
  PROVE  ChanInv'
BY DEF Inv, ChanInv

\* A step that changes the fields of one instance.
LEMMA OneMoves ==
  ASSUME ShapeInv, NEW s \in Server, NEW o, Shaped(o), op' = [op EXCEPT ![s] = o]
  PROVE  /\ ShapeInv'
         /\ op'[s] = o
         /\ \A u \in Server : u # s => op'[u] = op[u]
<1>1. op' = [u \in Server |-> IF u = s THEN o ELSE op[u]]
  BY DEF ShapeInv
<1>2. op'[s] = o /\ \A u \in Server : u # s => op'[u] = op[u]
  BY <1>1
<1>3. \A u \in Server : Shaped(op'[u])
  BY <1>2 DEF ShapeInv
<1>4. op' = [u \in Server |-> op'[u]]
  BY <1>1
<1> QED BY <1>2, <1>3, <1>4 DEF ShapeInv, Shaped

\* The fields that Done sets.
LEMMA DoneFields ==
  ASSUME NEW x, Shaped(x), NEW f, NEW r
  PROVE  [x EXCEPT !.pc = "done", !.chan = 0, !.row = Nil, !.failed = f, !.result = r]
           = [pc |-> "done", call |-> x.call, chan |-> 0, row |-> Nil, hit |-> x.hit,
              failed |-> f, result |-> r]
<1> DEFINE y == [x EXCEPT !.pc = "done", !.chan = 0, !.row = Nil, !.failed = f, !.result = r]
           fields == {"pc", "call", "chan", "row", "hit", "failed", "result"}
<1>1. x = [i \in fields |-> x[i]]
  BY DEF Shaped
<1>2. y = [i \in fields |-> y[i]]
  BY <1>1
<1>3. /\ y["pc"] = "done" /\ y["call"] = x.call /\ y["chan"] = 0 /\ y["row"] = Nil
      /\ y["hit"] = x.hit /\ y["failed"] = f /\ y["result"] = r
  BY <1>1
<1> HIDE DEF y
<1>4. y = [pc |-> "done", call |-> x.call, chan |-> 0, row |-> Nil, hit |-> x.hit,
           failed |-> f, result |-> r]
  BY <1>2, <1>3
<1> QED BY <1>4 DEF y

\* A call that returns.
LEMMA DoneReturns ==
  ASSUME ShapeInv, NEW s \in Server, NEW client, NEW failed, op[s].pc # "idle",
         Done(s, client, failed)
  PROVE  /\ ShapeInv'
         /\ op'[s].pc = "done" /\ op'[s].call = op[s].call /\ op'[s].hit = op[s].hit
         /\ op'[s].failed = failed /\ op'[s].result = Result(op[s].call, client)
         /\ \A u \in Server : u # s => op'[u] = op[u]
<1> DEFINE o == [pc |-> "done", call |-> op[s].call, chan |-> 0, row |-> Nil,
                 hit |-> op[s].hit, failed |-> failed, result |-> Result(op[s].call, client)]
<1>1. Shaped(op[s]) /\ op = [u \in Server |-> op[u]]
  BY DEF ShapeInv
<1>2. op' = [op EXCEPT ![s] = o]
  <2> DEFINE r == Result(op[s].call, client)
  <2>1. op' = [op EXCEPT ![s].pc = "done", ![s].chan = 0, ![s].row = Nil,
                         ![s].failed = failed, ![s].result = r]
    BY DEF Done
  <2> HIDE DEF r
  <2>2. o = [op[s] EXCEPT !.pc = "done", !.chan = 0, !.row = Nil, !.failed = failed,
                          !.result = r]
    BY <1>1, DoneFields DEF r
  <2> HIDE DEF o
  <2> QED BY <1>1, <2>1, <2>2
<1>3. Shaped(o)
  BY <1>1 DEF Shaped, RowOrNil
<1>4. /\ o.pc = "done" /\ o.call = op[s].call /\ o.hit = op[s].hit
      /\ o.failed = failed /\ o.result = Result(op[s].call, client)
  OBVIOUS
<1> HIDE DEF o
<1> QED BY <1>2, <1>3, <1>4, OneMoves

\* The fields that a hit, a query and an answer set.
LEMMA HitFields ==
  ASSUME NEW x, Shaped(x), NEW r
  PROVE  [x EXCEPT !.pc = "done", !.chan = 0, !.hit = TRUE, !.result = r]
           = [pc |-> "done", call |-> x.call, chan |-> 0, row |-> x.row, hit |-> TRUE,
              failed |-> x.failed, result |-> r]
<1> DEFINE y == [x EXCEPT !.pc = "done", !.chan = 0, !.hit = TRUE, !.result = r]
           fields == {"pc", "call", "chan", "row", "hit", "failed", "result"}
<1>1. x = [i \in fields |-> x[i]]
  BY DEF Shaped
<1>2. y = [i \in fields |-> y[i]]
  BY <1>1
<1>3. /\ y["pc"] = "done" /\ y["call"] = x.call /\ y["chan"] = 0 /\ y["row"] = x.row
      /\ y["hit"] = TRUE /\ y["failed"] = x.failed /\ y["result"] = r
  BY <1>1
<1> HIDE DEF y
<1>4. y = [pc |-> "done", call |-> x.call, chan |-> 0, row |-> x.row, hit |-> TRUE,
           failed |-> x.failed, result |-> r]
  BY <1>2, <1>3
<1> QED BY <1>4 DEF y

LEMMA QueryFields ==
  ASSUME NEW x, Shaped(x), NEW f
  PROVE  [x EXCEPT !.pc = "query", !.failed = f]
           = [pc |-> "query", call |-> x.call, chan |-> x.chan, row |-> x.row, hit |-> x.hit,
              failed |-> f, result |-> x.result]
<1> DEFINE y == [x EXCEPT !.pc = "query", !.failed = f]
           fields == {"pc", "call", "chan", "row", "hit", "failed", "result"}
<1>1. x = [i \in fields |-> x[i]]
  BY DEF Shaped
<1>2. y = [i \in fields |-> y[i]]
  BY <1>1
<1>3. /\ y["pc"] = "query" /\ y["call"] = x.call /\ y["chan"] = x.chan /\ y["row"] = x.row
      /\ y["hit"] = x.hit /\ y["failed"] = f /\ y["result"] = x.result
  BY <1>1
<1> HIDE DEF y
<1>4. y = [pc |-> "query", call |-> x.call, chan |-> x.chan, row |-> x.row, hit |-> x.hit,
           failed |-> f, result |-> x.result]
  BY <1>2, <1>3
<1> QED BY <1>4 DEF y

LEMMA HsetFields ==
  ASSUME NEW x, Shaped(x), NEW r
  PROVE  [x EXCEPT !.pc = "hset", !.row = r]
           = [pc |-> "hset", call |-> x.call, chan |-> x.chan, row |-> r, hit |-> x.hit,
              failed |-> x.failed, result |-> x.result]
<1> DEFINE y == [x EXCEPT !.pc = "hset", !.row = r]
           fields == {"pc", "call", "chan", "row", "hit", "failed", "result"}
<1>1. x = [i \in fields |-> x[i]]
  BY DEF Shaped
<1>2. y = [i \in fields |-> y[i]]
  BY <1>1
<1>3. /\ y["pc"] = "hset" /\ y["call"] = x.call /\ y["chan"] = x.chan /\ y["row"] = r
      /\ y["hit"] = x.hit /\ y["failed"] = x.failed /\ y["result"] = x.result
  BY <1>1
<1> HIDE DEF y
<1>4. y = [pc |-> "hset", call |-> x.call, chan |-> x.chan, row |-> r, hit |-> x.hit,
           failed |-> x.failed, result |-> x.result]
  BY <1>2, <1>3
<1> QED BY <1>4 DEF y

\* The record of a call that begins.
LEMMA BeginFields ==
  ASSUME NEW c, NEW n
  PROVE  [NoOp EXCEPT !.pc = "hget", !.call = c, !.chan = n]
           = [pc |-> "hget", call |-> c, chan |-> n, row |-> Nil, hit |-> FALSE,
              failed |-> FALSE, result |-> Nil]
<1> DEFINE y == [NoOp EXCEPT !.pc = "hget", !.call = c, !.chan = n]
           fields == {"pc", "call", "chan", "row", "hit", "failed", "result"}
<1>1. NoOp = [i \in fields |-> NoOp[i]]
  BY DEF NoOp
<1>2. /\ NoOp["row"] = Nil /\ NoOp["result"] = Nil /\ NoOp["hit"] = FALSE
      /\ NoOp["failed"] = FALSE
  BY DEF NoOp
<1>3. y = [i \in fields |-> y[i]]
  BY <1>1
<1>4. /\ y["pc"] = "hget" /\ y["call"] = c /\ y["chan"] = n /\ y["row"] = Nil
      /\ y["hit"] = FALSE /\ y["failed"] = FALSE /\ y["result"] = Nil
  BY <1>1, <1>2
<1> HIDE DEF y
<1>5. y = [pc |-> "hget", call |-> c, chan |-> n, row |-> Nil, hit |-> FALSE,
           failed |-> FALSE, result |-> Nil]
  BY <1>3, <1>4
<1> QED BY <1>5 DEF y

\* A call that returns answers from a row of its client, or finds nothing for
\* a reason that ends its calm.
LEMMA DoneAnswers ==
  ASSUME Inv, Observe, NEW s \in Server, NEW client, NEW failed, Busy(op[s]),
         Done(s, client, failed),
         \A c \in Client : known[c] \subseteq known'[c],
         \/ client = Nil /\ (failed \/ ~HashUsable(strings') \/ ~calm[s])
         \/ \E row \in KnownFor(known, op[s].call.client) \cap during[s] :
              row # Nil /\ client = ToEncodedClient(row)
  PROVE  WaitInv(s)' /\ AnswerInv(s)'
<1>1. op[s].pc # "idle" /\ op[s].call.client \in Client
  BY CallHasClient DEF Busy, Inv, ShapeInv, Shaped
<1>2. /\ op'[s].pc = "done" /\ op'[s].call = op[s].call
      /\ op'[s].failed = failed /\ op'[s].result = Result(op[s].call, client)
  BY <1>1, DoneReturns DEF Inv
<1>3. during[s] \subseteq during'[s]
  BY Observed
<1>4. WaitInv(s)'
  BY <1>2 DEF WaitInv, Busy
<1>5. AnswerInv(s)'
  <2>1. CASE client = Nil /\ (failed \/ ~HashUsable(strings') \/ ~calm[s])
    <3>1. op'[s].result = Nil
      BY <1>2, <2>1, NothingIsError
    <3>2. ~calm'[s]
      BY <1>2, <2>1, CalmSees
    <3> QED BY <3>1, <3>2 DEF AnswerInv
  <2>2. CASE \E row \in KnownFor(known, op[s].call.client) \cap during[s] :
               row # Nil /\ client = ToEncodedClient(row)
    <3>1. PICK row \in KnownFor(known, op[s].call.client) \cap during[s] :
            row # Nil /\ client = ToEncodedClient(row)
      BY <2>2
    <3>2. /\ row \in KnownFor(known', op[s].call.client) \ {Nil}
          /\ row \in during'[s] \ {Nil}
      BY <1>1, <1>3, <3>1, KnownGrows
    <3> QED BY <1>2, <3>1, <3>2 DEF AnswerInv, Answered
  <2> QED BY <2>1, <2>2
<1> QED BY <1>4, <1>5

\* Steps of the environment and of tasks that nobody hears.
LEMMA Aside ==
  ASSUME Inv, Observe, op' = op, calls' = calls, StoreInv', KnownInv',
         \A c \in Client : known[c] \subseteq known'[c],
         \A t \in tasks' :
           \/ t \in tasks
           \/ \E u \in tasks : /\ t.chan = u.chan /\ t.client = u.client
                               /\ t.at = "answered" =>
                                    t.row \in Readable(table', applied', t.client)
  PROVE  Inv'
<1>1. \A s \in Server : WaitInv(s)' /\ AnswerInv(s)'
  BY Bystander
<1>2. ShapeInv'
  BY DEF Inv, ShapeInv
<1>3. \A t \in tasks' : t.chan < calls
  BY DEF Inv, ChanInv
<1>4. ChanInv'
  BY <1>3, ChannelsKept
<1> QED BY <1>1, <1>2, <1>4 DEF Inv

----------------------------------------------------------------------------
(* The actions *)

\* A step of instance s that returns, or goes on with its channel.
LEMMA OnlyOne ==
  ASSUME Inv, Observe, NEW s \in Server, calls' = calls, StoreInv', KnownInv', ShapeInv',
         Busy(op[s]), Busy(op'[s]) => op'[s].chan = op[s].chan,
         \A u \in Server : u # s => op'[u] = op[u],
         \A c \in Client : known[c] \subseteq known'[c],
         \A t \in tasks' : t \in tasks \/ t.chan = op[s].chan,
         WaitInv(s)', AnswerInv(s)'
  PROVE  Inv'
<1>1. \A u \in Server : Busy(op'[u]) => Busy(op[u]) /\ op'[u].chan = op[u].chan
  OBVIOUS
<1>2. \A t \in tasks' : t.chan < calls
  BY DEF Inv, ChanInv
<1>3. ChanInv'
  BY <1>1, <1>2, ChannelsKept
<1>4. ASSUME NEW u \in Server, u # s
      PROVE  WaitInv(u)' /\ AnswerInv(u)'
  <2>1. \A t \in tasks' : t \in tasks \/ (Busy(op[u]) => t.chan # op[u].chan)
    BY <1>4 DEF Inv, ChanInv
  <2> QED BY <1>4, <2>1, Bystander
<1> QED BY <1>3, <1>4 DEF Inv

\* A lookup begins.
LEMMA BeginKeeps ==
  ASSUME Inv, NEW s \in Server, NEW call \in Calls, Begin(s, call)
  PROVE  Inv'
<1> DEFINE o == [pc |-> "hget", call |-> call, chan |-> calls, row |-> Nil, hit |-> FALSE,
                 failed |-> FALSE, result |-> Nil]
<1>1. /\ Observe /\ calls' = calls + 1 /\ tasks' = tasks /\ known' = known
      /\ table' = table /\ applied' = applied /\ hash' = hash /\ strings' = strings /\ ~Busy(op[s])
  BY DEF Begin, store, scylla
<1>2. op' = [op EXCEPT ![s] = o]
  <2>1. o = [NoOp EXCEPT !.pc = "hget", !.call = call, !.chan = calls]
    BY BeginFields
  <2> HIDE DEF o
  <2> QED BY <2>1 DEF Begin
<1>3. call \in Call /\ call.client \in Client
  BY DbRegistrarAssumption, CallHasClient
<1>4. Shaped(o) /\ o.pc = "hget" /\ o.call = call /\ o.chan = calls
  BY <1>3 DEF Shaped, RowOrNil, Inv, StoreInv
<1> HIDE DEF o
<1>5. ShapeInv' /\ op'[s] = o /\ \A u \in Server : u # s => op'[u] = op[u]
  BY <1>2, <1>4, OneMoves DEF Inv
<1>6. StoreInv' /\ KnownInv'
  BY <1>1 DEF Inv, StoreInv, TableInv, KnownInv
<1>7. ChanInv'
  <2>1. /\ \A u \in Server : Busy(op[u]) => op[u].chan \in Nat /\ op[u].chan < calls
        /\ \A t \in tasks : t.chan \in Nat /\ t.chan < calls
        /\ calls \in Nat
    BY DEF Inv, ChanInv, StoreInv, ShapeInv, Shaped, Task
  <2>2. \A u \in Server : Busy(op'[u]) => op'[u].chan < calls + 1
    BY <1>4, <1>5, <2>1
  <2>3. \A t \in tasks : t.chan < calls + 1
    BY <2>1
  <2>4. \A u, v \in Server : u # v /\ Busy(op'[u]) /\ Busy(op'[v]) => op'[u].chan # op'[v].chan
    BY <1>4, <1>5, <2>1 DEF Inv, ChanInv
  <2> QED BY <1>1, <2>2, <2>3, <2>4 DEF ChanInv
<1>8. WaitInv(s)' /\ AnswerInv(s)'
  <2>1. \A t \in tasks : t.chan # calls
    BY DEF Inv, ChanInv, StoreInv, Task
  <2>2. Busy(op'[s]) /\ op'[s].pc = "hget" /\ op'[s].call = call /\ op'[s].chan = calls
    BY <1>4, <1>5 DEF Busy
  <2>3. calm'[s] => Nil \notin during'[s]
    <3> DEFINE rows == Readable(table', applied', call.client)
    <3>1. during'[s] = rows /\ calm'[s] = Fine(rows, strings', hash', call.client)
      BY <1>1, <2>2, Observed
    <3> HIDE DEF rows
    <3>2. Fine(rows, strings', hash', call.client) => Nil \notin rows
      BY DEF Fine
    <3> QED BY <3>1, <3>2
  <2> QED BY <1>1, <2>1, <2>2, <2>3 DEF WaitInv, AnswerInv
<1>9. \A u \in Server : u # s => WaitInv(u)' /\ AnswerInv(u)'
  BY <1>1, <1>5, Bystander
<1> QED BY <1>5, <1>6, <1>7, <1>8, <1>9 DEF Inv

\* A lookup ends without an answer: no connection, or a timeout.
LEMMA GivingUpKeeps ==
  ASSUME Inv, NEW s \in Server, NoConnection(s) \/ Timeout(s)
  PROVE  Inv'
<1>1. /\ Observe /\ calls' = calls /\ tasks' = tasks /\ known' = known
      /\ table' = table /\ applied' = applied /\ hash' = hash /\ strings' = strings
      /\ Busy(op[s]) /\ op[s].pc # "idle" /\ Done(s, Nil, TRUE)
  BY DEF NoConnection, Timeout, store, scylla, Busy
<1>2. ShapeInv' /\ op'[s].pc = "done" /\ \A u \in Server : u # s => op'[u] = op[u]
  BY <1>1, DoneReturns DEF Inv
<1>3. StoreInv' /\ KnownInv'
  BY <1>1 DEF Inv, StoreInv, TableInv, KnownInv
<1>4. WaitInv(s)' /\ AnswerInv(s)'
  BY <1>1, DoneAnswers
<1> QED BY <1>1, <1>2, <1>3, <1>4, OnlyOne DEF Busy

\* The cache is asked.
LEMMA HGetKeeps ==
  ASSUME Inv, NEW s \in Server, NEW fate, HGet(s, fate)
  PROVE  Inv'
<1> DEFINE c == op[s].call.client
           cached == IF fate = "ok" /\ HashUsable(strings) THEN hash[c] ELSE Nil
           t0 == [chan |-> op[s].chan, client |-> c, row |-> Nil, at |-> "asked"]
<1>1. /\ Observe /\ calls' = calls /\ known' = known
      /\ table' = table /\ applied' = applied /\ hash' = hash /\ strings' = strings
      /\ op[s].pc = "hget" /\ Busy(op[s])
  BY DEF HGet, store, scylla, Busy
<1>2. Shaped(op[s]) /\ c \in Client /\ op[s].call \in Call /\ ShapeInv
      /\ op = [u \in Server |-> op[u]]
  BY <1>1, CallHasClient DEF Inv, ShapeInv, Shaped
<1>3. CASE cached # Nil
  <2> DEFINE r == Result(op[s].call, ToEncodedClient(hash[c]))
             o == [pc |-> "done", call |-> op[s].call, chan |-> 0, row |-> op[s].row,
                   hit |-> TRUE, failed |-> op[s].failed, result |-> r]
  <2>1. cached = hash[c] /\ hash[c] \in KnownFor(known, c)
    BY <1>2, <1>3 DEF Inv, KnownInv
  <2>2. tasks' = tasks
        /\ op' = [op EXCEPT ![s].pc = "done", ![s].chan = 0, ![s].hit = TRUE, ![s].result = r]
    BY <1>3, <2>1 DEF HGet
  <2> HIDE DEF r
  <2>3. op' = [op EXCEPT ![s] = o]
    <3>1. o = [op[s] EXCEPT !.pc = "done", !.chan = 0, !.hit = TRUE, !.result = r]
      BY <1>2, HitFields
    <3> HIDE DEF o
    <3> QED BY <1>2, <2>2, <3>1
  <2>4. Shaped(o) /\ o.pc = "done" /\ o.call = op[s].call /\ o.hit = TRUE /\ o.result = r
    BY <1>2 DEF Shaped
  <2> HIDE DEF o
  <2>5. ShapeInv' /\ op'[s] = o /\ \A u \in Server : u # s => op'[u] = op[u]
    BY <1>2, <2>3, <2>4, OneMoves
  <2>6. StoreInv' /\ KnownInv'
    BY <1>1, <2>2 DEF Inv, StoreInv, TableInv, KnownInv
  <2>7. WaitInv(s)' /\ AnswerInv(s)'
    <3>1. WaitInv(s)'
      BY <2>4, <2>5 DEF WaitInv, Busy
    <3>2. hash[c] \in KnownFor(known', c) \ {Nil}
      BY <1>1, <1>3, <2>1
    <3>3. AnswerInv(s)'
      BY <2>4, <2>5, <3>2 DEF AnswerInv, Answered, r
    <3> QED BY <3>1, <3>3
  <2> QED BY <1>1, <2>2, <2>4, <2>5, <2>6, <2>7, OnlyOne DEF Busy
<1>4. CASE cached = Nil
  <2> DEFINE o == [pc |-> "query", call |-> op[s].call, chan |-> op[s].chan, row |-> op[s].row,
                   hit |-> op[s].hit, failed |-> (fate # "ok"), result |-> op[s].result]
  <2>1. /\ tasks' = tasks \cup {t0}
        /\ op' = [op EXCEPT ![s].pc = "query", ![s].failed = (fate # "ok")]
    BY <1>4 DEF HGet
  <2>2. op' = [op EXCEPT ![s] = o]
    <3>1. o = [op[s] EXCEPT !.pc = "query", !.failed = (fate # "ok")]
      BY <1>2, QueryFields
    <3> HIDE DEF o
    <3> QED BY <1>2, <2>1, <3>1
  <2>3. Shaped(o) /\ o.pc = "query" /\ o.call = op[s].call /\ o.chan = op[s].chan
    BY <1>2 DEF Shaped
  <2> HIDE DEF o
  <2>4. ShapeInv' /\ op'[s] = o /\ \A u \in Server : u # s => op'[u] = op[u]
    BY <1>2, <2>2, <2>3, OneMoves
  <2>5. t0 \in Task /\ t0.chan = op[s].chan /\ t0.client = c /\ t0.row = Nil /\ t0.at = "asked"
    BY <1>2 DEF Task, Shaped, RowOrNil
  <2> HIDE DEF t0
  <2>6. StoreInv' /\ KnownInv'
    BY <1>1, <2>1, <2>5 DEF Inv, StoreInv, TableInv, KnownInv
  <2>7. WaitInv(s)' /\ AnswerInv(s)'
    <3>1. \A t \in tasks' : t.chan = op[s].chan => t.client = c /\ t.at # "answered"
      BY <1>1, <2>1, <2>5 DEF Inv, WaitInv
    <3>2. calm'[s] => Nil \notin during'[s]
      BY <1>1, Observed, CalmSees DEF Inv, WaitInv
    <3> QED BY <2>3, <2>4, <3>1, <3>2 DEF WaitInv, AnswerInv
  <2> QED BY <1>1, <2>1, <2>3, <2>4, <2>5, <2>6, <2>7, OnlyOne
<1> QED BY <1>3, <1>4

\* The task gets its answer from scylla: a row that can be read at this moment.
LEMMA TaskQueryKeeps ==
  ASSUME Inv, NEW t \in tasks, NEW fate, TaskQuery(t, fate)
  PROVE  Inv'
<1>1. /\ Observe /\ calls' = calls /\ known' = known /\ op' = op
      /\ table' = table /\ applied' = applied /\ hash' = hash /\ strings' = strings
  BY DEF TaskQuery, store, scylla
<1>2. t \in Task /\ t.client \in Client /\ t.row \in RowOrNil
  BY DEF Inv, StoreInv, Task
<1>3. t.at = "asked" /\ t.row = Nil
  BY DEF TaskQuery, Inv, KnownInv
<1>4. ASSUME NEW n \in Task, tasks' = (tasks \ {t}) \cup {n},
             n.chan = t.chan, n.client = t.client,
             n.row # Nil => n.row \in KnownFor(known, t.client),
             n.at # "answered" => n.row = Nil,
             n.at = "answered" => n.row \in Readable(table, applied, t.client)
      PROVE  Inv'
  <2>1. StoreInv'
    BY <1>1, <1>4 DEF Inv, StoreInv, TableInv
  <2>2. KnownInv'
    BY <1>1, <1>4 DEF Inv, KnownInv
  <2>3. \A u \in tasks' :
          \/ u \in tasks
          \/ \E v \in tasks : /\ u.chan = v.chan /\ u.client = v.client
                              /\ u.at = "answered" =>
                                   u.row \in Readable(table', applied', u.client)
    BY <1>1, <1>4
  <2> QED BY <1>1, <2>1, <2>2, <2>3, Aside
<1>5. ASSUME NEW row \in Readable(table, applied, t.client),
             tasks' = (tasks \ {t}) \cup {[t EXCEPT !.at = "answered", !.row = row]}
      PROVE  Inv'
  <2> DEFINE n == [t EXCEPT !.at = "answered", !.row = row]
  <2>1. row \in RowOrNil /\ (row # Nil => row \in KnownFor(known, t.client))
    BY <1>2, <1>5, ReadableIsKnown DEF Inv, StoreInv
  <2>2. n \in Task /\ n.chan = t.chan /\ n.client = t.client /\ n.row = row
        /\ n.at = "answered"
    BY <1>2, <2>1 DEF Task
  <2> HIDE DEF n
  <2>3. tasks' = (tasks \ {t}) \cup {n}
    BY <1>5 DEF n
  <2> QED BY <1>4, <1>5, <2>1, <2>2, <2>3
<1>6. ASSUME tasks' = (tasks \ {t}) \cup {[t EXCEPT !.at = "failed"]}
      PROVE  Inv'
  <2> DEFINE n == [t EXCEPT !.at = "failed"]
  <2>1. n \in Task /\ n.chan = t.chan /\ n.client = t.client /\ n.row = Nil
        /\ n.at = "failed"
    BY <1>2, <1>3 DEF Task
  <2> HIDE DEF n
  <2>2. tasks' = (tasks \ {t}) \cup {n}
    BY <1>6 DEF n
  <2> QED BY <1>4, <2>1, <2>2
<1> QED BY <1>5, <1>6 DEF TaskQuery

\* The task sends its answer.
LEMMA TaskSendKeeps ==
  ASSUME Inv, NEW t \in tasks, TaskSend(t)
  PROVE  Inv'
<1>1. /\ Observe /\ calls' = calls /\ known' = known /\ tasks' = tasks \ {t}
      /\ table' = table /\ applied' = applied /\ hash' = hash /\ strings' = strings /\ t.at # "asked"
  BY DEF TaskSend, store, scylla
<1>2. StoreInv' /\ KnownInv'
  BY <1>1 DEF Inv, StoreInv, TableInv, KnownInv
<1>3. CASE UNCHANGED op
  BY <1>1, <1>2, <1>3, Aside
<1>4. ASSUME NEW s \in Server, Listens(s, t),
             IF t.row = Nil THEN Done(s, Nil, op[s].failed \/ t.at = "failed")
             ELSE op' = [op EXCEPT ![s].pc = "hset", ![s].row = t.row]
      PROVE  Inv'
  <2>1. op[s].pc = "query" /\ op[s].chan = t.chan /\ Busy(op[s])
    BY <1>4 DEF Listens, Busy
  <2>2. Shaped(op[s]) /\ ShapeInv /\ WaitInv(s) /\ op = [u \in Server |-> op[u]]
    BY DEF Inv, ShapeInv
  <2>3. /\ t.client = op[s].call.client /\ t \in Task
        /\ t.at \in {"answered", "failed"} /\ t.row \in RowOrNil
        /\ t.at = "answered" => t.row \in during[s]
        /\ t.row # Nil => t.at = "answered" /\ t.row \in KnownFor(known, t.client)
    BY <1>1, <2>1, <2>2 DEF WaitInv, Inv, StoreInv, KnownInv, Task
  <2>4. CASE t.row = Nil
    <3>1. Done(s, Nil, op[s].failed \/ t.at = "failed")
      BY <1>4, <2>4
    <3>2. t.at = "failed" \/ ~calm[s]
      BY <2>1, <2>2, <2>3, <2>4 DEF WaitInv
    <3>3. WaitInv(s)' /\ AnswerInv(s)'
      BY <1>1, <2>1, <3>1, <3>2, DoneAnswers
    <3>4. ShapeInv' /\ op'[s].pc = "done" /\ \A u \in Server : u # s => op'[u] = op[u]
      BY <2>1, <2>2, <3>1, DoneReturns
    <3> QED BY <1>1, <1>2, <2>1, <3>3, <3>4, OnlyOne DEF Busy
  <2>5. CASE t.row # Nil
    <3> DEFINE o == [pc |-> "hset", call |-> op[s].call, chan |-> op[s].chan, row |-> t.row,
                     hit |-> op[s].hit, failed |-> op[s].failed, result |-> op[s].result]
    <3>1. op' = [op EXCEPT ![s] = o]
      <4>1. op' = [op EXCEPT ![s].pc = "hset", ![s].row = t.row]
        BY <1>4, <2>5
      <4>2. o = [op[s] EXCEPT !.pc = "hset", !.row = t.row]
        BY <2>2, HsetFields
      <4> HIDE DEF o
      <4> QED BY <2>2, <4>1, <4>2
    <3>2. Shaped(o) /\ o.pc = "hset" /\ o.call = op[s].call /\ o.chan = op[s].chan
          /\ o.row = t.row
      BY <2>1, <2>2, <2>3 DEF Shaped
    <3> HIDE DEF o
    <3>3. ShapeInv' /\ op'[s] = o /\ \A u \in Server : u # s => op'[u] = op[u]
      BY <2>2, <3>1, <3>2, OneMoves
    <3>4. during[s] \subseteq during'[s]
      BY <1>1, <2>1, Observed
    <3>5. calm'[s] => Nil \notin during'[s]
      BY <1>1, <2>1, <2>2, Observed, CalmSees DEF WaitInv
    <3>6. WaitInv(s)' /\ AnswerInv(s)'
      BY <1>1, <2>3, <2>5, <3>2, <3>3, <3>4, <3>5 DEF WaitInv, AnswerInv
    <3> QED BY <1>1, <1>2, <2>1, <3>2, <3>3, <3>6, OnlyOne
  <2> QED BY <2>4, <2>5
<1> QED BY <1>3, <1>4 DEF TaskSend

\* The row is cached, and the lookup answers from it.
LEMMA HSetKeeps ==
  ASSUME Inv, NEW s \in Server, NEW fate, HSet(s, fate)
  PROVE  Inv'
<1> DEFINE c == op[s].call.client
           set == fate # "refused" /\ HashUsable(strings)
<1>1. /\ Observe /\ calls' = calls /\ known' = known /\ tasks' = tasks
      /\ table' = table /\ applied' = applied /\ strings' = strings
      /\ op[s].pc = "hset" /\ Busy(op[s])
      /\ hash' = IF set THEN [hash EXCEPT ![c] = op[s].row] ELSE hash
  BY DEF HSet, scylla, Busy
<1>2. /\ Shaped(op[s]) /\ ShapeInv /\ WaitInv(s) /\ c \in Client
      /\ op[s].row # Nil /\ op[s].row \in KnownFor(known, c) /\ op[s].row \in during[s]
      /\ op[s].row \in RowOrNil
  BY <1>1, CallHasClient DEF Inv, ShapeInv, Shaped, WaitInv
<1>3. hash \in [Client -> RowOrNil]
  BY DEF Inv, StoreInv
<1>4. hash' \in [Client -> RowOrNil]
      /\ \A d \in Client : hash'[d] = hash[d] \/ (d = c /\ hash'[d] = op[s].row)
  BY <1>1, <1>2, <1>3
<1>5. StoreInv' /\ KnownInv'
  BY <1>1, <1>2, <1>4 DEF Inv, StoreInv, TableInv, KnownInv
<1>6. PICK client, failed :
        /\ Done(s, client, failed)
        /\ \/ client = Nil /\ (failed \/ ~HashUsable(strings'))
           \/ client = ToEncodedClient(op[s].row)
  <2>1. CASE set /\ fate = "ok"
    BY <2>1 DEF HSet
  <2>2. CASE ~(set /\ fate = "ok")
    <3>1. Done(s, Nil, op[s].failed \/ fate # "ok")
      BY <2>2 DEF HSet
    <3>2. (op[s].failed \/ fate # "ok") \/ ~HashUsable(strings')
      BY <1>1, <2>2
    <3> QED BY <3>1, <3>2
  <2> QED BY <2>1, <2>2
<1>7. WaitInv(s)' /\ AnswerInv(s)'
  BY <1>1, <1>2, <1>6, DoneAnswers
<1>8. ShapeInv' /\ op'[s].pc = "done" /\ \A u \in Server : u # s => op'[u] = op[u]
  BY <1>1, <1>2, <1>6, DoneReturns
<1> QED BY <1>1, <1>5, <1>7, <1>8, OnlyOne DEF Busy

\* What register_client stores is a row of text.
LEMMA RegisteredIsRow ==
  ASSUME NEW client \in EncodedClient
  PROVE  FromEncodedClient(client) \in Row
<1>1. client.uri \in RegisteredUrl /\ client.more \subseteq RegisteredUrl
      /\ client.scope \in Scope /\ client.pass \in Pass \cup {Nil}
  BY DEF EncodedClient
<1>2. client.uri.text \in UriText /\ {u.text : u \in client.more} \subseteq UriText
  BY <1>1 DEF RegisteredUrl
<1> QED BY <1>1, <1>2 DEF FromEncodedClient, Row

\* A step of the environment that forgets no row and caches none.
LEMMA EnvironmentKeeps ==
  ASSUME Inv, Observe, op' = op, tasks' = tasks, calls' = calls, TableInv',
         \A c \in Client : \A i \in 1 .. Len(table'[c]) :
           table'[c][i] # Nil => table'[c][i] \in known'[c],
         strings' \in [Client -> RowOrNil], hash' \in [Client -> RowOrNil],
         \A d \in Client : hash'[d] \in {Nil, hash[d]},
         DOMAIN known' = Client, \A d \in Client : known[d] \subseteq known'[d]
  PROVE  Inv'
<1>1. StoreInv'
  BY DEF Inv, StoreInv
<1>2. \A t \in tasks : t.client \in Client
  BY DEF Inv, StoreInv, Task
<1>3. /\ \A c \in Client : hash'[c] # Nil => hash'[c] \in KnownFor(known', c)
      /\ \A t \in tasks : t.row # Nil => t.row \in KnownFor(known', t.client)
  BY <1>2, KnownGrows DEF Inv, KnownInv
<1>4. KnownInv'
  BY <1>3 DEF Inv, KnownInv
<1> QED BY <1>1, <1>4, Aside

\* The operator writes a row, and the write reaches the replicas.
LEMMA TableChangesKeep ==
  ASSUME Inv,
         \/ \E c \in Client : ChangeTable(c, Nil)
         \/ \E r \in Rows : ChangeTable(r[1], r[2])
         \/ \E n \in Replica, c \in Client : Replicate(n, c)
  PROVE  Inv'
<1>1. Observe /\ op' = op /\ tasks' = tasks /\ calls' = calls /\ hash' = hash
      /\ strings' = strings
  BY DEF ChangeTable, Replicate
<1>2. /\ TableInv /\ hash \in [Client -> RowOrNil] /\ strings \in [Client -> RowOrNil]
      /\ DOMAIN known = Client /\ Nil \in RowOrNil
  BY DEF Inv, StoreInv, RowOrNil
<1>3. ASSUME NEW c \in Client, NEW row \in RowOrNil, ChangeTable(c, row)
      PROVE  Inv'
  <2>1. /\ table' = [table EXCEPT ![c] = Append(table[c], row)] /\ applied' = applied
        /\ known' = [known EXCEPT ![c] = known[c] \cup ({row} \ {Nil})]
    BY <1>3 DEF ChangeTable
  <2>2. table \in [Client -> Seq(RowOrNil)] /\ table[c] \in Seq(RowOrNil)
    BY <1>2 DEF TableInv
  <2>3. /\ Append(table[c], row) \in Seq(RowOrNil)
        /\ Len(Append(table[c], row)) = Len(table[c]) + 1
        /\ \A i \in 1 .. Len(table[c]) : Append(table[c], row)[i] = table[c][i]
        /\ Append(table[c], row)[Len(table[c]) + 1] = row
        /\ Len(table[c]) \in Nat
    BY <2>2
  <2>4. /\ table' \in [Client -> Seq(RowOrNil)] /\ table'[c] = Append(table[c], row)
        /\ \A d \in Client : d # c => table'[d] = table[d]
    BY <2>1, <2>2, <2>3
  <2>5. \A n \in Replica, d \in Client : applied'[n][d] \in 1 .. Len(table'[d])
    BY <1>2, <2>1, <2>3, <2>4 DEF TableInv
  <2>6. TableInv'
    BY <1>2, <2>1, <2>4, <2>5 DEF TableInv
  <2>7. /\ DOMAIN known' = Client /\ \A d \in Client : known[d] \subseteq known'[d]
        /\ row # Nil => row \in known'[c]
    BY <1>2, <2>1
  <2>8. \A d \in Client : \A i \in 1 .. Len(table'[d]) :
          table'[d][i] # Nil => table'[d][i] \in known'[d]
    <3>1. ASSUME NEW d \in Client, d # c, NEW i \in 1 .. Len(table'[d]), table'[d][i] # Nil
          PROVE  table'[d][i] \in known'[d]
      BY <2>4, <2>7, <3>1 DEF Inv, KnownInv
    <3>2. ASSUME NEW i \in 1 .. Len(table'[c]), table'[c][i] # Nil
          PROVE  table'[c][i] \in known'[c]
      <4>1. CASE i = Len(table[c]) + 1
        BY <2>3, <2>4, <2>7, <3>2, <4>1
      <4>2. CASE i \in 1 .. Len(table[c])
        BY <2>3, <2>4, <2>7, <3>2, <4>2 DEF Inv, KnownInv
      <4> QED BY <2>3, <2>4, <3>2, <4>1, <4>2
    <3> QED BY <3>1, <3>2
  <2> QED BY <1>1, <1>2, <2>6, <2>7, <2>8, EnvironmentKeeps
<1>4. ASSUME NEW n \in Replica, NEW c \in Client, Replicate(n, c)
      PROVE  Inv'
  <2>1. PICK v \in applied[n][c] + 1 .. Len(table[c]) : applied' = [applied EXCEPT ![n][c] = v]
    BY <1>4 DEF Replicate
  <2>2. table' = table /\ known' = known
    BY <1>4 DEF Replicate
  <2>3. /\ applied \in [Replica -> [Client -> Nat]] /\ applied[n][c] \in Nat
        /\ Len(table[c]) \in Nat /\ v \in Nat /\ v \in 1 .. Len(table[c])
    BY <1>2, <2>1 DEF TableInv
  <2>4. /\ applied' \in [Replica -> [Client -> Nat]]
        /\ \A m \in Replica, d \in Client :
             applied'[m][d] = IF m = n /\ d = c THEN v ELSE applied[m][d]
    BY <2>1, <2>3
  <2>5. TableInv'
    <3>1. ASSUME NEW m \in Replica, NEW d \in Client
          PROVE  applied'[m][d] \in 1 .. Len(table'[d])
      <4>1. CASE m = n /\ d = c
        BY <2>2, <2>3, <2>4, <4>1
      <4>2. CASE ~(m = n /\ d = c)
        <5>1. applied'[m][d] = applied[m][d]
          BY <2>4, <4>2
        <5> QED BY <1>2, <2>2, <5>1 DEF TableInv
      <4> QED BY <4>1, <4>2
    <3>2. table' \in [Client -> Seq(RowOrNil)]
      BY <1>2, <2>2 DEF TableInv
    <3> QED BY <2>4, <3>1, <3>2 DEF TableInv
  <2>6. \A d \in Client : \A i \in 1 .. Len(table'[d]) :
          table'[d][i] # Nil => table'[d][i] \in known'[d]
    BY <2>2 DEF Inv, KnownInv
  <2> QED BY <1>1, <1>2, <2>2, <2>5, <2>6, EnvironmentKeeps
<1>5. \A r \in Rows : r[1] \in Client /\ r[2] \in RowOrNil
  BY DbRegistrarAssumption DEF RowOrNil
<1> QED BY <1>2, <1>3, <1>4, <1>5

\* Registration, deletion from the cache and expiry, which may take the hash
\* away.
LEMMA ChangesKeep ==
  ASSUME Inv,
         \/ \E r \in Records, fate \in Fate : RegisterClient(r[1], r[2], fate)
         \/ \E c \in Client : DeleteFromCache(c) \/ Expire(c)
  PROVE  Inv'
<1>1. Observe /\ op' = op /\ tasks' = tasks /\ calls' = calls
      /\ table' = table /\ applied' = applied
  BY DEF RegisterClient, DeleteFromCache, Expire, Change, scylla
<1>2. /\ TableInv /\ hash \in [Client -> RowOrNil]
      /\ strings \in [Client -> RowOrNil] /\ DOMAIN known = Client /\ Nil \in RowOrNil
  BY DEF Inv, StoreInv, RowOrNil
<1>3. ASSUME NEW c \in Client, NEW value \in RowOrNil, SetString(c, value)
      PROVE  /\ strings' \in [Client -> RowOrNil] /\ hash' \in [Client -> RowOrNil]
             /\ \A d \in Client : hash'[d] \in {Nil, hash[d]}
  BY <1>2, <1>3 DEF SetString
<1>4. TableInv'
  BY <1>1, <1>2 DEF TableInv
<1>5. ASSUME strings' \in [Client -> RowOrNil], hash' \in [Client -> RowOrNil],
             \A d \in Client : hash'[d] \in {Nil, hash[d]},
             DOMAIN known' = Client, \A d \in Client : known[d] \subseteq known'[d]
      PROVE  Inv'
  <2>1. \A c \in Client : \A i \in 1 .. Len(table'[c]) :
          table'[c][i] # Nil => table'[c][i] \in known'[c]
    BY <1>1, <1>5 DEF Inv, KnownInv
  <2> QED BY <1>1, <1>4, <1>5, <2>1, EnvironmentKeeps
<1>6. ASSUME NEW r \in Records, NEW fate \in Fate, RegisterClient(r[1], r[2], fate)
      PROVE  Inv'
  <2>1. r[1] \in Client /\ r[2] \in EncodedClient
    BY DbRegistrarAssumption
  <2>2. FromEncodedClient(r[2]) \in RowOrNil
    BY <2>1, RegisteredIsRow DEF RowOrNil
  <2>3. CASE fate = "refused"
    <3>1. strings' = strings /\ hash' = hash /\ known' = known
      BY <1>6, <2>3 DEF RegisterClient
    <3> QED BY <1>2, <1>5, <3>1
  <2>4. CASE fate # "refused"
    <3>1. /\ SetString(r[1], FromEncodedClient(r[2]))
          /\ known' = [known EXCEPT ![r[1]] = known[r[1]] \cup {FromEncodedClient(r[2])}]
      BY <1>6, <2>4 DEF RegisterClient
    <3>2. DOMAIN known' = Client /\ \A d \in Client : known[d] \subseteq known'[d]
      BY <1>2, <2>1, <3>1
    <3> QED BY <1>3, <1>5, <2>1, <2>2, <3>1, <3>2
  <2> QED BY <2>3, <2>4
<1>7. ASSUME NEW c \in Client, DeleteFromCache(c)
      PROVE  Inv'
  <2>1. known' = known /\ SetString(c, Nil)
    BY <1>7 DEF DeleteFromCache, Change
  <2> QED BY <1>2, <1>3, <1>5, <2>1
<1>8. ASSUME NEW c \in Client, Expire(c)
      PROVE  Inv'
  <2>1. known' = known /\ hash' = hash /\ strings' = [strings EXCEPT ![c] = Nil]
    BY <1>8 DEF Expire
  <2>2. strings' \in [Client -> RowOrNil]
    BY <1>2, <2>1
  <2> QED BY <1>2, <1>5, <2>1, <2>2
<1> QED BY <1>6, <1>7, <1>8

----------------------------------------------------------------------------

\* Inv is an invariant of lookups, tasks and changes in any order.
THEOREM RegistrarInvariant == Spec => []Inv
<1>1. Init => Inv
  <2> SUFFICES ASSUME Init PROVE Inv
    OBVIOUS
  <2>1. \A s \in Server : op[s] = NoOp
    BY DEF Init
  <2>2. NoOp.pc = "idle" /\ Shaped(NoOp)
    BY DEF NoOp, Shaped, RowOrNil
  <2>3. ShapeInv
    <3>1. op = [s \in Server |-> op[s]]
      BY DEF Init
    <3> QED BY <2>1, <2>2, <3>1 DEF ShapeInv
  <2>4. StoreInv
    <3>1. \A r \in Rows : r[2] \in Row
      BY DbRegistrarAssumption
    <3>2. \A c \in Client : \E row \in RowOrNil : table[c] = <<row>>
      BY <3>1 DEF Init, RowOrNil
    <3>3. \A row \in RowOrNil : <<row>> \in Seq(RowOrNil) /\ Len(<<row>>) = 1
      OBVIOUS
    <3>4. \A c \in Client : table[c] \in Seq(RowOrNil) /\ Len(table[c]) = 1
      BY <3>2, <3>3
    <3>5. table \in [Client -> Seq(RowOrNil)]
      BY <3>4 DEF Init
    <3>6. applied = [n \in Replica |-> [c \in Client |-> 1]]
      BY DEF Init
    <3>7. \A n \in Replica, c \in Client : applied[n][c] \in 1 .. Len(table[c])
      <4>1. \A n \in Replica, c \in Client : applied[n][c] = 1
        BY <3>6
      <4>2. 1 \in 1 .. 1
        OBVIOUS
      <4>3. ASSUME NEW n \in Replica, NEW c \in Client
            PROVE  applied[n][c] \in 1 .. Len(table[c])
        <5>1. applied[n][c] = 1 /\ Len(table[c]) = 1
          BY <3>4, <4>1
        <5> QED BY <4>2, <5>1, Zenon
      <4> QED BY <4>3
    <3>8. TableInv
      BY <3>5, <3>6, <3>7 DEF TableInv
    <3> QED BY <3>8 DEF Init, StoreInv, RowOrNil
  <2>5. KnownInv
    <3>1. \A c \in Client : Len(table[c]) = 1 /\ known[c] = {table[c][1]} \ {Nil}
      BY DEF Init
    <3>2. hash = [c \in Client |-> Nil] /\ tasks = {}
      BY DEF Init
    <3> QED BY <3>1, <3>2 DEF KnownInv
  <2>6. ChanInv /\ \A s \in Server : WaitInv(s) /\ AnswerInv(s)
    BY <2>1, <2>2 DEF Init, ChanInv, WaitInv, AnswerInv, Busy
  <2> QED BY <2>3, <2>4, <2>5, <2>6 DEF Inv
<1>2. Inv /\ [Next]_vars => Inv'
  <2> SUFFICES ASSUME Inv, [Next]_vars PROVE Inv'
    OBVIOUS
  <2>1. ASSUME NEW s \in Server, Step(s) PROVE Inv'
    BY <2>1, HGetKeeps, HSetKeeps, GivingUpKeeps DEF Step
  <2>2. ASSUME NEW s \in Server, NEW call \in Calls, Begin(s, call) PROVE Inv'
    BY <2>2, BeginKeeps
  <2>3. ASSUME NEW t \in tasks, TaskSend(t) PROVE Inv'
    BY <2>3, TaskSendKeeps
  <2>4. ASSUME NEW t \in tasks, NEW fate \in Fate, TaskQuery(t, fate) PROVE Inv'
    BY <2>4, TaskQueryKeeps
  <2>5. CASE \/ \E r \in Records, fate \in Fate : RegisterClient(r[1], r[2], fate)
             \/ \E c \in Client : DeleteFromCache(c) \/ Expire(c)
    BY <2>5, ChangesKeep
  <2>6. CASE \/ \E c \in Client : ChangeTable(c, Nil)
             \/ \E r \in Rows : ChangeTable(r[1], r[2])
             \/ \E n \in Replica, c \in Client : Replicate(n, c)
    BY <2>6, TableChangesKeep
  <2>7. CASE UNCHANGED vars
    <3>1. /\ table' = table /\ applied' = applied /\ hash' = hash /\ strings' = strings /\ op' = op
          /\ tasks' = tasks /\ known' = known /\ during' = during /\ calm' = calm
          /\ calls' = calls
      BY <2>7 DEF vars, store, scylla, seen
    <3>2. StoreInv' /\ ShapeInv' /\ KnownInv' /\ ChanInv'
      BY <3>1 DEF Inv, StoreInv, TableInv, ShapeInv, KnownInv, ChanInv
    <3>3. \A s \in Server : WaitInv(s)' /\ AnswerInv(s)'
      BY <3>1 DEF Inv, WaitInv, AnswerInv, Answered
    <3> QED BY <3>2, <3>3 DEF Inv
  <2> QED BY <2>1, <2>2, <2>3, <2>4, <2>5, <2>6, <2>7 DEF Next
<1> QED BY <1>1, <1>2, PTL DEF Spec

\* Types: what redis and the tasks hold is text as the table has it, also
\* after a registration.
THEOREM RegistrarTyped == Spec => []TypeOK
<1>1. Inv => TypeOK
  BY DEF Inv, StoreInv, TableInv, ShapeInv, Shaped, RowOrNil, Task, TypeOK
<1> QED BY <1>1, RegistrarInvariant, PTL

\* No lookup answers from a row that was never stored or registered, and one of
\* a literal id never from a row that was not this client's.
THEOREM AnswersWereKnown == Spec => []ServedWasKnown
<1>1. Inv => ServedWasKnown
  BY DEF Inv, AnswerInv, ServedWasKnown
<1> QED BY <1>1, RegistrarInvariant, PTL

\* A lookup that missed the cache answers from what some replica held meanwhile.
THEOREM MissesAreFresh == Spec => []MissIsFresh
<1>1. Inv => MissIsFresh
  BY DEF Inv, AnswerInv, MissIsFresh
<1> QED BY <1>1, RegistrarInvariant, PTL

\* A client whose row all replicas have all along is found, if nothing failed.
THEOREM PresentClientsAreFound == Spec => []PresentIsFound
<1>1. Inv => PresentIsFound
  BY DEF Inv, AnswerInv, PresentIsFound
<1> QED BY <1>1, RegistrarInvariant, PTL
=============================================================================
