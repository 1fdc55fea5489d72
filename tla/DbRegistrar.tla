----------------------------- MODULE DbRegistrar -----------------------------
(***************************************************************************)
(* DBRegistrar of oxide-auth-db: client records in a scylla table, behind a  *)
(* redis cache that the instances of the server share.                       *)
(*                                                                         *)
(* Redis holds the hash <prefix>clients, one field per client, which lookups *)
(* read and fill, and one string per client, <prefix><client_id>, which      *)
(* register_client writes.  A client called "clients" shares its key with    *)
(* the hash.  The table is changed by its operator, never by this code.      *)
(*                                                                         *)
(* The table is replicated, and the session reads it at LocalOne: one        *)
(* replica answers, and it may lag behind.  get_client writes the id into    *)
(* the text of its query as it is: an id that is not literal, one with a     *)
(* quote in it, makes another query, which may select any row or none.       *)
(***************************************************************************)
EXTENDS Registrar, FiniteSets, Sequences

CONSTANTS
  Server,    \* instances of the server
  HashId,    \* the client id "clients"
  Literal,   \* the client ids that are literals in the text of a query
  Replica,   \* the replicas of the table
  Panic,     \* an unwrap fails
  Calls,     \* the calls of the Registrar trait considered
  Rows,      \* the rows the operator may store: pairs <<client, Row>>
  Records,   \* what register_client may be called with: pairs
             \*   <<client, EncodedClient>>
  MaxCalls, MaxChanges   \* bounds: lookups; changes by operator and callers

\* StringfiedEncodedClient: a uri or scope that does not parse is Bad, an
\* absent redirect_uri is Nil, secret = Nil is a public client.
Row == [uri : UriText \cup {Nil, Bad}, more : SUBSET (UriText \cup {Bad}),
        scope : Scope \cup {Bad}, secret : Pass \cup {Nil}]

Call == [kind : {"bound_redirect"}, client : Client, arg : UriText \cup {Nil}]
          \cup [kind : {"negotiate"}, client : Client, arg : RegisteredUrl]
          \cup [kind : {"check"}, client : Client, arg : Pass \cup {Nil}]

ASSUME DbRegistrarAssumption ==
  /\ Literal \subseteq Client
  /\ Calls \subseteq Call
  /\ Rows \subseteq Client \X Row
  /\ Records \subseteq Client \X EncodedClient
  /\ {MaxCalls, MaxChanges} \subseteq Nat

VARIABLES
  table,    \* scylla: client -> what its row (or Nil) was, write by write
  applied,  \* applied[n][c]: how many of the writes of c replica n has
  hash,     \* redis hash <prefix>clients: client -> Row or Nil
  strings,  \* redis keys <prefix><client_id>: client -> Row or Nil
  op,       \* op[s]: the call instance s is serving or has served last
  tasks,    \* queries of get_client, running in tasks of their own
  \* History.
  known,    \* rows that were in the table or registered, per client
  during,   \* during[s]: what scylla could answer for the client during the call
  calm,     \* calm[s]: nothing has stood in the way of the call, see Fine
  calls, changes   \* counters

scylla == <<table, applied>>
store == <<scylla, hash, strings>>
seen == <<during, calm>>
vars == <<store, op, tasks, known, seen, calls, changes>>

NoOp == [pc |-> "idle", call |-> Nil, chan |-> 0, row |-> Nil, hit |-> FALSE,
         failed |-> FALSE, result |-> Nil]

Init ==
  /\ table \in [Client -> {<<row>> : row \in {r[2] : r \in Rows} \cup {Nil}}]
  /\ \A c \in Client : table[c] = <<Nil>> \/ <<c, table[c][1]>> \in Rows
  /\ applied = [n \in Replica |-> [c \in Client |-> 1]]
  /\ hash = [c \in Client |-> Nil]
  /\ strings = [c \in Client |-> Nil]
  /\ op = [s \in Server |-> NoOp]
  /\ tasks = {}
  /\ known = [c \in Client |-> {table[c][1]} \ {Nil}]
  /\ during = [s \in Server |-> {}]
  /\ calm = [s \in Server |-> FALSE]
  /\ calls = 0
  /\ changes = 0

----------------------------------------------------------------------------
(* Conversions and answers *)

Exactly(text) == [exact |-> TRUE, text |-> text]

\* to_encoded_client: every uri becomes an exact one.
ToEncodedClient(row) ==
  CASE row.uri \in {Nil, Bad} -> Nil
    [] row.uri \in UriText /\ (Bad \in row.more \/ row.scope = Bad) -> Panic
    [] OTHER -> [uri |-> Exactly(row.uri), more |-> {Exactly(u) : u \in row.more},
                 scope |-> row.scope, pass |-> row.secret]

\* Mutant: a url is stored with its kind instead of as text.
FromEncodedClientRaw(client) ==
  [uri |-> client.uri, more |-> client.more, scope |-> client.scope,
   secret |-> client.pass]

FromEncodedClient(client) ==
  [uri |-> client.uri.text, more |-> {u.text : u \in client.more},
   scope |-> client.scope, secret |-> client.pass]

\* What bound_redirect, negotiate and check make of the record found; Nil is
\* Err(Unspecified).
Result(call, client) ==
  CASE client \in {Nil, Panic} -> client
    [] client \notin {Nil, Panic} /\ call.kind = "bound_redirect" ->
         BoundRedirect(client, call.arg)
    [] client \notin {Nil, Panic} /\ call.kind = "negotiate" ->
         Negotiate(call.client, client, call.arg)
    [] client \notin {Nil, Panic} /\ call.kind = "check" ->
         IF Check(client, call.arg) THEN "Ok" ELSE Nil

HashUsable(str) == HashId \notin Client \/ str[HashId] = Nil

\* The row of c, or Nil, on the replicas.
Held(tab, app, c) == {tab[c][app[n][c]] : n \in Replica}

\* What a query for c can select: what one replica has, or anything.
Readable(tab, app, c) ==
  IF c \in Literal THEN Held(tab, app, c)
  ELSE {Nil} \cup UNION {Held(tab, app, d) : d \in Client}

WellFormed(row) == ToEncodedClient(row) \notin {Nil, Panic}

\* Nothing stands in the way of a lookup of c: every replica has its row, well
\* formed, and so is a cached one, and the hash is a hash.
Fine(rows, str, hsh, c) ==
  /\ HashUsable(str)
  /\ \A row \in rows : row # Nil /\ WellFormed(row)
  /\ hsh[c] # Nil => WellFormed(hsh[c])

Busy(o) == o.pc \in {"hget", "query", "hset"}

\* History: what an instance has lived through since its call began.
Observe ==
  LET begins(s) == ~Busy(op[s]) /\ Busy(op'[s])
      c(s) == op'[s].call.client
      rows(s) == Readable(table', applied', c(s))
      fine(s) == Fine(rows(s), strings', hash', c(s))
  IN
  /\ during' = [s \in Server |->
       IF begins(s) THEN rows(s)
       ELSE IF Busy(op[s]) THEN during[s] \cup rows(s) ELSE during[s]]
  /\ calm' = [s \in Server |->
       IF begins(s) THEN fine(s)
       ELSE IF Busy(op[s]) THEN calm[s] /\ ~op'[s].failed /\ fine(s) ELSE calm[s]]

----------------------------------------------------------------------------
(* find_client_by_id, called by bound_redirect, negotiate and check *)

Begin(s, call) ==
  /\ ~Busy(op[s])
  /\ calls < MaxCalls
  /\ calls' = calls + 1
  /\ op' = [op EXCEPT ![s] = [NoOp EXCEPT !.pc = "hget", !.call = call, !.chan = calls]]
  /\ UNCHANGED <<store, tasks, known, changes>>
  /\ Observe

\* The call of s returns.
Done(s, client, failed) ==
  op' = [op EXCEPT ![s].pc = "done", ![s].chan = 0, ![s].row = Nil, ![s].failed = failed,
                   ![s].result = Result(op[s].call, client)]

\* get_connection fails.
NoConnection(s) ==
  /\ op[s].pc = "hget"
  /\ Done(s, Nil, TRUE)
  /\ UNCHANGED <<store, tasks, known, calls, changes>>
  /\ Observe

\* An error of HGET counts as a miss.
HGet(s, fate) ==
  LET c == op[s].call.client
      cached == IF fate = "ok" /\ HashUsable(strings) THEN hash[c] ELSE Nil
  IN
  /\ op[s].pc = "hget"
  /\ fate \in {"ok", "refused"}
  /\ IF cached # Nil
     THEN /\ op' = [op EXCEPT ![s].pc = "done", ![s].chan = 0, ![s].hit = TRUE,
                              ![s].result = Result(op[s].call, ToEncodedClient(cached))]
          /\ UNCHANGED tasks
     ELSE /\ op' = [op EXCEPT ![s].pc = "query", ![s].failed = fate # "ok"]
          /\ tasks' = tasks \cup {[chan |-> op[s].chan, client |-> c, row |-> Nil,
                                   at |-> "asked"]}
  /\ UNCHANGED <<store, known, calls, changes>>
  /\ Observe

\* get_client, the spawned task: scylla answers the query, or fails.
TaskQuery(t, fate) ==
  /\ t.at = "asked"
  /\ \/ /\ fate = "ok"
        /\ \E row \in Readable(table, applied, t.client) :
             tasks' = (tasks \ {t}) \cup {[t EXCEPT !.at = "answered", !.row = row]}
     \/ /\ fate = "refused"
        /\ tasks' = (tasks \ {t}) \cup {[t EXCEPT !.at = "failed"]}
  /\ UNCHANGED <<store, op, known, calls, changes>>
  /\ Observe

\* Mutant: one channel for all lookups.
ListensToAny(s, t) == op[s].pc = "query"

\* Mutant: one channel per client.
ListensToClient(s, t) == op[s].pc = "query" /\ op[s].call.client = t.client

\* The channel is made by the call that waits on it.
Listens(s, t) == op[s].pc = "query" /\ op[s].chan = t.chan

\* The task sends its answer.  After a timeout nobody listens: the task
\* panics, and nothing else happens.
TaskSend(t) ==
  /\ t.at # "asked"
  /\ tasks' = tasks \ {t}
  /\ \/ \E s \in Server :
          /\ Listens(s, t)
          /\ IF t.row = Nil THEN Done(s, Nil, op[s].failed \/ t.at = "failed")
             ELSE op' = [op EXCEPT ![s].pc = "hset", ![s].row = t.row]
     \/ (\A s \in Server : ~Listens(s, t)) /\ UNCHANGED op
  /\ UNCHANGED <<store, known, calls, changes>>
  /\ Observe

\* Mutant: recv instead of recv_timeout.
TimeoutNever(s) == FALSE

\* recv_timeout gives up after a second.
Timeout(s) ==
  /\ op[s].pc = "query"
  /\ Done(s, Nil, TRUE)
  /\ UNCHANGED <<store, tasks, known, calls, changes>>
  /\ Observe

\* Mutant: a field that was there already is an error, as in AuthMap.
HSetNewOnly(s, fate) ==
  LET c == op[s].call.client
      set == fate # "refused" /\ HashUsable(strings)
  IN
  /\ op[s].pc = "hset"
  /\ hash' = IF set THEN [hash EXCEPT ![c] = op[s].row] ELSE hash
  /\ IF set /\ fate = "ok" /\ hash[c] = Nil
     THEN Done(s, ToEncodedClient(op[s].row), op[s].failed)
     ELSE Done(s, Nil, op[s].failed \/ fate # "ok")
  /\ UNCHANGED <<scylla, strings, tasks, known, calls, changes>>
  /\ Observe

\* The row is cached before it is converted; if that fails, so does the lookup.
HSet(s, fate) ==
  LET set == fate # "refused" /\ HashUsable(strings)
  IN
  /\ op[s].pc = "hset"
  /\ hash' = IF set THEN [hash EXCEPT ![op[s].call.client] = op[s].row] ELSE hash
  /\ IF set /\ fate = "ok" THEN Done(s, ToEncodedClient(op[s].row), op[s].failed)
     ELSE Done(s, Nil, op[s].failed \/ fate # "ok")
  /\ UNCHANGED <<scylla, strings, tasks, known, calls, changes>>
  /\ Observe

----------------------------------------------------------------------------
(* Changes: by callers of the registrar, by redis, by the table's operator *)

Change ==
  /\ changes < MaxChanges
  /\ changes' = changes + 1
  /\ UNCHANGED <<scylla, op, tasks, calls>>

\* The key of c holds value: a hash that was there is gone.
SetString(c, value) ==
  /\ strings' = [strings EXCEPT ![c] = value]
  /\ hash' = IF c = HashId THEN [d \in Client |-> Nil] ELSE hash

\* register_client: SET with an expiry of an hour, nothing else.
RegisterClient(c, client, fate) ==
  /\ Change
  /\ IF fate = "refused" THEN UNCHANGED <<strings, hash>>
     ELSE SetString(c, FromEncodedClient(client))
  /\ known' = IF fate = "refused" THEN known
              ELSE [known EXCEPT ![c] = @ \cup {FromEncodedClient(client)}]
  /\ Observe

DeleteFromCache(c) ==
  /\ Change
  /\ SetString(c, Nil)
  /\ UNCHANGED known
  /\ Observe

\* The expiry of register_client.
Expire(c) ==
  /\ strings[c] # Nil
  /\ strings' = [strings EXCEPT ![c] = Nil]
  /\ UNCHANGED <<scylla, hash, op, tasks, known, calls, changes>>
  /\ Observe

\* The operator inserts, changes or deletes a row.  No replica has it yet.
ChangeTable(c, row) ==
  /\ changes < MaxChanges
  /\ changes' = changes + 1
  /\ table[c][Len(table[c])] # row
  /\ table' = [table EXCEPT ![c] = Append(@, row)]
  /\ known' = [known EXCEPT ![c] = @ \cup ({row} \ {Nil})]
  /\ UNCHANGED <<applied, hash, strings, op, tasks, calls>>
  /\ Observe

\* A write reaches a replica; one that is older than what it has does nothing.
Replicate(n, c) ==
  \E v \in applied[n][c] + 1 .. Len(table[c]) :
    /\ applied' = [applied EXCEPT ![n][c] = v]
    /\ UNCHANGED <<table, hash, strings, op, tasks, known, calls, changes>>
    /\ Observe

Fate == {"ok", "lost", "refused"}

Step(s) ==
  \/ \E fate \in Fate : HGet(s, fate) \/ HSet(s, fate)
  \/ NoConnection(s)
  \/ Timeout(s)

Next ==
  \/ \E s \in Server : Step(s)
  \/ \E s \in Server, call \in Calls : Begin(s, call)
  \/ \E t \in tasks : TaskSend(t)
  \/ \E t \in tasks, fate \in Fate : TaskQuery(t, fate)
  \/ \E r \in Records, fate \in Fate : RegisterClient(r[1], r[2], fate)
  \/ \E c \in Client : DeleteFromCache(c) \/ Expire(c) \/ ChangeTable(c, Nil)
  \/ \E r \in Rows : ChangeTable(r[1], r[2])
  \/ \E n \in Replica, c \in Client : Replicate(n, c)

\* A lookup goes on; nothing is assumed of scylla and of the task.
Spec == Init /\ [][Next]_vars /\ \A s \in Server : WF_vars(Step(s))

----------------------------------------------------------------------------
(* Properties *)

\* Types; what is stored is text as the table has it.
TypeOK ==
  /\ {hash, strings} \subseteq [Client -> Row \cup {Nil}]
  /\ table \in [Client -> Seq(Row \cup {Nil})]
  /\ \A n \in Replica, c \in Client : applied[n][c] \in 1 .. Len(table[c])
  /\ \A s \in Server : /\ op[s].pc \in {"idle", "hget", "query", "hset", "done"}
                       /\ op[s].call \in Call \cup {Nil}
                       /\ op[s].row \in Row \cup {Nil}
  /\ tasks \subseteq [chan : Nat, client : Client, row : Row \cup {Nil},
                      at : {"asked", "answered", "failed"}]

Answered(s, rows) ==
  \E row \in rows \ {Nil} : op[s].result = Result(op[s].call, ToEncodedClient(row))

\* The rows ever stored or registered for c; for an id that is not a literal
\* in the query, those of all clients.
KnownFor(rows, c) == IF c \in Literal THEN rows[c] ELSE UNION {rows[d] : d \in Client}

\* No lookup answers from a row that nobody has ever stored or registered, and
\* one of a literal id never from a row of another client, whatever answers
\* arrive late.
ServedWasKnown ==
  \A s \in Server :
    op[s].pc = "done" /\ op[s].result # Nil => Answered(s, KnownFor(known, op[s].call.client))

\* A lookup that missed the cache answers from what some replica of the table
\* held between its call and its return, never from the answer to an earlier
\* query.
MissIsFresh ==
  \A s \in Server :
    op[s].pc = "done" /\ op[s].result # Nil /\ ~op[s].hit => Answered(s, during[s])

\* A client that every replica has a well-formed row of during the whole call
\* is found, unless something failed or the cache was in the way: instances
\* that look up the same client at once do not make each other fail.
PresentIsFound ==
  \A s \in Server :
    op[s].pc = "done" /\ calm[s] => Answered(s, KnownFor(known, op[s].call.client))

\* No lookup waits for ever, even if scylla never answers.
LookupEnds == \A s \in Server : Busy(op[s]) ~> ~Busy(op[s])
=============================================================================
