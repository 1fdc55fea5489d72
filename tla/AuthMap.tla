------------------------------- MODULE AuthMap -------------------------------
(***************************************************************************)
(* AuthMap of primitives/authorizer.rs: the authorization codes, kept in     *)
(* redis.  Several server instances share one redis cluster; authorize and   *)
(* extract are sequences of single redis commands, and the commands of       *)
(* different instances interleave.  Within an instance `&mut self` lets one   *)
(* operation run at a time.                                                  *)
(*                                                                         *)
(* A command is answered ("ok"), or reported as failed after redis applied   *)
(* it ("lost"), or failed without effect ("refused").  An instance may crash *)
(* between two commands.  An operation that returns Err(()), Ok(None) or     *)
(* crashes tells its caller nothing: its instance is simply idle again.      *)
(***************************************************************************)
EXTENDS TagGrant

CONSTANTS
  Server,        \* server instances sharing the redis cluster
  Replies,       \* the fates a redis command can meet here
  OverflowChecks,\* is the build one that panics on integer overflow?
  MaxAuthorize   \* bound: number of calls of authorize

ASSUME AuthMapAssumption ==
  /\ Replies \subseteq {"ok", "lost", "refused"}
  /\ OverflowChecks \in BOOLEAN
  /\ MaxAuthorize \in Nat

VARIABLES
  tagger,    \* the generator AuthMap::new was given
  usage,     \* redis key oauth2:authmap_usage; a missing key reads as 0
  authmap,   \* redis hash oauth2:authmap: code -> grant, Nil where no field
  op,        \* op[s]: the operation instance s is running, see Op
  \* History.
  drawn,     \* tags the generators returned
  created,   \* created[t]: how often HSET created the field t
  redeemed,  \* redeemed[t]: how often extract(t) returned a grant
  answer,    \* answer[t]: the grant it returned last
  disclosed, \* disclosed[t]: how often authorize returned Ok(t)
  calls,     \* calls of authorize so far
  faulty     \* has a command failed or an instance crashed?

redis == <<usage, authmap>>
history == <<drawn, created, redeemed, answer, disclosed, calls, faulty>>
vars == <<tagger, redis, op, history>>

\* Local variables of a running operation: the redis command it issues next,
\* the grant it stores or has read, its curr_usage and its token.
Op == [pc : {"idle", "get_usage", "hset", "set_usage", "hget", "hdel"},
       grant : Grant \cup {Nil}, curr : Usage, code : Tag \cup {Nil}]

Idle == [pc |-> "idle", grant |-> Nil, curr |-> 0, code |-> Nil]

Init ==
  /\ tagger \in Taggers
  /\ usage = 0
  /\ authmap = [t \in Tag |-> Nil]
  /\ op = [s \in Server |-> Idle]
  /\ drawn = {}
  /\ created = [t \in Tag |-> 0]
  /\ redeemed = [t \in Tag |-> 0]
  /\ answer = [t \in Tag |-> Nil]
  /\ disclosed = [t \in Tag |-> 0]
  /\ calls = 0
  /\ faulty = FALSE

Return(s) == op' = [op EXCEPT ![s] = Idle]

\* Did redis execute the command whose fate is r?
Applied(r) == r # "refused"

NoteFault(r) == faulty' = (faulty \/ r # "ok")

----------------------------------------------------------------------------
(* authorize *)

AuthorizeBegin(s, g) ==
  /\ op[s].pc = "idle"
  /\ calls < MaxAuthorize
  /\ calls' = calls + 1
  /\ op' = [op EXCEPT ![s] =
              [pc |-> "get_usage", grant |-> g, curr |-> 0, code |-> Nil]]
  /\ UNCHANGED <<tagger, redis, drawn, created, redeemed, answer, disclosed, faulty>>

\* GET of the usage: a failed GET counts as 0.  The tag is computed from
\* `next_usage - 1`, which underflows when next_usage wrapped to 0: a panic
\* with overflow checks, curr_usage again without.
AuthorizeGetUsage(s, r) ==
  LET u == IF r = "ok" THEN usage ELSE 0
      panics == OverflowChecks /\ WrappingAdd(u, 1) = 0
  IN
  /\ op[s].pc = "get_usage"
  /\ \/ /\ panics
        /\ Return(s)
        /\ UNCHANGED drawn
     \/ /\ ~panics
        /\ \E t \in TagOf(tagger, drawn, u, op[s].grant) :
             \/ /\ t = Nil
                /\ Return(s)
                /\ UNCHANGED drawn
             \/ /\ t # Nil
                /\ drawn' = drawn \cup {t}
                /\ op' = [op EXCEPT ![s].pc = "hset", ![s].curr = u, ![s].code = t]
  /\ NoteFault(r)
  /\ UNCHANGED <<tagger, redis, created, redeemed, answer, disclosed, calls>>

\* HSET must answer 1 (a new field).  Any other answer is an Err(()), but
\* the field has been written, over a grant that was there.
AuthorizeHset(s, r) ==
  LET t == op[s].code
      new == authmap[t] = Nil
  IN
  /\ op[s].pc = "hset"
  /\ authmap' = IF Applied(r) THEN [authmap EXCEPT ![t] = op[s].grant] ELSE authmap
  /\ created' = IF Applied(r) /\ new THEN [created EXCEPT ![t] = @ + 1] ELSE created
  /\ IF r = "ok" /\ new THEN op' = [op EXCEPT ![s].pc = "set_usage"] ELSE Return(s)
  /\ NoteFault(r)
  /\ UNCHANGED <<tagger, usage, drawn, redeemed, answer, disclosed, calls>>

\* SET of next_usage; only then is the code returned.
AuthorizeSetUsage(s, r) ==
  /\ op[s].pc = "set_usage"
  /\ usage' = IF Applied(r) THEN WrappingAdd(op[s].curr, 1) ELSE usage
  /\ disclosed' = IF r = "ok" THEN [disclosed EXCEPT ![op[s].code] = @ + 1]
                  ELSE disclosed
  /\ Return(s)
  /\ NoteFault(r)
  /\ UNCHANGED <<tagger, authmap, drawn, created, redeemed, answer, calls>>

----------------------------------------------------------------------------
(* extract *)

\* A client may present any string, at any time, to any instance.
ExtractBegin(s, t) ==
  /\ op[s].pc = "idle"
  /\ op' = [op EXCEPT ![s] =
              [pc |-> "hget", grant |-> Nil, curr |-> 0, code |-> t]]
  /\ UNCHANGED <<tagger, redis, history>>

\* HGET: a missing field and a failed command are both Ok(None).
ExtractHget(s, r) ==
  LET g == authmap[op[s].code]
  IN
  /\ op[s].pc = "hget"
  /\ IF r = "ok" /\ g # Nil
     THEN op' = [op EXCEPT ![s].pc = "hdel", ![s].grant = g]
     ELSE Return(s)
  /\ NoteFault(r)
  /\ UNCHANGED <<tagger, redis, drawn, created, redeemed, answer, disclosed, calls>>

\* Mutant: the number of removed fields is not looked at.
ExtractHdelAnyReply(s, r) ==
  LET t == op[s].code
      won == r = "ok"
  IN
  /\ op[s].pc = "hdel"
  /\ authmap' = IF Applied(r) THEN [authmap EXCEPT ![t] = Nil] ELSE authmap
  /\ redeemed' = IF won THEN [redeemed EXCEPT ![t] = @ + 1] ELSE redeemed
  /\ answer' = IF won THEN [answer EXCEPT ![t] = op[s].grant] ELSE answer
  /\ Return(s)
  /\ NoteFault(r)
  /\ UNCHANGED <<tagger, usage, drawn, created, disclosed, calls>>

\* Mutant: a failed HDEL counts as a removal.
ExtractHdelOnError(s, r) ==
  LET t == op[s].code
      won == authmap[t] # Nil
  IN
  /\ op[s].pc = "hdel"
  /\ authmap' = IF Applied(r) THEN [authmap EXCEPT ![t] = Nil] ELSE authmap
  /\ redeemed' = IF won THEN [redeemed EXCEPT ![t] = @ + 1] ELSE redeemed
  /\ answer' = IF won THEN [answer EXCEPT ![t] = op[s].grant] ELSE answer
  /\ Return(s)
  /\ NoteFault(r)
  /\ UNCHANGED <<tagger, usage, drawn, created, disclosed, calls>>

\* Mutant: the test of the answer is inverted.
ExtractHdelSwapped(s, r) ==
  LET t == op[s].code
      won == r = "ok" /\ authmap[t] = Nil
  IN
  /\ op[s].pc = "hdel"
  /\ authmap' = IF Applied(r) THEN [authmap EXCEPT ![t] = Nil] ELSE authmap
  /\ redeemed' = IF won THEN [redeemed EXCEPT ![t] = @ + 1] ELSE redeemed
  /\ answer' = IF won THEN [answer EXCEPT ![t] = op[s].grant] ELSE answer
  /\ Return(s)
  /\ NoteFault(r)
  /\ UNCHANGED <<tagger, usage, drawn, created, disclosed, calls>>

\* HDEL must answer 1 (this instance removed the field); the grant returned
\* is the one HGET read.
ExtractHdel(s, r) ==
  LET t == op[s].code
      won == r = "ok" /\ authmap[t] # Nil
  IN
  /\ op[s].pc = "hdel"
  /\ authmap' = IF Applied(r) THEN [authmap EXCEPT ![t] = Nil] ELSE authmap
  /\ redeemed' = IF won THEN [redeemed EXCEPT ![t] = @ + 1] ELSE redeemed
  /\ answer' = IF won THEN [answer EXCEPT ![t] = op[s].grant] ELSE answer
  /\ Return(s)
  /\ NoteFault(r)
  /\ UNCHANGED <<tagger, usage, drawn, created, disclosed, calls>>

----------------------------------------------------------------------------
\* The instance dies between two commands; the redis side stays as it is.
Crash(s) ==
  /\ op[s].pc # "idle"
  /\ Replies # {"ok"}
  /\ Return(s)
  /\ faulty' = TRUE
  /\ UNCHANGED <<tagger, redis, drawn, created, redeemed, answer, disclosed, calls>>

Step(s) ==
  \E r \in Replies :
    \/ AuthorizeGetUsage(s, r)
    \/ AuthorizeHset(s, r)
    \/ AuthorizeSetUsage(s, r)
    \/ ExtractHget(s, r)
    \/ ExtractHdel(s, r)

Next ==
  \E s \in Server :
    \/ \E g \in Grant : AuthorizeBegin(s, g)
    \/ \E t \in Tag : ExtractBegin(s, t)
    \/ Step(s)
    \/ Crash(s)

Spec == Init /\ [][Next]_vars

\* An instance that is not idle keeps running its operation.  Nobody has to
\* start one.
FairSpec == Spec /\ \A s \in Server : WF_vars(Step(s))

----------------------------------------------------------------------------
(* Properties *)

\* Values the variables can take.
TypeOK ==
  /\ tagger \in Taggers
  /\ usage \in Usage
  /\ authmap \in [Tag -> Grant \cup {Nil}]
  /\ op \in [Server -> Op]
  /\ drawn \in SUBSET Tag
  /\ created \in [Tag -> Nat]
  /\ redeemed \in [Tag -> Nat]
  /\ answer \in [Tag -> Grant \cup {Nil}]
  /\ disclosed \in [Tag -> Nat]
  /\ calls \in Nat
  /\ faulty \in BOOLEAN

\* "A code should not be usable twice": with random codes no interleaving of
\* extract calls on any number of instances, with any failures, lets two of
\* them return the grant.
SingleUse ==
  tagger = "random" => \A t \in Tag : redeemed[t] <= 1

\* Whatever the generator: every exchange used up a field that HSET created.
RedeemedWasCreated ==
  \A t \in Tag :
    redeemed[t] + (IF authmap[t] # Nil THEN 1 ELSE 0) <= created[t]

\* As far as its code binds a grant: a random code stands for the grant it was
\* drawn for, a signed one for what was signed of it.
Bound(g) == IF g = Nil \/ tagger = "random" THEN g ELSE Signed(g)

GrantBound == Grant \cup {Signed(g) : g \in Grant}

\* The HGET and the HDEL of extract act as one atomic removal: the detailed
\* map implements the promise of the Authorizer trait.  With random codes the
\* grant read by HGET is the very one that HDEL removes.  With signed codes an
\* authorize that reads the same usage may overwrite it in between, but only
\* with a grant that is the same up to the fraction of a second of its expiry.
Promise == INSTANCE CodeStore WITH
             Grant <- GrantBound,
             store <- [t \in Tag |-> Bound(authmap[t])],
             answer <- [t \in Tag |-> Bound(answer[t])]
ImplementsCodeStore == Promise!Spec

\* Two instances extracting one code cannot both fail: as long as nothing
\* fails, a code that an extract has found is redeemed by somebody.
ContendedCodeIsRedeemed ==
  \A t \in Tag :
    (\E s \in Server : op[s].pc = "hdel" /\ op[s].code = t)
      ~> (redeemed[t] > 0 \/ faulty)

\* The test suite all authorizers should pass: "We don't produce the same
\* token twice."
NeverTheSameCodeTwice == \A t \in Tag : disclosed[t] <= 1
=============================================================================
