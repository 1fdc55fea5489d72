---------------------------- MODULE TokenSigner ----------------------------
(***************************************************************************)
(* TokenSigner of primitives/issuer.rs with the Assertion of                 *)
(* primitives/generator.rs: grants are signed and handed out as the token,   *)
(* nothing is stored.  `Issuer for &TokenSigner` lets several threads issue  *)
(* at the same time; they share an atomic counter, and a call that makes a   *)
(* refresh token takes two numbers from it in two steps.  Settings are       *)
(* changed through &mut self, hence never while a call runs.  The process    *)
(* may be restarted, with the key it had or with another one.                *)
(***************************************************************************)
EXTENDS Integers, Sequences

CONSTANTS
  Nil,
  Thread,      \* threads that share the signer
  Grant,       \* grants, their `until` aside
  Private,     \* those with a private extension, which cannot be signed
  Key,         \* signing keys
  Durations,   \* what valid_for is called with
  Usize,       \* number of values of usize
  Second,      \* clock ticks per second
  MaxTime,     \* bound: the clock
  MaxCalls,    \* bound: calls of issue
  MaxRestarts  \* bound: restarts of the process

ASSUME TokenSignerAssumption ==
  /\ Private \subseteq Grant
  /\ Durations \subseteq Nat
  /\ Usize \in Nat \ {0} /\ Second \in Nat \ {0}
  /\ MaxTime \in Nat /\ MaxCalls \in Nat /\ MaxRestarts \in Nat
  /\ Nil \notin Nat /\ Nil \notin [grant : Grant, until : Int]

VARIABLES
  key,         \* the key of self.signer
  counter,     \* self.counter
  duration,    \* self.duration
  haveRefresh, \* self.have_refresh
  call,        \* call[t]: the issue thread t is running, see Call
  now,         \* the clock
  \* History.
  issued,      \* the tokens handed out, in the order of the answers
  used,        \* keys this and earlier processes had
  reused,      \* keys whose counter has started over
  calls, restarts

signer == <<key, counter, duration, haveRefresh>>
vars == <<signer, call, now, issued, used, reused, calls, restarts>>

----------------------------------------------------------------------------
(* Assertion *)

\* A signed string: serde and HMAC tell apart all that is in it.  `until` is
\* written as whole seconds.
Signed == [key : Key, ctr : 0 .. Usize - 1, grant : Grant \ Private, until : Nat,
           tag : {"token", "refresh"}]

\* TaggedAssertion::sign.
Sign(k, ctr, g, until, tag) ==
  IF g \in Private
  THEN Nil
  ELSE [key |-> k, ctr |-> ctr, grant |-> g, until |-> until \div Second, tag |-> tag]

\* Mutant: the tag is not compared.
ExtractAnyTag(k, s, tag) ==
  IF s.key = k THEN [grant |-> s.grant, until |-> s.until * Second] ELSE Nil

\* TaggedAssertion::extract: the signature must be of this key and the tag
\* the expected one; the time comes back as the beginning of its second.
Extract(k, s, tag) ==
  IF s.key = k /\ s.tag = tag
  THEN [grant |-> s.grant, until |-> s.until * Second]
  ELSE Nil

----------------------------------------------------------------------------
(* TokenSigner *)

AsToken(ctr, c) == Sign(key, ctr, c.grant, c.until, "token")
AsRefresh(ctr, c) == Sign(key, ctr, c.grant, c.until, "refresh")

\* A running issue: the number it takes next, the grant with its final
\* `until` (clock ticks), and the first number.
Call == [pc : {"idle", "first", "second"}, grant : Grant \cup {Nil}, until : Nat,
         first : 0 .. Usize - 1]

Idle == [pc |-> "idle", grant |-> Nil, until |-> 0, first |-> 0]

Exclusive == \A t \in Thread : call[t].pc = "idle"

Init ==
  /\ key \in Key
  /\ counter = 0
  /\ duration = Nil
  /\ haveRefresh = FALSE
  /\ call = [t \in Thread |-> Idle]
  /\ now = 0
  /\ issued = <<>>
  /\ used = {key}
  /\ reused = {}
  /\ calls = 0
  /\ restarts = 0

\* issue: a duration that was set replaces the grant's `until`.
IssueBegin(t, g, until) ==
  /\ call[t].pc = "idle"
  /\ calls < MaxCalls
  /\ calls' = calls + 1
  /\ call' = [call EXCEPT ![t] =
                [pc |-> "first", grant |-> g, first |-> 0,
                 until |-> IF duration = Nil THEN until ELSE now + duration]]
  /\ UNCHANGED <<signer, now, issued, used, reused, restarts>>

\* next_counter: fetch_add, which wraps.
NextCounter ==
  /\ counter' = (counter + 1) % Usize
  /\ reused' = IF counter + 1 = Usize THEN reused \cup {key} ELSE reused

\* The call ends.  Err when the grant could not be signed: the numbers are
\* used up all the same.
Answer(t, token, refresh) ==
  /\ call' = [call EXCEPT ![t] = Idle]
  /\ issued' = IF token = Nil
               THEN issued
               ELSE Append(issued, [token |-> token, refresh |-> refresh,
                                    grant |-> call[t].grant, until |-> call[t].until])

\* Mutant: an unrefreshable token does not use up its number.
FirstCounterKept(t) ==
  /\ call[t].pc = "first"
  /\ IF haveRefresh
     THEN /\ NextCounter
          /\ call' = [call EXCEPT ![t].pc = "second", ![t].first = counter]
          /\ UNCHANGED issued
     ELSE /\ Answer(t, AsToken(counter, call[t]), Nil)
          /\ UNCHANGED <<counter, reused>>
  /\ UNCHANGED <<key, duration, haveRefresh, now, used, calls, restarts>>

\* unrefreshable_token, and the first number of refreshable_token.
FirstCounter(t) ==
  /\ call[t].pc = "first"
  /\ NextCounter
  /\ IF haveRefresh
     THEN /\ call' = [call EXCEPT ![t].pc = "second", ![t].first = counter]
          /\ UNCHANGED issued
     ELSE Answer(t, AsToken(counter, call[t]), Nil)
  /\ UNCHANGED <<key, duration, haveRefresh, now, used, calls, restarts>>

\* The second number of refreshable_token; both strings are signed.
SecondCounter(t) ==
  /\ call[t].pc = "second"
  /\ NextCounter
  /\ Answer(t, AsToken(call[t].first, call[t]), AsRefresh(counter, call[t]))
  /\ UNCHANGED <<key, duration, haveRefresh, now, used, calls, restarts>>

\* valid_for, valid_for_default (Nil) and generate_refresh_tokens.
ValidFor(d) ==
  /\ Exclusive
  /\ duration' = d
  /\ UNCHANGED <<key, counter, haveRefresh, call, now, issued, used, reused, calls, restarts>>

GenerateRefreshTokens(b) ==
  /\ Exclusive
  /\ haveRefresh' = b
  /\ UNCHANGED <<key, counter, duration, call, now, issued, used, reused, calls, restarts>>

\* The process ends and another one constructs its signer: `new` with a key
\* of its choice, or `ephemeral` with one never seen before.
New(k) ==
  /\ restarts < MaxRestarts
  /\ restarts' = restarts + 1
  /\ key' = k
  /\ counter' = 0
  /\ duration' = Nil
  /\ haveRefresh' = FALSE
  /\ call' = [t \in Thread |-> Idle]
  /\ used' = used \cup {k}
  /\ reused' = IF k \in used THEN reused \cup {k} ELSE reused
  /\ UNCHANGED <<now, issued, calls>>

Tick ==
  /\ now < MaxTime
  /\ now' = now + 1
  /\ UNCHANGED <<signer, call, issued, used, reused, calls, restarts>>

\* recover_token and recover_refresh for any string; refresh always fails.
RecoverToken(s) == Extract(key, s, "token")
RecoverRefresh(s) == IF haveRefresh THEN Extract(key, s, "refresh") ELSE Nil

Next ==
  \/ \E t \in Thread, g \in Grant, until \in 0 .. MaxTime : IssueBegin(t, g, until)
  \/ \E t \in Thread : FirstCounter(t)
  \/ \E t \in Thread : SecondCounter(t)
  \/ \E d \in Durations \cup {Nil} : ValidFor(d)
  \/ \E b \in BOOLEAN : GenerateRefreshTokens(b)
  \/ \E k \in Key : New(k)
  \/ Tick

Spec == Init /\ [][Next]_vars

----------------------------------------------------------------------------
(* Properties *)

\* next_counter: "We only need to ensure that each return value occurs at most
\* once."  Unless the counter started over (it wrapped, or a new process took
\* a key that was in use before), no two calls return the same string,
\* however threads interleave and settings change.
TokensDiffer ==
  \A i, j \in DOMAIN issued :
    i # j /\ issued[i].token.key \notin reused =>
      /\ issued[i].token # issued[j].token
      /\ issued[i].refresh # Nil => issued[i].refresh # issued[j].refresh

\* Rounding down to seconds shortens a lifetime by less than a second.
Rounded(c, until) == c.until <= until /\ until < c.until + Second

\* "tokens, once issued, are impossible to revoke": as long as the signer has
\* the key, also after a restart and whatever the settings are by then, a
\* token is recovered as the grant it was issued for, at most one second
\* short.  A refresh token is recovered only while refresh tokens are on, and
\* neither kind of token passes for the other.
RecoveredIsIssued ==
  \A i \in DOMAIN issued :
    LET e == issued[i] IN
    e.token.key = key =>
      /\ RecoverToken(e.token) # Nil
      /\ RecoverToken(e.token).grant = e.grant
      /\ Rounded(RecoverToken(e.token), e.until)
      /\ RecoverRefresh(e.token) = Nil
      /\ e.refresh # Nil =>
           /\ RecoverToken(e.refresh) = Nil
           /\ haveRefresh => /\ RecoverRefresh(e.refresh) # Nil
                             /\ RecoverRefresh(e.refresh).grant = e.grant
                             /\ Rounded(RecoverRefresh(e.refresh), e.until)
=============================================================================
