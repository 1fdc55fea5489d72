# A TLA+ model of the oauth2 authorization server

This directory models the authorization server library of this repository, a fork of
oxide-auth whose codes and tokens live in a redis cluster shared by several server
instances. TLC checks the modules on small instances; TLAPS proves all that they check of
safety, for every number of instances, requests, grants, tokens, clients, parameters and
addons: for the two redis-backed maps, the signing issuer, the client database, the addon
lists, the state machines, the composed server and the endpoints with their adapters.

## 1. The system

| Part | State | Operations | Who calls it |
|---|---|---|---|
| `AuthMap` (`primitives/authorizer.rs`) | redis hash code → grant, redis usage counter | `authorize`, `extract` | authorization and access token flow |
| `TokenMap` (`primitives/issuer.rs`) | two redis hashes (access, refresh) of one record, redis usage counter; unused maps in the struct | `issue`, `refresh`, `recover_token`, `recover_refresh`, `import_grant`, `revoke` | access token, refresh, implicit and resource flow; operator |
| `TokenSigner` (`primitives/issuer.rs`) | a key, an atomic counter, two settings | the `Issuer` trait, by signing; `valid_for`, `generate_refresh_tokens` | the same, from several threads at once |
| Generators (`primitives/generator.rs`) | none (a key) | `tag(usage, grant)` | the two maps |
| `ClientMap` (`primitives/registrar.rs`) | client id → encoded client | `register_client`, `bound_redirect`, `negotiate`, `check` | every flow; operator |
| `DBRegistrar` (`oxide-auth-db`) | a scylla table (changed by others), a redis hash of cached rows, redis strings, query tasks | `find_client_by_id` under the `Registrar` trait, `register_client`, `delete_from_cache` | the same |
| State machines (`code_grant/*.rs`) | one enum per request | `new`, `advance` | sync and async executors |
| Executors (`code_grant/*.rs`, `token_grant`, `oxide-auth-async`) | one request in progress | ask the machine, call a primitive, feed the answer | endpoints |
| PKCE (`code_grant/extensions/pkce.rs`) | a private extension of the grant | `challenge`, `verify` | the extension step of two flows |
| Addons (`frontends/simple/extensions/list.rs`) | two lists of addons; their data in the grant | `push_*`, `extend` of both requests | the extension step of two flows |
| Endpoints (`endpoint/*.rs`, `oxide-auth-async`), simple frontend | the parts an endpoint has, `allow_credentials_in_body`; one request at a time | `prepare`, `execute` of four flows: wrap the request, run the executor, build the response | web frameworks |
| Adapters (`oxide-auth-actix`, `-iron`, `-rouille`, `-rocket`) | one request, whose body may be a stream | make a `WebRequest` of a message, set status and headers of a response, give an error a status | the application |

A request is handled by an executor: a loop that asks the machine for its output, calls
registrar, authorizer, issuer or extension, and feeds the answer back. The machines hold
no shared state; codes, tokens and client records are shared by all requests, and redis by
all instances.

What is hard here:

* every operation on codes and tokens is a sequence of single redis commands, and the
  commands of different instances interleave; none of the sequences is a transaction;
* a command can fail after it took effect, and an instance can die between two commands;
* the usage counter is read and written back without a lock, and it wraps;
* the machines are public types: an executor can inject any input in any state;
* between two calls of one request anything can happen to codes, tokens, clients and time;
* an endpoint may lack any of its parts, which requests need which of them is known only when
  one comes, and a response is built in several calls that may fail after a token was issued;
* a web request can be given to several flows, and with some frameworks its body is there
  only once, or has to be added by the application;
* several threads take numbers from the counter of `TokenSigner`, which starts over with the
  process while the key and the tokens stay;
* what an addon attaches to a code is read by lists that may have changed meanwhile;
* a lookup of a client waits a second for a task that asks scylla, and the answer may come
  later; the row it caches may be out of date when it is stored;
* scylla is read at consistency LocalOne, so one replica answers and it may lag behind; the
  client id is written into the text of the query as it is, so that an id with a quote in it
  may select the row of another client.

What makes each part correct:

* a code is redeemed at most once, by one of those who try, for the grant it was made for;
* a refresh token has at most one live access token, and what redis holds about it is
  consistent after every prefix of every operation; a replaced access token stays dead;
* a machine answers Ok only after every check, in order, once;
* a bearer token goes only to a client that has proved itself, for a consent that covers
  it, with the PKCE verifier, and to a registered uri; a resource is opened only by a token
  that is live, for a grant that has not expired; a refresh replaces a token, never adds one;
* a parameter sent more than once counts as not sent; a token request that cannot be read
  touches nothing, and no form is served twice; a prepared flow does not panic; a client is
  told of a token exactly if there is one, and not blamed for a failure of the server;
* no two calls of a signing issuer return the same string, and a string stands for the grant
  it was made for;
* an addon is given the data that was stored for it with this code, and nothing else gets
  into the token;
* a lookup answers from a row that was really stored, of its own client if the id is a
  literal, from a replica of the table if the cache has none, and always ends.

`PROJECT.json` lists the parts with their files, the hazards with their lines, and the
source lines of every definition.

## 2. The modules

| Module | Models |
|---|---|
| `TagGrant` | the generators: random tags never repeat; a signature binds the usage and the grant, its expiry in whole seconds only, and one grant may have several; grants with private extensions are refused |
| `CodeStore` | the promise of the `Authorizer` trait: an exchange removes the code and returns its grant in one step |
| `TokenStore` | the promise of the `Issuer` trait: an access token stands for one grant until it is replaced, a refresh token is on offer only together with the one access token it renews |
| `AuthMap` | `authorize` and `extract`, one action per redis command |
| `TokenMap` | `issue` and `refresh`, one action per redis command; `import_grant`, `revoke`, `recover_*` |
| `TokenSigner` | the `Issuer` that signs grants, in the steps of its `fetch_add`, with restarts |
| `Params`, `Scopes`, `Pkce`, `Registrar`, `CodeGrant` | request parameters; scope order; PKCE; client records and `ClientMap`; grants and machine conventions |
| `AuthorizationMachine`, `AccessTokenMachine`, `RefreshMachine`, `ResourceMachine` | the four state machines as pure operators `...New`, `...Advance` |
| `Machines` | the machines under an arbitrary executor |
| `OAuthServer` | machines, executors, registrar, authorizer and issuer composed; concurrent requests |
| `Adapters` | the four web framework adapters as operators on messages, requests and responses |
| `Endpoints` | the flows, sync and async, from HTTP message or web request to web response, over arbitrary primitives |
| `Addons` | `AddonList` under arbitrary addons, and grants that outlive it |
| `DbRegistrar` | `DBRegistrar` and its redis and scylla helpers, one action per command |
| `AuthMapProof`, `TokenMapProof`, `TokenSignerProof`, `DbRegistrarProof`, `AddonsProof`, `MachinesProof`, `OAuthServerProof`, `EndpointsProof` | theorems |
| `MCAuthMap`, `MCTokenMap`, `MCTokenSigner`, `MCMachines`, `MCOAuthServer`, `MCDbRegistrar`, `MCEndpoints`, `MCAddons` | instances for TLC |

**AuthMap and TokenMap.** `op[s]` is what instance `s` is doing: `pc` names the redis
command it issues next, the other fields are the local variables of the Rust function.
One operation runs per instance, because the traits take `&mut self`. A step is one
command together with everything the code does with the answer, up to the next command:
computing tags, comparing the reply with 1, the two `assert!`, returning. Each command
meets one of three fates: `"ok"`, `"lost"` (applied, reported as failed) and `"refused"`
(not applied). `Crash` ends an operation between two commands. Details that matter and are
kept: a failed GET of the counter counts as 0 in `authorize` and `issue` and is an error in
`refresh`; an HSET that does not create its field is an error although it has written; the
tag is computed from `next_usage - 1`, which underflows after wrapping (`OverflowChecks`);
`revoke` changes maps that nothing reads. History variables (marked in the modules) record
how often a code was created, redeemed and disclosed, which access tokens were replaced,
and whether anything has failed.

`AuthMap` is compared with `CodeStore`. The store sees a grant as far as its code binds it
(`Bound`): with the random generator this is the grant, with the assertion generator what is
signed of it (`Signed`), in which the expiry has lost the fraction of a second that redis
keeps. It cannot be more: two instances that read the same counter for grants of the same
second get the same code, and the second HSET puts its grant over the first while the code is
live, so that an HDEL may remove another grant than the HGET before it has read. `MCAuthMap`
has such grants; without `Bound` the comparison fails on it.

`TokenMap` is also compared with `TokenStore`: the two redis hashes are the maps `live` and
`renewable`, the replaced tokens are `dead`, and every command of every instance has to be a
step of the store or change none of it. The store has no operation that hands out a second
access token for a refresh token, stores a replaced one again, or offers a refresh token
without its access token; losing a refresh token (`Take` without a later `Offer`) is allowed,
because the code does it.

**TokenSigner.** `call[t]` is the `issue` that thread `t` is running: `Issuer` is implemented
for `&TokenSigner`, so that threads run at the same time, and a call that makes a refresh
token reads the counter twice. A string is the record of what is signed; two strings are the
same exactly if the records are (serialization and HMAC by their contract), and `until` is
cut to whole seconds as the serializer does. Settings need `&mut self` and change only
between calls. `New` ends the process and starts one with an old or a new key, whose
counter is 0. `reused` is history: the keys whose counter has started over.

**Machines.** A state is a record whose field `at` is the enum variant. `advance` replaces
the state by an error first (`take`), so an input that does not fit loses it; the
differences between the four machines in this respect are kept. `Machines` starts any of
them with any request of a small set and then gives it any inputs. The operators `...Answer`
and `...Asked` beside each machine are what an executor injects for an output: the call it
makes and which results it turns into an error. They stand for the sync executors.

**OAuthServer.** `run[t]` is a request in progress. A step is one call of a primitive with the
`advance` that takes its answer. Requests interleave at every call, as they do at the awaits
of the async executors and between instances; the actions are mapped to the async executors.
There are five flows: authorization, access token, refresh, implicit and resource; `permits`
records the tokens a resource was opened with. Authorizer and issuer are taken at the level of
their traits: `extract` removes and returns in one step (proved of `AuthMap`, with signed
codes up to the fraction of a second), a refresh replaces the access token (proved of
`TokenMap`); failures may lose what was removed. Codes, tokens and refresh tokens cannot be
guessed, so a client presents one only after it was sent out. The grant that the implicit flow
issues names the owner the request names, without consent. `CodeLife`, `RefreshLife` and
`ImplicitLife` are the expiry times of the sync code (1 day, 7 days, 1 hour); their relative
size does not matter to the properties. `TokenMap::valid_for` is not set.

**DbRegistrar.** `op[s]` is the lookup instance `s` is serving: HGET on the hash `clients`,
on a miss or an error of it a task that asks scylla, then HSET, then the conversion to an
`EncodedClient` and the check that was asked for. The task and the waiting call share a
channel made for this call (`chan`); `Timeout` gives up, and the task then sends to nobody.
The row is cached before it is converted, so one that does not convert is cached too, and
the conversion panics on some malformed rows and returns an error on others (`Panic`, `Nil`).
`register_client` writes a string under the client's id, which no lookup reads, with an
expiry of an hour; for the client id "clients" this is the key of the hash (`HashId`), and
SET then replaces the hash by a string on which HGET and HSET fail.

The table is changed by its operator, a whole row at a time (`ChangeTable`); `table[c]` lists
what the row of `c` was, write by write, and `applied[n][c]` says how many of these writes
replica `n` has (`Replicate` brings it a later one; an older one changes nothing, as the last
write wins). A query is answered by one replica, any one (`Held`), because the session reads
at LocalOne. `Literal` are the ids that stand for themselves in the text of the query; any
other may select whatever row of the table, or none (`Readable`), and the row is then cached
under that id. So the properties say of a literal id that it is answered from a row of its own
client, and of any other only that the row was somebody's (`KnownFor`); that a miss is
answered from what a replica held during the call; and that a client is found if every replica
has its row. `known`, `during` and `calm` are history.

**Endpoints.** `flow` is the flow prepared on an endpoint that has the parts `parts`; `Needs`
is what `prepare` asks for, `PartOf` what a stage of the executor unwraps, and a part that is
missing then is a `Panic`. `Wrap` makes the request the executor sees from the query, body and
header of `web`: the sync flows read the parameters where they are, the async ones make a
`NormalizedParameter` first, in which a repeated key stays without a value. The sync
authorization flow looks at `response_type` itself and runs the implicit grant for `token`;
the async one does neither. The stages are those of the machines; each asks a primitive, which
may answer anything (`Answers`) or fail (`Failures`). The executor's result becomes `todo`, the
calls that build the response; which of them may fail and what they do to status and headers
depends on the adapter (`MayFail`, `SetStatus`). A flow serves any number of requests, and a
request can be given to any number of flows; `called`, `fault` and `reads` are history.

`adapter` is one of the four frameworks or "any", a web request of the application's own. An
adapter makes `object` of an HTTP message (`ReceiveHttp`): several Authorization headers are
an error with actix, none at all with iron and rocket, and the first one with rouille; a body
must be a form, with rouille also one without a content type; a rocket request has its body
only when the application adds it (`GiveBody`); the body of iron and rouille is gone once it
was read (`AfterRead`). `AdHoc` and `GenericFlow` are the functions and methods of
`frontends/simple` that prepare a flow and declare a failure `unreachable!()`. The
frameworks themselves are external: what their types yield is taken from how the adapters
use them.

**Addons.** `task` is a call of `extend`, one step per addon of its list; an addon answers
anything (`AddonResult`). An authorization that passes stores its extensions with the code;
an exchange takes them out of the store before the addons are asked, and each addon removes
the data of its identifier. Nothing keeps two addons from having one identifier. The
operator fills the lists at any time and a restart empties them, while codes stay. `stored`,
`source` and `heard` are history: what addons were given and answered.

## 3. The runs

| Run | Expected | Checks |
|---|---|---|
| `auth_map` | pass | `TypeOK`, `SingleUse`, `RedeemedWasCreated`, `ImplementsCodeStore`, `ContendedCodeIsRedeemed` |
| `auth_map_assertion` | violation | `NeverTheSameCodeTwice` |
| `token_map` | pass | `TypeOK`, `RefreshEntryIsLock`, `OneLiveAccess`, `PairedRecords`, `RetiredStaysDead`, `AssertsHold`, `ImplementsTokenStore` |
| `token_map_lost_refresh` | violation | `RefreshTokenSurvives` |
| `machines` | pass | `OkAfterWholeProtocol`, `OkOnce`, `OkRestsOnFittingGrant`, `ErrorsRepeat` |
| `resource_scope` | violation | `AccessFulfilsScope` |
| `oauth_server` | pass | `Consented`, `OneAnswerPerCode`, `OneLiveToken`, `ProvenClient`, `PkceProven`, `RedirectRegistered`, `PermitsAreBacked` |
| `db_registrar` | pass | `TypeOK`, `ServedWasKnown`, `MissIsFresh`, `PresentIsFound`, `LookupEnds` |
| `endpoints` | pass | `RepeatedIsAbsent`, `OnlyAFreshFormIsServed`, `PreparedHasItsParts`, `SecretNeedsPermission`, `CoherentAnswer`, `FailureIsNotTheClients`, `OkIffIssued` |
| `endpoint_panic` | violation | `AuthorizationNeverPanics` |
| `token_signer` | pass | `TokensDiffer`, `RecoveredIsIssued` |
| `addons` | pass | `GivenIsStored`, `AttachedIsAnswered` |

**Bounds.**

* `auth_map`: two instances (every race between HGET and HDEL is a race of two), three
  grants that differ in what is signed, a fourth that differs from the first only in the
  fraction of a second, one of them with a private extension, a counter of two values so that
  it wraps, two calls of `authorize` and any number of `extract`. Each grant has one signature
  here; the theorem covers several. Extraction is unbounded, so the run has no deadlock and
  liveness can be checked without a state constraint.
* `token_map`: two instances, four calls (one issue and up to three concurrent or
  successive refreshes, imports and revocations among them), a counter of four values.
  `CHECK_DEADLOCK FALSE`, because the calls are used up. Instances are interchangeable,
  hence the symmetry.
* `machines`: two clients, two uris, two scope tokens, grants that differ in client, uri,
  scope and expiry, time 0..2. All requests over these sets and all inputs are tried.
* `oauth_server`: four requests, two at a time: enough for a full code flow followed by two
  concurrent refreshes, or for two exchanges of one code. A confidential client with
  PKCE S256 and a semantically registered uri, a public client with plain PKCE, a second
  registration of the first with another passphrase, fewer uris and a smaller scope. New
  codes and tokens are taken in order, because they are interchangeable. Time is 0..2, so
  that grants expire while tokens are in use. Implicit requests name their redirect uri; the
  authorization requests cover the default uri. `CHECK_DEADLOCK FALSE`, because the requests
  are used up.
* `db_registrar`: two instances, two calls (so that a late answer meets a second lookup, and
  two lookups fill the cache at once), one change by a caller or the operator, a client with
  a good and a malformed row, one whose id is the key of the hash, and one whose id is not a
  literal. Two replicas, which agree at first, so that one lags after a change; a write that
  changes nothing is left out. `CHECK_DEADLOCK
  FALSE`, because the calls are used up.
* `endpoints`: every set of parts, both builds, any number of flows and requests one after
  another; behind an adapter the sync build on the endpoints of `Generic`. The
  requests have keys once, twice and three times, every kind of header, a query or body that
  cannot be read, and reach every stage of every flow; grants differ in scope and expiry. One
  client, uri and token suffice, because identities are compared only in the machines. The
  messages have no, one and two headers, one that is not text, and each content type.
* `token_signer`: two threads, three calls, a counter of four values (so that it wraps when
  two calls make refresh tokens), two keys and one restart, a second of two ticks, a grant
  that can be signed and one that cannot. `CHECK_DEADLOCK FALSE`: calls and clock are used up.
* `addons`: three addons of which two share an identifier, lists of two, three entries in
  all, two codes, one restart, any number of authorizations and exchanges.

**Fairness.** Two runs have a liveness property. `ContendedCodeIsRedeemed` of `auth_map`: two
instances extracting the same code cannot make each other fail. It assumes
`WF_vars(Step(s))`: an instance that has begun an operation issues its next command, as a
Rust function does that is not stopped (a crash makes the property void). Nobody is assumed
to start an operation. `LookupEnds` of `db_registrar`: a lookup ends. It assumes the same
`WF_vars(Step(s))`, where the steps are the call's own redis commands and its
`recv_timeout`; nothing is assumed of scylla or of the task that asks it.

**What the violations show.**

* `auth_map_assertion`: two instances read the same counter, sign the same grant, the first
  code is redeemed, then the second instance stores and returns the same string. The suite
  for authorizers says "We don't produce the same token twice." The grants have to agree
  in every field that is signed, the expiry up to the second.
* `token_map_lost_refresh`: with two concurrent refreshes and no failure at all, a client
  loses its refresh token: the second refresh deletes the entry that the first has just
  put back, and then gives up because the access token it knows is gone.
* `resource_scope`: the scope test of the resource machine is the wrong way round: a grant
  with fewer privileges than the resource asks for is let in.
* `endpoint_panic`: an ad-hoc authorization flow, "guaranteed to never fail or panic", panics on
  `response_type=token`: the implicit grant unwraps an issuer that the flow was not given.

Other differences from the documentation, met while modelling and kept in the model as the
code has them (`PROJECT.json`, findings): `revoke` of `TokenMap` is documented as deleting
unconditionally and does not reach redis; `register_client` of `DBRegistrar`, documented as
inserting or updating the record, writes to a key that lookups do not read; the counter of
`TokenSigner`, which has to be unique for each signature, starts over with the process; the
Resource machine replaces an error by another
one when it gets a further input; `Input::None` destroys a refresh that awaits
authentication or the new token; the implicit grant without a `redirect_uri` makes two
responses, the second an error after a token was issued; an invalid resource request
announces the status 400 and is answered with 401.

## 4. The proofs

| Module | Theorem | For every `Server`, `Grant`, `Tag`, `U64`, ... |
|---|---|---|
| `AuthMapProof` | `TypeCorrect` | `Spec => []TypeOK` |
| | `ExchangesAreBacked` | `Spec => []RedeemedWasCreated` |
| | `CodesAreSingleUse` | `Spec => []SingleUse` |
| | `AuthMapImplementsCodeStore` | `Spec => ImplementsCodeStore` |
| `TokenMapProof` | `TokensTyped`, `RefreshIsExclusive`, `AccessIsUnique`, `RecordsArePaired`, `RetiredIsForever`, `AssertsNeverFail` | `Spec => []P` for the six invariants of `token_map` |
| | `TokenMapImplementsTokenStore` | `Spec => ImplementsTokenStore` |
| `TokenSignerProof` | `SignedTokensDiffer` | `Spec => []TokensDiffer` |
| | `SignedTokensAreRecovered` | `Spec => []RecoveredIsIssued` |
| `DbRegistrarProof` | `RegistrarTyped`, `AnswersWereKnown`, `MissesAreFresh`, `PresentClientsAreFound` | `Spec => []P` for the four invariants of `db_registrar` |
| `AddonsProof` | `AddonsGetTheirData` | `Spec => []GivenIsStored` |
| | `GrantsCarryAnswers` | `Spec => []AttachedIsAnswered` |
| `MachinesProof` | `OkNeedsWholeProtocol` | `Spec => []OkAfterWholeProtocol` |
| | `OkIsGivenOnce` | `Spec => []OkOnce` |
| | `OkGrantFits` | `Spec => []OkRestsOnFittingGrant` |
| | `ErrorsAreFinal` | `Spec => ErrorsRepeat`, an action property |
| `OAuthServerProof` | `TokensRestOnConsent` | `Spec => []Consented` |
| | `CodesAreAnsweredOnce` | `Spec => []OneAnswerPerCode` |
| | `RefreshesReplace` | `Spec => []OneLiveToken` |
| | `ClientsAreProven` | `Spec => []ProvenClient` |
| | `ChallengesAreMet` | `Spec => []PkceProven` |
| | `RedirectsAreRegistered` | `Spec => []RedirectRegistered` |
| | `ResourcesAreGuarded` | `Spec => []PermitsAreBacked` |
| | `ScopeOrderIsInclusion` | `PartialCmp(a, b)` is "Equal", "Less" or "Greater" exactly if `a` equals, is inside or contains `b` |
| | `OnlyTheVerifierPasses` | `Verify(Challenge(method, ChallengeFor(method, v)), w) <=> w = v` |
| `EndpointsProof` | `PreparedFlowsNeverPanic` | `Spec => []PreparedHasItsParts` |
| | `SecretsNeedPermission` | `Spec => []SecretNeedsPermission` |
| | `AnswersAreCoherent` | `Spec => []CoherentAnswer` |
| | `OkMeansIssued` | `Spec => []OkIffIssued` |
| | `FailuresAreTheServers` | `Spec => []FailureIsNotTheClients` |
| | `OnlyFreshFormsAreServed` | `Spec => []OnlyAFreshFormIsServed` |
| | `RepeatedParametersAreAbsent` | `Spec => []RepeatedIsAbsent` |
| | `RepresentationsAgree` | `UniqueInNormalized(Normalize(pairs), key) = UniqueInPairs(pairs, key)` |

Assumptions: those of `TagGrant` (a random tag is one not drawn before; a signature determines
the usage and what was signed of the grant, no more; `Nil` is not a tag or a grant), of the
two maps (which replies exist), of `TokenSigner` (a second has ticks, a counter has values,
`Nil` is not a recovered grant), and of `DbRegistrar` (its inputs are calls, rows and records,
literal ids are client ids; nothing is assumed of how far a replica lags) and `Addons` (an
addon has an identifier, `Nil` is not data). For the machines and the server: lifetimes are
positive, `Option::None` (`Nil`) is no client, token, grant, challenge or method and differs
from a parameter that does not parse (`Bad`), no two verifiers have the same digest, and the
requests, registrations and grants that come in are such records. For the endpoints: a web
request has a query, a body and a header, a message a sequence of headers; a query or body is
a sequence of pairs of any length (`Form`) or cannot be read (`Bad`, which is no such
sequence); and having returned nothing (`Nil`) is no result. TLC evaluates all of them on the
runs. Only the scope tokens are assumed to be finitely many, because the code compares scopes
by counting; all other sets may be infinite.

*AuthMap.* `SingleUse` follows from `RedeemedWasCreated` and from the fact that with random
tags a field is created at most once: a tag about to be stored has been drawn and not been
created, and no other instance is about to store it. For the refinement the invariant says
that the grant an extracting instance has read agrees with the one the field holds, as long as
it holds any, in what the code binds (`Bound`). This is the point of the argument: with random
tags because the field was created once, with signed tags because an HSET over a live code
brings a grant that is the same but for the fraction of a second; such an HSET is a stutter of
the store.

*TokenMap.* None of the properties is inductive on its own. The invariant `Inv` adds what
the instances know about the tokens they hold: records are stored under their own tokens
(`KeysInv`) and the locals of an operation fit its `pc` (`LocalsInv`); and, for the random
generator, every token in use was drawn (`DrawnInv`); an access token that is drawn and not
stored yet is known to its drawer alone, is not live, not retired, and named by no record
(`FreshInv`); an instance that has taken a refresh entry away excludes all others from it
(`LockInv`); the access token named by a record that was read, if it is live, belongs to the
same refresh token (`FamilyInv`); a refresh token has one live access token at most, none when
an instance is about to store a new one, and that one afterwards (`LiveInv`). With
these, `PairInv` and `RetiredInv` are preserved by every command. `FreshInv` is the point:
without it another instance could store, or retire, the token this one is about to store.

The refinement needs the same invariant and, per command, one lemma about the store's step:
the HSET of an access entry adds (`HsetAccessAdds`; nothing live or on offer for its refresh
token, by `LiveInv` and `LockInv`), the HSET of a refresh entry offers (`HsetRefreshOffers`),
the HDEL of one takes (`RefreshHdelTakes`), the HDEL of the access entry retires
(`RefreshHdelAccessRetires`, where `LockInv` says that the refresh token is not on offer);
all other commands leave the two hashes alone (`KeptHashes`). A command that failed but was
applied is the same step. Like the invariants it is stated for the random generator.

*TokenSigner.* The invariant says, for the present key as long as its counter has not started
over, that the numbers in strings and in the hands of threads lie below the counter
(`BelowInv`) and that a number a thread holds is held by no other and in no token
(`HeldInv`); for all keys, that tokens of one key have different numbers (`DifferInv`). A
restart is harmless because the keys of all strings are known as used (`UsedInv`): a key not
seen before has no strings, any other is recorded as starting over. What a string says
about its grant (`SaysInv`) and the arithmetic of seconds (`SecondsLost`) give the second theorem.

*DbRegistrar.* Every row that can become an answer, in any version of the table, in the hash
or in a query task, was known (`KnownInv`): for its client, or, where the id is not a literal,
for some client. Replicas hold versions that were written (`TableInv`), hence what a query can
select was known (`ReadableIsKnown`), and writes and replication take nothing from this
(`KnownGrows`, `TableChangesKeep`). Channels are numbered by calls, so no two lookups share
one and none is used again (`ChanInv`); therefore the only task whose answer a waiting lookup
takes is its own, about its own client, and with a row that a replica held while it waits
(`WaitInv`). Interference is settled once, in the lemma `Bystander`: a lookup that does not
move keeps its part of the invariant whatever the others, the tasks, the table or the replicas
do. Liveness of a lookup (`LookupEnds`) stays with TLC.

*Addons.* `LastData` is defined with `CHOOSE`; the invariant uses `IsLast`, which says the
same by quantifiers and is preserved when a log grows (`LastGrows`). It is kept of what is
stored with each code (`StoreInv`), of what the call at hand has collected (`ResultInv`), and
of what is left of the code's data for identifiers not asked yet (`DataInv`); data that was
taken is gone for the next addon of the same identifier. `ListInv` ties the addons asked and
those left to the list of the call.

*Machines.* The properties speak of what a machine has been fed; the invariant says the same of
what it is: for each flow the state determines the inputs that led to it (`trail`), in order,
and the grant it carries is the one it was given, was this client's and had not expired then
(`FitsCode`, `FitsRefresh`). `OutInv` says that an Ok of the token and resource machines leaves
an error behind, hence there is no second one, and that an error is repeated. The scope test
of a refresh is proved to be inclusion (`PriviledgedToIsInclusion`), from the
counting that the code does; `OneCredential` says what is left of a request whose header and
body may both name a client.

*OAuthServer.* A code is in the map, in the hands of the one request that extracted it, or
answered (`CodeInv`): this is what makes it single use with any number of requests at once.
`IssuedInv` and `TokenInv` say that what is stored under codes and under the tokens clients
have rests on a consent, `AnswerInv` and `PermitInv` are the properties answer by answer, and
`RunInv` says what a request in progress has proved so far, by the state of its machine: the
client has shown a registered passphrase from `Recover` on, the code's challenge is met at
`Issue`, and so on. All of it refers only to histories that grow, so a request that does not
move keeps its part whatever the others do (`Bystander`), re-registration of its client
included. The steps are then of three kinds: those that issue (`IssueStep`), those that take
a code or token out of its map (`RemovesStep`), and those that touch neither (`QuietStep`).

`OneLiveToken` has an invariant of its own over this one (`LiveInv`). That at most one of a
refresh token's access tokens is live does not by itself survive a refresh: the step removes the
token that the entry names, so the entry has to name the live one. `Renewable` says that it
does as long as both are stored, and that the refresh token behind an answer was itself sent,
so that a new refresh token is behind no earlier answer. A failed refresh removes the entry and
perhaps the access token, which spares both facts (`Spares`); no later step brings the entry
back, because `refresh` starts from one that is there.

Two of the operators are settled for all arguments. The scope order is computed by counting
common tokens; with finite scopes the counts agree exactly if the sets do
(`ScopeOrderIsInclusion`). A saved challenge fits exactly the verifier that it was made from, for
both methods and whether or not `allow_plain` was called (`OnlyTheVerifierPasses`): what is saved
is the method with the challenge, and a digest determines its verifier.

*Endpoints.* `StageInv` and `FlowInv` tie the stage of the executor to the flow that was prepared,
and the flow to the parts the endpoint has; `NeedsAreUsed` then compares what `prepare` asks
for with what each stage unwraps. `ObjectInv` says what is left of a message in the web
request: its only header, and a body that is a form, for iron and rouille until it was read
once. `RespondInv` describes the calls that remain by the status they lead to (`Writes`),
and that this status is the one deserved: Ok exactly if the issuer was asked and did answer; a
failure of the server is returned as an error, except after a stage of the implicit grant.
Per flow there is a lemma about where the executor begins (`...Begins`) and one about what any
answer of a primitive leads to (`...Moves`), so the steps themselves are proved once for all
four flows.

`RepeatedIsAbsent` compares two folds over the parameters: the map that `insert_or_poison`
fills and the list without repeated keys (`Once`), each wrapped as a request. `Says` states
what the first pairs say about a key: the value of its only pair, nothing if it has none or
several. `Collects` says that the map has the keys met so far and answers so for each; every
insertion keeps it (`InsertCollects`). `Keeps` does the same for `Once`. Both folds are
recursive functions over the positions, and what holds after every round is shown by the least
counterexample: the rounds at which the statement fails are a set, which has a least element
if it has any (`LeastOf`, from the well-foundedness of the naturals), and that round is
neither the first nor the successor of a good one (`RoundByRound`). So list and map answer
alike (`RepresentationsAgree`), dropping the repeated keys changes no answer
(`OnceHasTheSameValues`), and therefore none of the wrapped requests (`OnceWrapsTheSame`). The
invariant `FormInv` adds that the web request at hand always has such forms and that the
executor's request was wrapped from it.

Model-checked only: liveness (`ContendedCodeIsRedeemed`, `LookupEnds`), which the prover does
not reach. The four violations are TLC's too: they are about one behaviour each.

## 5. Not modelled

* The data sources of `oxide-auth-db` other than redis over scylla: variants that the alias
  `DataSource` does not select.
* `frontends/gotham.rs`: no module declares it, so it is not compiled.
* Texts: bodies of responses, error descriptions and uris (`code_grant/error.rs`), parsing of
  headers and uris beyond whether it succeeds. They format what the machines decided.
* Argon2, HMAC and random bytes beyond their contract; `set_password_policy` of `ClientMap`,
  which is called before clients are registered.
* Wrappers that forward every call and keep nothing: the implementations of the traits for
  references, boxes and locks, `MapErr` and `ErrorInto` of the simple frontend, the actix
  operations.

`PROJECT.json` gives the reason for each part.

## 6. State of the project

The maps with the promises they implement, the signing issuer, the machines, the composed
server, the client database, the endpoints with their adapters and the addons are modelled, and
every safety property that a passing run checks is proved. One link is left informal:
`OAuthServer` takes authorizer and issuer at the level of their traits, with a refresh as one step,
while `TokenStore` has a refresh in the parts that an interrupted one can leave behind (take,
retire, add, offer). A step of the first is four of the second, so there is no refinement step
by step; the properties the server needs of its issuer (`OneLiveToken`) are proved on both levels
instead, as `RefreshesReplace` and `AccessIsUnique`.
