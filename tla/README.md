# A TLA+ verification of the MCP proxy

The proxy stands between MCP clients and an upstream MCP server. It plays the
authorization server towards the clients, delegates the sign-in to a real
identity provider (IdP), and hands out *sealed* tokens: AES-GCM ciphertexts that
it alone can write and read. It keeps no database. Whatever it needs to remember
of a client, a sign-in or a session is inside the sealed values that clients and
browsers carry around. The only mutable memory of the process is three caches
(seen assertion ids, client metadata documents, the IdP's keys), and those are
gone after a restart.

That shapes what can go wrong. There are few data structures and many orders of
events: the same sealed value presented twice, late, at the wrong endpoint, under
another deployment; handlers that interleave where they wait for the IdP; answers
that get lost after the IdP has spent what cannot be spent twice. The modules
here are about those.

Paths below are relative to `src/internal/` unless they start with `cmd/`.

## 1. The system

| Component | State | Operations | Talks to |
|---|---|---|---|
| Auth service (`service/auth/impl.go`) | none of its own; owns the three caches | `RegisterClient`, `AuthenticateRequest` (`/auth`), `ManageAuthorizationCode` (`/callback`), `RetrieveAccessToken` (`/token`), `RefreshToken` (`/refresh`) | IdP, caches, encryption |
| Self-issued tokens (`impl.go` 793-902) | none; everything is in the sealed blob | `issueSelfIssuedTokens`, `refreshSelfIssuedToken` | clock, configuration |
| Assertion replay store (`jti_store.go`) | jti to expiry, under a mutex | `Seen` | called by `validatePrivateKeyJWT` |
| Client metadata cache (`cimd.go`) | URL to (document, expiry), under an RW lock | `get`, `set`, `fetchCIMDDocumentRaw` | the document's server, outside the lock |
| IdP key cache (`impl.go` 724-915, `jwks.go`) | the current key set, under an RW lock | `ValidateJWT`, `refreshJWKS`, `RSAKey` | the IdP's JWKS endpoint |
| Middleware and reverse proxy (`server/impl.go`, `utility/logger.go`) | the bodies of a request while they are read | `AuthMiddleware`, `resolveToken`, `Rewrite`, `ModifyResponse` | clock, upstream |
| Sealed blobs (`utility/encryption.go`, `types.go`) | the key | `Encrypt`, `Decrypt`, the `Encode`/`Decode` pairs | |
| HTTP wiring (`infrastructure/wire/gin.go`) | none | handlers, 30-second request context | auth service, proxy |
| Startup and shutdown (`cmd/proxy/main.go`, `observability/probe.go`, `telemetry.go`) | two listeners, the deadline of the shutdown | `withRetry` fetches, graceful shutdown, flush of telemetry | all |
| Configuration, metadata, telemetry, sample server | | | |

What makes each part correct:

* **Self-issued tokens**: no chain of refreshes outlives the window fixed when the
  user logged in; the expiry a client is told is the one enforced; a token is
  never dead on arrival.
* **/token and /refresh**: an answer never carries a refresh token the IdP no
  longer honours; a client loses its session only when an answer is lost; nothing
  reaches the middleware as acceptable that does not go back to a JWT validated at
  issuance; what is handed out can be used; every request ends that waits for no
  fetch without a deadline.
* **Replay store**: an assertion is taken at most once while it is valid; a refusal
  as a replay has a cause; memory of the past is dropped.
* **Authorization flow**: a user is redirected only where the client's registration
  says, on the strength of a document that is not older than the cache promises;
  a user who was let through is not refused half way without a reason on the
  client's side.
* **IdP key cache**: a token is refused for want of its key only if the IdP lately
  did not publish it; a withdrawn key stays out once the set has been refreshed; an
  older key set does not replace a newer one for good; the lock blocks nobody.
* **Middleware and reverse proxy**: what the upstream sees under a mapped or fixed
  header is what the token and the configuration say; bodies that look complete are
  complete; an exchange ends although the other end stalls.
* **Startup and shutdown**: the start is given up only after all attempts; a request
  is cut off only after it had its time; the process ends, within its deadlines.

## 2. The modules

| Module | What it is |
|---|---|
| `SealedTokens` | constant-level operators: the plaintexts of sealed tokens and the arithmetic of their lifetimes; shared by the next two |
| `SelfIssuedTokens` | `token_behavior: self_issued` as a state machine |
| `SessionWindow` | the abstract promise it implements: one deadline per login |
| `SealedTokensProofs` | lemmas about that arithmetic, for the two modules that use it |
| `SelfIssuedTokensProofs` | the theorems of `SelfIssuedTokens` |
| `TokenFlow` | `/token` and `/refresh` between client and IdP, both behaviors, uses `SealedTokens` |
| `TokenFlowProofs` | its theorems |
| `JtiStore` | `validatePrivateKeyJWT` and the replay store |
| `JtiStoreProofs` | its theorems |
| `RedirectMatch` | constant-level operators: when a redirect URI counts as a listed one |
| `AuthorizeFlow` | `/auth`, `/callback` and the metadata cache, uses `RedirectMatch` |
| `AuthorizeFlowProofs` | its theorems |
| `JwksCache` | `ValidateJWT` and the cached key set of the IdP |
| `KeyLookup` | the abstract promise it implements: a look and a refresh are one step each |
| `JwksCacheProofs` | the theorems of `JwksCache` |
| `ProxyRequest` | a request on `/mcp`: headers, bodies and the deadline |
| `ProxyRequestProofs` | its theorems |
| `Lifecycle` | the process from its start to its end |
| `LifecycleProofs` | its theorems |
| `MC...` | small instances of these for TLC |

Conventions. A refused request that changes nothing is a stuttering step and has
no action, unless a property is about refusals. A sealed value is modelled by its
plaintext. `Foo_Bar` next to `Foo` is a mutant of it: the definition as a plausible
bug would have it, named in `PROJECT.json` with the property that must then fail.
No definition of a specification refers to a mutant.

### SealedTokens and SelfIssuedTokens

Time is counted in half seconds. The code mixes `time.Now()` with whole Unix
seconds (`exp`, `iat`): `now.Unix() >= exp` at `/refresh`, `now.Unix() > exp` in
the middleware, `exp.Before(now)` on the exact clock for IdP tokens, and an
`Expiry` member of the answer that keeps the fraction. Half a second is the
coarsest unit in which these differ; `Unix(t) == t \div 2` is the truncation.
The lifetimes in the configuration (`ttl`, `max`) are half seconds too.

| Code | Model |
|---|---|
| `issueSelfIssuedTokens` | `Issue(l)` |
| `refreshSelfIssuedToken` | `Refresh(b)` for any sealed blob `b`, since access and refresh blobs have the same type tag |
| `AuthMiddleware` and `resolveToken` | `Serve(b)` |
| restart with another configuration | `Redeploy` |

`session` and `served` are history variables: what the login fixed, and when a
request was last let through. The handlers read the clock once each and keep
nothing, so each is one step.

`SessionWindow` has no tokens. `SelfIssuedTokens` implements it with `deadline`
of a login mapped to `WindowEnd(session[l])`.

### TokenFlow

A request occupies a slot of `job` and moves through stages where the handler
waits: `client` (fetching the document and keys of a client with `private_key_jwt`),
`exchange` or `renew` (the IdP's token endpoint), `validate` (about to call
`ValidateJWT`), `jwks` (waiting for the IdP's keys), `reply` (the answer is on its
way). Requests of different slots interleave at every stage.

| Code | Model |
|---|---|
| `RetrieveAccessToken` up to the first call of somebody else | `TokenRequest` |
| `validatePrivateKeyJWT`, which fetches twice | `AssertionChecked` |
| `RefreshToken` up to `tokenSource.Token()`, with its refusals | `RefreshRequest`, `RefuseClient` |
| `RefreshToken` under `self_issued` | `RefreshSelfIssued` |
| the IdP's answer, its refusal or silence, its answer lost | `ExchangeAnswered`, `RenewalAnswered`, `IdpFails`, `IdpAnswerLost` |
| `ValidateJWT`, then `encryptTokenPair` or `issueSelfIssuedTokens` | `KeyCached`, `KeyMissing`, `KeysFetched`, through `Accept` and `Reject` |
| the HTTP response | `Deliver`, `ReplyLost` |
| process restart | `Restart(b)`, possibly with the other `token_behavior` |

The IdP is external and modelled by what the code relies on: a code is spent at
its first use, a refresh token is honoured until it is rotated, an IdP either
rotates (a new token in every answer) or does not (no token in an answer). `gen`
numbers the refresh tokens of a login; `gen = 0` is the empty string that is
sealed when the exchange gave none (`EmptyToken`). An access token of the IdP is a
JWT with an `exp` or without one (`NoExp`): `ValidateJWT` takes both, the middleware
only the first. A refresh token may be a JWT as well and then has an `exp` of its own;
one with `NoExp` is an opaque string, or a JWT without `exp`. The middleware parses
whatever was sealed, so `Resolves` accepts every plaintext with an `exp` that is not
past, and `ServedOnlyValidated` looks at both halves of a pair. A JWT that fails for a
reason other than its expiry is a nondeterministic `Reject`.

`RefuseClient` is there because a property is about it; other refusals stutter.

### JtiStore

A request fetches the client's document and keys (`fetch`), verifies the assertion
against the clock (`Verify`) and asks the store later (`Seen`). `Seen` holds the
mutex from beginning to end and reads the clock itself, so it is one step. `timely`
and `late` count how often an assertion was taken up to its expiry and after it.
The history is per process, as the store is, and `Restart` clears both.

### AuthorizeFlow

A flow goes from `/auth` through a check of its redirect URI to the IdP and, at
`/callback`, through a second check to the client. For a dynamically registered
client the URIs come out of `client_id`; for a URL client the check is a lookup in
the cache, possibly a fetch (`CacheMiss`, `ServerAnswers`), and a write to the
cache (`Receive`). The fetch is outside the lock, so its two ends are separate
steps, and fetches may end in any order. `Publish` is the owner of a document who
replaces it. `lastLive` is history: when a URL last served a document. `since` in a
flow is history: when `/auth` let it through.

Documents are members of a small set with a redirect-URI set and a validity flag.
A dynamically registered client must present a listed URI literally; for a document
`RedirectMatch` decides. There a URI is the record of what `url.Parse` tells apart
(scheme, host name, port, path with query, the rest), and the code's decision is
`RedirectURIMatchesRegistered`. `RedirectsOnlyRegistered` does not repeat that
definition: `Permitted` says independently what a flow may end at.

### JwksCache

| Code | Model |
|---|---|
| the two looks of `keyFunc` under the read lock | `LookHit`, `MissFirst`, `MissSecond` |
| `RSAKey` at the first use of a key | `LookUnparsed`, `Parse`, `Unlock` |
| `fetchJWKS`, outside any lock | `IdpAnswers`, `FetchFails` |
| `refreshJWKS` from the answer on | `AwaitLock`, `Install` |
| the IdP rotates its keys; the proxy restarts | `Publish`, `Restart` |

`jwksMu` is modelled with its writer preference: a validation in stage `locking` keeps
new readers out, and gets in when no reader is inside. The key sets the IdP has
published are a sequence (`history`), so that "an older answer overwrites a newer one"
is a smaller index. `RSAKey` writes the parsed key into the shared entry while its
callers hold only the read lock, a data race: between `Parse` and `Unlock` of one
validation another may read an incomplete key, when the build can reorder the two
writes (`TornReads`), and then no signature verifies under it. `floor` and the fields
`began`, `oldest` and `until` are history; the properties are stated in them.

`KeyLookup` has no cache, no lock and no parsed entries. The proxy knows one of the key
sets the IdP published; a validation decides in one step by the set that is known then;
a refresh makes it know, in one step, a set that is not older than its question.
`JwksCache` implements it with `known` mapped to the version of the cache and each
validation to its abstract lookup (`LookupOf`): parsing is part of the look, and a fetch,
its answer and the wait for the write lock are part of the refresh. An incomplete key is
allowed only where two looks at the same key overlap.

### ProxyRequest

| Code | Model |
|---|---|
| `AuthMiddleware` behind `ginAuthMiddleware` | `Arrive`, through `Refuse` and `Admit` |
| the two loops that set headers | `Inject` |
| `ReverseProxy` and `Rewrite`, up to the body | `Outgoing` |
| `LogHttpRequest` | `UploadPart`, `UploadEnds`, `UploadBreaks` |
| the transport | `UpstreamAnswers`, `UpstreamFails`, `SendCancelled` |
| `LogHttpResponse` in `ModifyResponse` | `AnswerPart`, `AnswerEnds`, `AnswerBreaks`, `AnswerCancelled` |
| the 30-second context, or a client that leaves | `ContextDone` |
| tokens issued, refreshed, expired; a redeployment | `Login`, `Refresh`, `Expire`, `Redeploy` |

Headers are a function from names to values. A client sends any subset of them, and its
`Connection` header may nominate any subset as hop-by-hop; the reverse proxy takes those
away after the middleware has injected its own, and with them the names it passes on for
nobody (`Stripped`: its list of hop-by-hop headers and, as `Rewrite` is set,
`Forwarded`, `X-Forwarded-For`, `-Host` and `-Proto`), even if the configuration sets
them. A request is let in only if it presents its token, by the scheme `Bearer`. Claims
that are mapped to one header overwrite each other in the order of a Go map, so `Mapped`
is a set. A self-issued token carries the headers of the configuration it was issued
under. Bodies have a number of parts and may or may not have a declared length: a body
that falls short of a declared length is noticed by the transport or by the client, a
chunked one is not.

### Lifecycle

| Code | Model |
|---|---|
| `withRetry` around the two fetches of `New` | `FetchSucceeds`, `FetchFails`, `Retry`, `GiveUp` |
| the goroutines of the two servers | `Listen`, `ListenFails` |
| `signal.Notify`, and a signal before it | `Notify`, `Killed` |
| `srv.Shutdown` | `Terminate`, `Drained`, `DrainTimeout` |
| `probeSrv.Shutdown`, with the same context | `ProbesClosed`, `ProbesTimeout` |
| the deferred `shutdownTelemetry` | `Flush`, `Done` |

`Logger.Fatal` ends the process wherever it is called, also in the goroutine of a
server, which may fail to listen and may fail later; `Exit` records what was cut off. A
telemetry provider may return an error, which `err` keeps as `Telemetry.Shutdown` does.
Time does not pass while `main` could go on, because its steps are short against the
delays.

## 3. The runs

| Run | Instance | Shows |
|---|---|---|
| `self_issued` | 2 logins, 3 configurations, clock to 7, 3 access tokens | `WithinWindow`, `ExpiryAgrees`, `RefreshNeverExtends`, `FreshTokenUsable`, refinement of `SessionWindow` |
| `max_window` | 1 login | violation: the documented max window does not bound the first access token |
| `token_flow` | 1 login, 2 requests, 2 kinds of clients (one with `private_key_jwt`), both behaviors, rotating and non-rotating IdP, one rotation, tokens with and without `exp`, clock to 3 | `AnswersCarryLiveToken`, `StrandedOnlyByLoss`, `ServedOnlyValidated`, `IssuedTokenResolves`, `Answered` |
| `refresh_clients` | 1 request | violation: a public URL client is refused at `/refresh` |
| `request_timeout` | 1 request | violation: a request waiting for the IdP's keys has no deadline |
| `jti_store` | 3 assertions, 2 of them with one jti, 2 requests, clock to 4 | `AtMostOnceWhileValid`, `RemembersWhileValid`, `RegisteredWasTaken`, `KeepsOnlyValid` |
| `jti_replay` | the same | violation: a copy verified before the expiry is taken after it |
| `authorize_flow` | 2 flows, 1 client of each kind, 4 URIs, 3 documents, clock to 3 | `BoundedStaleness`, `RedirectsOnlyRegistered`, `LateRefusals` |
| `jwks_cache` | 2 validations, 3 keys (one of a type the proxy cannot use), 3 versions of the key set | `MissHasCause`, `WithdrawnKeys`, `Answered`, `Settles`, refinement of `KeyLookup` |
| `proxy_request` | 1 request, 2 users, 3 configurations, 4 headers (one that is always removed), bodies of up to 2 parts | `HeadersVouched`, `BodiesWhole`, `ExchangeEnds` |
| `truncated_answer` | the same | violation: a broken off answer looks complete |
| `lifecycle` | 2 requests, 1 to 3 attempts, a grace of 3, 2 telemetry providers or none | `GivesUpLate`, `CutOnlyLate`, `StopsInTime`, `Terminates` |

Why the bounds are enough.

* `MaxTime`. In `jti_store` the clock runs past every expiry, so each assertion is
  seen before, at and after it. In `self_issued`, the clock of 7 half seconds passes
  the window of the default configuration and of the one with `ttl` above `max`, for a
  login at the start; the window of the third (6 half seconds, whose last second ends
  with the clock) and those of later logins are only seen from inside. The third access
  token allows a refresh from a refreshed token. In `token_flow`, with a clock of 3 and
  a leeway of 1, JWTs issued up to 2 are seen to expire, at the leeway and without it;
  self-issued tokens are not, which `self_issued` makes up for. In `authorize_flow`, with
  `TTL = MaxFlight = 1`, a clock of 3 is one more than the two together: a
  document can be withdrawn, served out of the cache, overwritten by a late response
  and expire, and an entry older than the bound of `BoundedStaleness` could show.
* Logins share nothing but the clock and the configuration; two of them in
  `self_issued` show that blobs of one login do not serve another, and one is
  enough in `token_flow`, where all interplay is between requests of one login.
* Two requests at once show every pairwise interleaving of handlers; the theorems
  below hold for any number where they exist.
* `MaxGen = 2` refresh tokens per login: the first and a rotated one; the stale one
  may be presented and may be on its way in another handler. That is one rotation;
  the theorems hold for any number.
* `MaxUses = 3` submissions of an assertion taken: two would do for a replay.
* `MaxVersions = 3` in `jwks_cache`: two rotations, back to the first set, so that a
  late answer is older by one or by two and a withdrawn key comes back. Two
  validations overlap in every way; a third would only repeat a role.
* `proxy_request` has one request at a time because requests share nothing but the
  configuration. Two parts let a body break off before, in and after its middle; the
  configurations map two claims to one header, fix a mapped header, fix
  `Authorization` and fix a header the reverse proxy removes.
* In `lifecycle`, `Grace = 3` is less than `MaxAge = 5`: requests of different ages
  are under way at the signal and at the deadline. Attempts of 1, 2 and 3 (the last
  by the default for values that are not positive) include the retry with none left.
* `Lifetimes` contains 0 and `NoExp`: an IdP token may be expired before it is validated,
  or never expire. `RefreshLifetimes` contains 1 and `NoExp`: a refresh token may pass
  the middleware for a while, or never.
* `authorize_flow` treats flows as interchangeable (symmetry): its properties are
  invariants that quantify over flows and nothing tells one from another.
  Its four URIs are a local one, the same with a port and under the other name of the
  host, a remote one and one of a private scheme, all with one path: scheme and hosts
  of the match are decided both ways. `PortInsensitive` is TRUE, as in the sample
  configurations; its default is FALSE, which only takes matches away. The theorems
  hold for both.

Only `lifecycle` turns deadlock checking off, because a process that has ended does
nothing more. Elsewhere a client may always send something, so a deadlock would be one
of everything; the deadlock of a few validations on the lock is what `Answered` of
`JwksCache` excludes.

### Fairness

`token_flow` and `request_timeout`: `FairSpec` assumes weak fairness of `Progress(r)`
for each request slot. The Go runtime runs every handler that can run. A call of the
IdP's token endpoint ends, because `Exchange` and `TokenSource` get the request's
context and the wiring gives it 30 seconds (`IdpFails` is enabled at any time and
stands for the deadline too). A response is written, or its connection breaks.
Nothing is assumed of `KeysFetched` and `AssertionChecked`: `fetchJWKS` and the fetch of
a client's document have neither context nor timeout. `Answered` therefore excepts
requests that come to wait for the IdP's keys, and those whose client and its keys are
still being looked up; `EveryRequestAnswered`, which does not, is violated.

`jwks_cache`: weak fairness of the steps the scheduler runs, and strong fairness of
taking the read lock. A writer that waits keeps readers out, so a reader's step is
enabled again and again and not for good; `sync.RWMutex` lets the readers that wait in
when the writer unlocks, before the next writer. The IdP's answers get no fairness.

`proxy_request`: the request's context is done at some time, and reading the
upstream's answer and waiting for it are cancelled then. Nothing is assumed of either
end, nor of the client's upload, which nobody cancels; `ExchangeEnds` begins after it.

`lifecycle`: time passes and `main` takes the steps of the shutdown it can take. No
request, probe or provider need ever end.

### Disagreements met while modelling

Five runs end in a violation, each of a statement the repository makes; the
quotations are in `PROJECT.json`.

1. `jti_replay`: "jti not previously seen (replay protection)". The expiry check and
   the store read the clock separately; between them the entry may be pruned.
2. `max_window`: `token_max_ttl` is "max window from original login", but
   `issueSelfIssuedTokens` does not clamp the first access token. What does hold is
   `WithinWindow`: the larger of the two lifetimes bounds everything.
3. `refresh_clients`: "Public clients rely on PKCE instead", but `/refresh` tries to
   decrypt a client_id that is a URL and refuses it.
4. `request_timeout`: every route has a request timeout, but the key fetch does not
   see it.
5. `truncated_answer`: "502: Upstream error", but an upstream that breaks off an
   answer of undeclared length after its status line is passed on as if it had
   finished, and so is one that is cut at the 30 seconds.

Three more are part of what the properties of passing runs say the code does:

* "never forwards client tokens upstream", but `Rewrite` sends the client's own sealed
  token as the bearer: `HeadersVouched` says so of every request that goes upstream.
* Issuance is "the only point where JWKS is checked", and the middleware takes what is
  sealed for "the raw IdP JWT". Refresh tokens are sealed the same way and unchecked;
  where they are JWTs with an `exp`, as Keycloak's are, they pass too. What does hold is
  `ServedOnlyValidated`: such a token was sealed together with a validated access token
  of the same login.
* "full claim validation (expiry, audience, issuer)" at issuance, but a JWT without
  `exp` passes there and never passes the middleware; `IssuedTokenResolves` excepts it.

Smaller ones: `cimd_enabled` and `cimd_allow_list` are read from
the configuration and used nowhere; `jwt_leeway` is honoured at issuance and not by
the middleware (`IssuedTokenResolves` states exactly that gap); `callbackHandler`
answers an IdP error itself where its comment speaks of propagating it to the
client; claims are mapped "on every proxied request", and those of
a self-issued token at issuance only; "clean connection draining" lasts 10 seconds
where a request may take 30; a readiness probe is answered with 200 before the proxy
listens and while it drains; a streamed answer (SSE) is collected whole before the
client sees any of it; the documented metrics of proxied requests are never recorded;
the README promises validation of audience and issuer, and `ValidateJWT`
checks signature and time only.

## 4. The theorems

`tlapm` proves, for all values of the constants that satisfy the named assumptions:

**`SelfIssuedTokensProofs`** (assumptions: both defaults are positive,
configurations are pairs of integers).

* `TypeCorrect`.
* `WindowHolds`. `WithinWindow` speaks of requests that were served; it is not
  inductive, because it says nothing of the blobs still out there. The
  strengthening says of every sealed blob that its login is open, that its `iat` is
  the second of that login and that its expiry is at most `WindowEnd`. `Issue`
  establishes this from the two lifetimes; `Refresh` keeps it because of the clamp
  by the presented blob's own expiry, and only because of it; `Serve` turns it into
  `WithinWindow`.
* `ExpiryTheorem`: the told expiry, when truncated, is the blob's expiry, for every
  access token ever issued.
* `RefreshTheorem`, `FreshTheorem`: action properties, by cases on the two actions
  that issue.
* `WindowRefinement`: every step of `SelfIssuedTokens` is a step of `SessionWindow`
  or leaves its variables alone; the invariant of `WindowHolds` gives the guard of
  the abstract `Serve`.

**`JtiStoreProofs`** (assumption: assertions have an expiry in `Nat`).

* `TypeCorrect`.
* `AtMostOnce` and `Remembers`, proved together: neither is inductive alone. An
  assertion is taken only if its jti is not registered, and while an assertion that
  was taken is valid its entry is there, under its own expiry. Pruning keeps it
  (pruning needs `now > expiry`), and another assertion with the same jti cannot
  overwrite it, because `Seen` refuses it first.
* `RefusalsAreReplays`, `Prunes`.

**`AuthorizeFlowProofs`** (`AuthorizeAssumption`: the two kinds of clients are
disjoint, the bounds are natural numbers, documents have sets of URIs).

* `TypeCorrect`.
* `ListsPermitted`: what `RedirectMatch` lists is what the reference definition
  permits, for any sets of URIs.
* `Staleness`, `RegisteredOnly`, `NoVainSignIn`, all from the one invariant
  `IInv`. None of the three is inductive, because each speaks of a flow that has
  ended and says nothing of the cache entries and responses that decide how the
  next one ends. `IInv` adds that an entry of the cache holds a valid document and
  expires at most `TTL + MaxFlight` after its document was last live; that a
  response under way is of a document live since the request was made, at most
  `MaxFlight` ago; and that a flow past `/auth` carries the evidence that let it
  through (`LetThrough`), which a refusal at `/callback` is measured against. A
  late response that overwrites a younger entry keeps all this, because its age is
  bounded by `MaxFlight` whatever it overwrites.
* The parts of `IInv` are operators on values (a flow, the clock, the history of
  live documents), so that what time and the owners of documents do to them is one
  lemma about values, `FlowStable`.

**`JwksCacheProofs`** (`JwksAssumption`: usable keys are keys, key sets are sets of
keys; nothing bounds the validations, the keys or the rotations).

* `TypeCorrect`. That `parsed` stays inside the cache is not inductive: `RSAKey` adds
  its key some steps after the look that found it. `TypeInv` adds that the key of a
  validation inside the read lock is in the cache; no refresh can swap the set then.
* `Withdrawn` and `Misses`, from the invariant `CacheInv`. Both speak of a decision
  that was taken, so the strengthening says which versions the cache can come to hold:
  it holds a published one, not older than `floor`; a fetch under way brings one that is
  not older than the one published when it began; and what a validation remembers as
  the earliest such beginning (`oldest`) is at most the version of the cache when it
  looks again and at most the beginning of every fetch still under way. An older answer
  that overwrites a newer one keeps all of this, and so does no more harm than the two
  theorems allow.
* `Atomicity`: `JwksCache` implements `KeyLookup`. `Unlock` is where a look that had to
  parse takes effect, and `TypeInv` gives its guard; `Install` is where a refresh does,
  and `CacheInv` says that the answer is not older than the question. The mutant of the
  run gives the lock back before parsing, and the refinement fails.

**`TokenFlowProofs`** (`TokenFlowAssumption`: the kinds of clients, behaviors and
configurations; `NoPairAssumption`: the value for "no tokens" is not a pair of tokens).

* `TypeCorrect`.
* `LiveTokenCarried` and `NobodyStranded`, from the invariant `FlowInv`. Neither is
  inductive: two handlers that both carried an answer of a rotating IdP would break the
  first one with their next step. `FlowInv` adds that nothing of a login circulates
  before its code is spent; that the numbers in circulation are at most the IdP's; and
  that, if the IdP rotates, while one handler carries its answer no other one does, and
  neither the client nor a handler about to renew has the token the IdP honours. The
  latter is what makes the rotation an exchange of one token for one answer.
* `OnlyValidatedServed`, from `OriginInv`: both halves of every pair, held or on its way,
  are of the login it was asked for, and a JWT of that login was validated before. A
  refresh under `self_issued` looks at no JWT, so this must hold of what it refreshes. An
  IdP's refresh token, which is never validated, is in a pair with a JWT that was.
* `NewAnswersResolve`: the action property, by cases on the steps that make an answer. A
  JWT with an `exp` that has just passed the validation would have passed the middleware's
  a leeway ago (`ValidatedResolves`), and a self-issued token whose last second is not
  past was not past then either (`SelfIssuedResolves`, from `UnixOrder` of
  `SealedTokensProofs`).

**`ProxyRequestProofs`** (`ProxyAssumption`: `Authorization` is a header and none of the
removed ones, mapped and fixed names are headers, the two behaviors; nothing bounds
users, claims or bodies).

* `TypeCorrect`, of which the part that is not obvious says that a self-issued token
  keeps the headers of the configuration it was issued under through refreshes and
  redeployments.
* `OnlyVouchedSent`: `HeadersVouched` is inductive together with `TypeOK`. What has to
  be shown is `EntryProps`: of the names in the fixed, the mapped and the client's
  headers, taken over each other in the order of the code, without the nominated ones
  and those the reverse proxy always removes, and under the bearer token, each has the
  value it is vouched for, whatever mapping of several claims to a header the Go map
  came to.
* `LoggingKeepsBodies`: `BodiesWhole`, by cases on how a reading ends.

**`LifecycleProofs`** (`LifecycleAssumption`: delays and deadlines are natural numbers,
there is a default number of attempts, and times are told apart up to `Grace` at least).

* `TypeCorrect`.
* `GiveUpIsLate`, `CutIsLate`, `ShutdownIsShort`, from the invariant `LifeInv`. They
  speak of a process that has ended. `LifeInv` says of one that runs that its failed
  attempts took the delays between them (`RetriesTakeTime`); that `elapsed + left = Grace`
  while requests or probes drain, and that the flush has only its own deadline
  (`DeadlinesHold`); that whatever still runs in the drain is at least as old as the
  drain (`DrainingAges`); and which servers are up at each step of `main`, so that a
  request cannot slip in behind the signal (`ServersFollowMain`).

Each strengthening was checked by TLC as an invariant of the instances of section 3
before it was proved.

## 5. Only model-checked, and not modelled

Every invariant and every safety property of the passing runs is a theorem. Only
model-checked are the liveness properties (`Answered` of `TokenFlow` and of `JwksCache`,
`Settles`, `ExchangeEnds`, `Terminates`), because liveness under fairness and `ENABLED`
are out of the prover's reach. The five violations are counterexamples of TLC.

What the theorems leave to the models: `MaxTime`, `MaxGen`, `MaxUses`, `MaxVersions`,
`MaxParts` and `MaxAge` are bounds of the modules, and the theorems hold for every value
of them, not without them. Of `FairSpec` the theorems use the safety part only, `Spec`.

Not modelled: cryptography (a blob is its plaintext; one master key for all
deployments); HTTP binding, CORS, metrics, the log lines; protocol upgrades, trailers
and the retries of Go's transport on `/mcp`; `url.Parse` and its errors; the metadata
documents of the proxy itself, which are computed from the configuration; the sample MCP
server. PKCE is checked by the IdP, the proxy passes its parameters on. The client
metadata cache never drops expired entries; that is a memory bound the code does not
have, so no property states it.

## 6. The plan

What is left:

1. A refinement of `TokenFlow`: the custody of a session as an abstract specification
   (the code, a handler, the client, or nobody, after a loss), which `FlowInv` has all
   the facts for.
2. The same for `JtiStore`: an assertion's one use as a specification without a store.
3. The three steps of `TokenFlow` that stand for the key lookup (`KeyCached`,
   `KeyMissing`, `KeysFetched`) against `KeyLookup`.
